----------------------- MODULE DrmSessionManagerProofs -----------------------
(* The cache of DRM sessions, for every number of tracks, keys, slots, tunes  *)
(* and requests.                                                             *)
EXTENDS DrmSessionManager, FiniteSetTheorems, TLAPS

\* A thread that requests a license does so with the lock held.
Locked == {"token", "attempt", "perform", "performed", "respond", "process"}

UniqueKeys ==
    \A r, s \in Slots : cachedKeyID[r] = cachedKeyID[s] /\ r # s => cachedKeyID[r] = NoKey

LockInv == \A t \in Tracks : pc[t] \in Locked => mDrmSessionLock = t

NotFailedInv ==
    \A t \in Tracks : pc[t] \in Locked => ~isFailedKeyId[sessionSlot[t]]

JoinedInv == tune = "stopped" => \A t \in Tracks : pc[t] = "idle" /\ decryptor[t] = {}

\* The invariants that need no thought of who decrypts with what.
CacheInv == OneSlotPerKey /\ LockInv /\ NotFailedInv /\ JoinedInv

\* What a thread knows of the slot it works on: it holds the key asked for and
\* its session, it is the one used last, and nobody decrypts with the session.
RequestInv ==
    \A t \in Tracks :
        /\ pc[t] \notin {"idle", "report"} => keyId[t] \in Keys
        /\ gotSession[t] => pc[t] = "report"
        /\ pc[t] \in Locked =>
             /\ cachedKeyID[sessionSlot[t]] = keyId[t]
             /\ sessionKey[sessionSlot[t]] = keyId[t]
             /\ \A u \in Tracks : sessionSlot[t] \in decryptor[u] => dangling[u]
             /\ \A r \in Slots : creationTime[r] <= creationTime[sessionSlot[t]]

\* What a track decrypts with is the session of a cached key, and it is ready,
\* as long as it was not deleted.
DecryptorInv ==
    \A t \in Tracks : ~dangling[t] => \A s \in decryptor[t] :
        /\ cachedKeyID[s] \in Keys /\ decryptor[t] = {s}
        /\ sessionKey[s] = cachedKeyID[s] /\ sessionState[s] = "ready"

\* Free slots are the oldest ones, and no two keys are equally old.
AgeInv ==
    \A s \in Slots :
        /\ creationTime[s] = 0 <=> cachedKeyID[s] = NoKey
        /\ creationTime[s] <= clock
        /\ \A r \in Slots : creationTime[r] = creationTime[s] /\ r # s => creationTime[s] = 0

\* A key used after the one a track decrypts with was asked for since.
AskedInv ==
    \A t \in Tracks : ~dangling[t] =>
        \A s \in decryptor[t], r \in Slots :
            creationTime[s] < creationTime[r] => cachedKeyID[r] \in otherKeysSince[t]

\* The two parts of InUseEvictedLast.
EvictedLast ==
    \A t \in Tracks : dangling[t] => Cardinality(otherKeysSince[t]) >= dash_MaxDRMSessions
ReturnedRight ==
    \A t \in Tracks : gotSession[t] /\ pc[t] = "report" /\ ~dangling[t] =>
        \A s \in decryptor[t] : sessionKey[s] = keyId[t]

UseInv == /\ CacheInv /\ RequestInv /\ DecryptorInv /\ AgeInv /\ AskedInv
          /\ EvictedLast /\ ReturnedRight
\* What a thread can be, and what its variables start with.
LEMMA Values ==
    /\ {"none", "ready", "init", "pending", "error"} \subseteq KeyStates
    /\ {"idle", "spawned", "lock", "token", "attempt", "perform", "performed",
        "respond", "process", "report"} \subseteq Pcs
    /\ {"none", "unknown", "token", "challenge", "auth", "licenseTimeout",
        "request"} \subseteq Failures
    /\ {"none", "curlOk"} \subseteq HttpCodes
    /\ 1 \in Slots /\ 0 \in 0 .. MAX_LICENSE_REQUEST_ATTEMPTS
BY DrmAssumption
   DEF KeyStates, Pcs, Failures, HttpCodes, Slots, MAX_LICENSE_REQUEST_ATTEMPTS

\* The first tune starts with values of the right type.
LEMMA TypeInit == ASSUME Init PROVE TypeOK
<1>1. CacheTypeOK  BY DEF Init, CacheTypeOK
<1>2. SessionsTypeOK  BY Values DEF Init, SessionsTypeOK
<1>3. ManagerTypeOK  BY DEF Init, ManagerTypeOK
<1>4. RequestTypeOK
  <2>1. /\ pc \in [Tracks -> Pcs] /\ keyId \in [Tracks -> Keys \cup {NoKey}]
        /\ sessionSlot \in [Tracks -> Slots]
    BY Values DEF Init
  <2>2. /\ attemptCount \in [Tracks -> 0 .. MAX_LICENSE_REQUEST_ATTEMPTS]
        /\ httpCode \in [Tracks -> HttpCodes] /\ failure \in [Tracks -> Failures]
    BY Values DEF Init
  <2>3. gotSession \in [Tracks -> BOOLEAN]
    BY DEF Init
  <2>. QED  BY <2>1, <2>2, <2>3 DEF RequestTypeOK
<1>5. PlayerTypeOK
  <2>1. tune \in {"playing", "abort", "join", "stopped"}  BY DEF Init
  <2>2. mDownloadsEnabled \in BOOLEAN /\ errorSent \in BOOLEAN  BY Zenon DEF Init
  <2>3. tunes \in 1 .. MaxTunes /\ requests \in 0 .. MaxRequests
    BY DrmAssumption DEF Init
  <2>. QED  BY <2>1, <2>2, <2>3 DEF PlayerTypeOK
<1>. QED  BY <1>1, <1>2, <1>3, <1>4, <1>5 DEF TypeOK

\* An empty cache, with no license thread yet, satisfies the invariant.
LEMMA CacheInvInit == Init => CacheInv
BY TypeInit DEF Init, CacheInv, OneSlotPerKey, LockInv, NotFailedInv, JoinedInv, Locked

\* Every step keeps to the types.
LEMMA TypeUnchanged ==
    ASSUME TypeOK
    PROVE  /\ UNCHANGED cache => CacheTypeOK'
           /\ UNCHANGED sessions => SessionsTypeOK'
           /\ UNCHANGED manager => ManagerTypeOK'
           /\ UNCHANGED request => RequestTypeOK'
           /\ UNCHANGED player => PlayerTypeOK'
<1>1. UNCHANGED cache => CacheTypeOK'  BY DEF TypeOK, CacheTypeOK, cache
<1>2. UNCHANGED sessions => SessionsTypeOK'  BY DEF TypeOK, SessionsTypeOK, sessions
<1>3. UNCHANGED manager => ManagerTypeOK'  BY DEF TypeOK, ManagerTypeOK, manager
<1>4. UNCHANGED request => RequestTypeOK'  BY DEF TypeOK, RequestTypeOK, request
<1>5. UNCHANGED player => PlayerTypeOK'  BY DEF TypeOK, PlayerTypeOK, player
<1>. QED  BY <1>1, <1>2, <1>3, <1>4, <1>5

\* What is kept of the keys asked for are keys.
LEMMA TypeOfAsked ==
    ASSUME SessionsTypeOK, RequestTypeOK, NEW t \in Tracks
    PROVE  AskedBy(t) \in [Tracks -> SUBSET (Keys \cup {NoKey})]
BY DEF SessionsTypeOK, RequestTypeOK, AskedBy

\* A license thread keeps every variable to its type, whatever step it takes.
LEMMA TypeOfThread ==
    ASSUME TypeOK, NEW t \in Tracks, LicenseThread(t) PROVE TypeOK'
<1>. USE TypeUnchanged, Values DEF TypeOK, Goto
<1>1. CASE ResetCurlAbort(t)
  <2>1. CacheTypeOK'  BY <1>1 DEF ResetCurlAbort, CacheTypeOK, cache
  <2>2. SessionsTypeOK'  BY <1>1 DEF ResetCurlAbort, SessionsTypeOK, sessions
  <2>3. ManagerTypeOK'  BY <1>1 DEF ResetCurlAbort, ManagerTypeOK, manager
  <2>4. RequestTypeOK'  BY <1>1 DEF ResetCurlAbort, RequestTypeOK, request
  <2>5. PlayerTypeOK'  BY <1>1 DEF ResetCurlAbort, PlayerTypeOK, player
  <2>. QED  BY <2>1, <2>2, <2>3, <2>4, <2>5
<1>2. CASE RefuseSession(t)
  <2>1. CacheTypeOK'  BY <1>2 DEF RefuseSession, CacheTypeOK, cache
  <2>2. SessionsTypeOK'  BY <1>2 DEF RefuseSession, SessionsTypeOK, sessions
  <2>3. ManagerTypeOK'  BY <1>2 DEF RefuseSession, ManagerTypeOK, manager
  <2>4. RequestTypeOK'  BY <1>2 DEF RefuseSession, RequestTypeOK, request
  <2>5. PlayerTypeOK'  BY <1>2 DEF RefuseSession, PlayerTypeOK, player
  <2>. QED  BY <2>1, <2>2, <2>3, <2>4, <2>5
<1>3. CASE ReuseSession(t)
  <2>. PICK s \in Slots : ReuseSession(t)!2!(s)
    BY <1>3 DEF ReuseSession
  <2>1. CacheTypeOK'
    <3>1. cachedKeyID' \in [Slots -> Keys \cup {NoKey}]
      BY DEF CacheTypeOK, RequestTypeOK
    <3>2. creationTime' \in [Slots -> Nat] /\ clock' \in Nat
      BY DEF CacheTypeOK, Touch
    <3>3. isFailedKeyId' \in [Slots -> BOOLEAN]
      BY DEF CacheTypeOK
    <3>. QED  BY <3>1, <3>2, <3>3 DEF CacheTypeOK
  <2>2. SessionsTypeOK'
    <3>1. sessionState' \in [Slots -> KeyStates]  BY DEF SessionsTypeOK
    <3>2. decryptor' \in [Tracks -> SUBSET Slots]
      BY DEF SessionsTypeOK, ReturnSession
    <3>3. dangling' \in [Tracks -> BOOLEAN]  BY DEF SessionsTypeOK, ReturnSession
    <3>4. otherKeysSince' \in [Tracks -> SUBSET (Keys \cup {NoKey})]
      BY TypeOfAsked DEF ReturnSession
    <3>. QED  BY <1>3, <3>1, <3>2, <3>3, <3>4 DEF ReuseSession, SessionsTypeOK
  <2>3. ManagerTypeOK'  BY <1>3 DEF ReuseSession, ReturnSession, ManagerTypeOK
  <2>4. RequestTypeOK'
    <3>1. /\ pc' \in [Tracks -> Pcs] /\ gotSession' \in [Tracks -> BOOLEAN]
      BY DEF RequestTypeOK, ReturnSession
    <3>2. failure' \in [Tracks -> Failures] /\ sessionSlot' \in [Tracks -> Slots]
      BY DEF RequestTypeOK
    <3>. QED  BY <1>3, <3>1, <3>2 DEF ReuseSession, RequestTypeOK
  <2>5. PlayerTypeOK'  BY <1>3 DEF ReuseSession
  <2>. QED  BY <2>1, <2>2, <2>3, <2>4, <2>5
<1>4. CASE CreateSession(t)
  <2>. PICK s \in Slots, result \in {"none", "init", "pending", "error"} :
         CreateSession(t)!2!(s, result)
    BY <1>4 DEF CreateSession
  <2>1. CacheTypeOK'
    <3>1. cachedKeyID' \in [Slots -> Keys \cup {NoKey}]
      BY DEF CacheTypeOK, RequestTypeOK
    <3>2. creationTime' \in [Slots -> Nat] /\ clock' \in Nat
      BY DEF CacheTypeOK, Touch
    <3>3. isFailedKeyId' \in [Slots -> BOOLEAN]
      BY DEF CacheTypeOK
    <3>. QED  BY <3>1, <3>2, <3>3 DEF CacheTypeOK
  <2>2. SessionsTypeOK'
    <3>1. sessionState' \in [Slots -> KeyStates]  BY DEF SessionsTypeOK, DeleteSession
    <3>2. sessionKey' \in [Slots -> Keys \cup {NoKey}]
      BY DEF SessionsTypeOK, RequestTypeOK
    <3>3. dangling' \in [Tracks -> BOOLEAN]  BY DEF SessionsTypeOK, DeleteSession
    <3>4. otherKeysSince' \in [Tracks -> SUBSET (Keys \cup {NoKey})]
      BY TypeOfAsked
    <3>. QED  BY <1>4, <3>1, <3>2, <3>3, <3>4 DEF CreateSession, SessionsTypeOK
  <2>3. ManagerTypeOK'  BY <1>4 DEF CreateSession, ManagerTypeOK
  <2>4. RequestTypeOK'  BY <1>4 DEF CreateSession, RequestTypeOK
  <2>5. PlayerTypeOK'  BY <1>4 DEF CreateSession
  <2>. QED  BY <2>1, <2>2, <2>3, <2>4, <2>5
<1>5. CASE GetAccessToken(t)
  <2>1. CacheTypeOK'  BY <1>5 DEF GetAccessToken, CacheTypeOK, cache
  <2>2. SessionsTypeOK'  BY <1>5 DEF GetAccessToken, SessionsTypeOK, sessions
  <2>3. ManagerTypeOK'  BY <1>5 DEF GetAccessToken, ManagerTypeOK, manager
  <2>4. RequestTypeOK'  BY <1>5 DEF GetAccessToken, RequestTypeOK, request
  <2>5. PlayerTypeOK'  BY <1>5 DEF GetAccessToken, PlayerTypeOK, player
  <2>. QED  BY <2>1, <2>2, <2>3, <2>4, <2>5
<1>6. CASE Attempt(t)
  <2>1. CacheTypeOK'  BY <1>6 DEF Attempt, MayAttempt, MAX_LICENSE_REQUEST_ATTEMPTS, CacheTypeOK, cache
  <2>2. SessionsTypeOK'  BY <1>6 DEF Attempt, MayAttempt, MAX_LICENSE_REQUEST_ATTEMPTS, SessionsTypeOK, sessions
  <2>3. ManagerTypeOK'  BY <1>6 DEF Attempt, MayAttempt, MAX_LICENSE_REQUEST_ATTEMPTS, ManagerTypeOK, manager
  <2>4. RequestTypeOK'  BY <1>6 DEF Attempt, MayAttempt, MAX_LICENSE_REQUEST_ATTEMPTS, RequestTypeOK, request
  <2>5. PlayerTypeOK'  BY <1>6 DEF Attempt, MayAttempt, MAX_LICENSE_REQUEST_ATTEMPTS, PlayerTypeOK, player
  <2>. QED  BY <2>1, <2>2, <2>3, <2>4, <2>5
<1>7. CASE CurlPerform(t)
  <2>1. CacheTypeOK'  BY <1>7 DEF CurlPerform, CacheTypeOK, cache
  <2>2. SessionsTypeOK'  BY <1>7 DEF CurlPerform, SessionsTypeOK, sessions
  <2>3. ManagerTypeOK'  BY <1>7 DEF CurlPerform, ManagerTypeOK, manager
  <2>4. RequestTypeOK'  BY <1>7 DEF CurlPerform, RequestTypeOK, request
  <2>5. PlayerTypeOK'  BY <1>7 DEF CurlPerform, PlayerTypeOK, player
  <2>. QED  BY <2>1, <2>2, <2>3, <2>4, <2>5
<1>8. CASE AfterPerform(t)
  <2>1. CacheTypeOK'  BY <1>8 DEF AfterPerform, CacheTypeOK, cache
  <2>2. SessionsTypeOK'  BY <1>8 DEF AfterPerform, SessionsTypeOK, sessions
  <2>3. ManagerTypeOK'  BY <1>8 DEF AfterPerform, ManagerTypeOK, manager
  <2>4. RequestTypeOK'  BY <1>8 DEF AfterPerform, RequestTypeOK, request
  <2>5. PlayerTypeOK'  BY <1>8 DEF AfterPerform, PlayerTypeOK, player
  <2>. QED  BY <2>1, <2>2, <2>3, <2>4, <2>5
<1>9. CASE NoLicense(t)
  <2>1. CacheTypeOK'  BY <1>9 DEF NoLicense, DeleteSession, CacheTypeOK, cache
  <2>2. SessionsTypeOK'  BY <1>9 DEF NoLicense, DeleteSession, SessionsTypeOK, sessions
  <2>3. ManagerTypeOK'  BY <1>9 DEF NoLicense, DeleteSession, ManagerTypeOK, manager
  <2>4. RequestTypeOK'  BY <1>9 DEF NoLicense, DeleteSession, RequestTypeOK, request
  <2>5. PlayerTypeOK'  BY <1>9 DEF NoLicense, DeleteSession, PlayerTypeOK, player
  <2>. QED  BY <2>1, <2>2, <2>3, <2>4, <2>5
<1>10. CASE ProcessLicense(t)
  <2>1. CacheTypeOK'  BY <1>10 DEF ProcessLicense
  <2>2. SessionsTypeOK'
    <3>1. sessionState' \in [Slots -> KeyStates]
      BY <1>10 DEF ProcessLicense, SessionsTypeOK
    <3>2. decryptor' \in [Tracks -> SUBSET Slots]
      BY <1>10 DEF ProcessLicense, SessionsTypeOK, RequestTypeOK, ReturnSession
    <3>3. dangling' \in [Tracks -> BOOLEAN]
      BY <1>10 DEF ProcessLicense, SessionsTypeOK, ReturnSession
    <3>4. otherKeysSince' \in [Tracks -> SUBSET (Keys \cup {NoKey})]
      BY <1>10 DEF ProcessLicense, SessionsTypeOK, ReturnSession
    <3>. QED  BY <1>10, <3>1, <3>2, <3>3, <3>4 DEF ProcessLicense, SessionsTypeOK
  <2>3. ManagerTypeOK'  BY <1>10 DEF ProcessLicense, ReturnSession, ManagerTypeOK
  <2>4. RequestTypeOK'
    <3>1. pc' \in [Tracks -> Pcs] /\ gotSession' \in [Tracks -> BOOLEAN]
      BY <1>10 DEF ProcessLicense, RequestTypeOK, ReturnSession
    <3>2. failure' \in [Tracks -> Failures]
      BY <1>10 DEF ProcessLicense, RequestTypeOK
    <3>. QED  BY <1>10, <3>1, <3>2 DEF ProcessLicense, RequestTypeOK
  <2>5. PlayerTypeOK'  BY <1>10 DEF ProcessLicense
  <2>. QED  BY <2>1, <2>2, <2>3, <2>4, <2>5
<1>11. CASE Report(t)
  <2>1. CacheTypeOK'  BY <1>11 DEF Report, CacheTypeOK, cache
  <2>2. SessionsTypeOK'  BY <1>11 DEF Report, SessionsTypeOK, sessions
  <2>3. ManagerTypeOK'  BY <1>11 DEF Report, ManagerTypeOK, manager
  <2>4. RequestTypeOK'  BY <1>11 DEF Report, RequestTypeOK, request
  <2>5. PlayerTypeOK'  BY <1>11 DEF Report, PlayerTypeOK, player
  <2>. QED  BY <2>1, <2>2, <2>3, <2>4, <2>5
<1>. QED  BY <1>1, <1>2, <1>3, <1>4, <1>5, <1>6, <1>7, <1>8, <1>9, <1>10, <1>11 DEF LicenseThread

\* Every step keeps to the types.
LEMMA TypeStep == ASSUME TypeOK, [Next]_vars PROVE TypeOK'
<1>. USE TypeUnchanged, Values, DrmAssumption
<1>1. ASSUME NEW t \in Tracks, LicenseThread(t) PROVE TypeOK'
  BY <1>1, TypeOfThread
<1>2. ASSUME NEW t \in Tracks, NEW k \in KeysOf[t], SpawnLicenseThread(t, k)
      PROVE TypeOK'
  <2>0. k \in Keys  BY <1>2
  <2>1. RequestTypeOK'  BY <1>2, <2>0 DEF SpawnLicenseThread, TypeOK, RequestTypeOK, Goto
  <2>2. PlayerTypeOK'  BY <1>2 DEF SpawnLicenseThread, TypeOK, PlayerTypeOK
  <2>. QED  BY <1>2, <2>1, <2>2 DEF SpawnLicenseThread, TypeOK
<1>3. CASE StopDisablesDownloads
  BY <1>3 DEF StopDisablesDownloads, TypeOK, PlayerTypeOK
<1>4. CASE Stop
  <2>1. CASE StopAbortsCurl
    BY <2>1 DEF StopAbortsCurl, TypeOK, ManagerTypeOK, PlayerTypeOK
  <2>2. CASE StopEnds
    BY <2>2 DEF StopEnds, TypeOK, cache, SessionsTypeOK, ManagerTypeOK, PlayerTypeOK
  <2>. QED  BY <1>4, <2>1, <2>2 DEF Stop
<1>5. CASE Tune
  <2>1. CacheTypeOK'
    <3>1. cachedKeyID' \in [Slots -> Keys \cup {NoKey}]
      BY <1>5 DEF Tune, ClearFailedKeyIds, TypeOK, CacheTypeOK
    <3>2. creationTime' \in [Slots -> Nat] /\ clock' \in Nat
      BY <1>5 DEF Tune, ClearFailedKeyIds, TypeOK, CacheTypeOK
    <3>3. isFailedKeyId' \in [Slots -> BOOLEAN]
      BY <1>5 DEF Tune, ClearFailedKeyIds
    <3>. QED  BY <3>1, <3>2, <3>3 DEF CacheTypeOK
  <2>2. PlayerTypeOK'
    <3>1. tune' \in {"playing", "abort", "join", "stopped"}
      BY <1>5 DEF Tune
    <3>2. mDownloadsEnabled' \in BOOLEAN /\ errorSent' \in BOOLEAN
      BY <1>5, Zenon DEF Tune, TypeOK, PlayerTypeOK
    <3>3. tunes' \in 1 .. MaxTunes /\ requests' \in 0 .. MaxRequests
      BY <1>5 DEF Tune, TypeOK, PlayerTypeOK
    <3>. QED  BY <3>1, <3>2, <3>3 DEF PlayerTypeOK
  <2>. QED  BY <1>5, <2>1, <2>2 DEF Tune, TypeOK, ManagerTypeOK
<1>6. CASE UNCHANGED vars  BY <1>6 DEF vars, TypeOK
<1>. QED  BY <1>1, <1>2, <1>3, <1>4, <1>5, <1>6 DEF Next

\* The cache, the locks and what Stop leaves behind stay in order.
LEMMA CacheInvOfThread ==
    ASSUME CacheInv, NEW t \in Tracks, LicenseThread(t), TypeOK' PROVE CacheInv'
<1>. USE DrmAssumption
     DEF CacheInv, OneSlotPerKey, LockInv, NotFailedInv, JoinedInv, Locked, Goto
<1>0. /\ cachedKeyID \in [Slots -> Keys \cup {NoKey}]
      /\ isFailedKeyId \in [Slots -> BOOLEAN]
      /\ pc \in [Tracks -> Pcs] /\ sessionSlot \in [Tracks -> Slots]
      /\ NoTrack \notin Tracks
  BY DEF TypeOK, CacheTypeOK, RequestTypeOK
<1>1. pc[t] # "idle" /\ tune # "stopped"
  BY DEF LicenseThread, ResetCurlAbort, RefuseSession, ReuseSession, CreateSession,
         GetAccessToken, Attempt, CurlPerform, AfterPerform, NoLicense,
         ProcessLicense, Report
<1>2. tune' = tune
  BY DEF LicenseThread, ResetCurlAbort, RefuseSession, ReuseSession, CreateSession,
         GetAccessToken, Attempt, CurlPerform, AfterPerform, NoLicense,
         ProcessLicense, Report, player
<1>3. JoinedInv'  BY <1>1, <1>2
<1>4. SUFFICES UniqueKeys' /\ LockInv' /\ NotFailedInv'
  BY <1>3 DEF UniqueKeys
<1>5. UniqueKeys  BY DEF UniqueKeys
<1>6. ASSUME UNCHANGED <<cachedKeyID, isFailedKeyId, mDrmSessionLock, sessionSlot>>,
             \A u \in Tracks \ {t} : pc'[u] = pc[u],
             pc'[t] \in Locked => pc[t] \in Locked
      PROVE  UniqueKeys' /\ LockInv' /\ NotFailedInv'
  BY <1>5, <1>6, <1>0 DEF UniqueKeys
<1>7. ASSUME UNCHANGED <<cachedKeyID, isFailedKeyId>>,
             \A u \in Tracks \ {t} : pc'[u] = pc[u] /\ sessionSlot'[u] = sessionSlot[u],
             pc[t] \in Locked \/ UNCHANGED mDrmSessionLock, pc'[t] \notin Locked
      PROVE  UniqueKeys' /\ LockInv' /\ NotFailedInv'
  BY <1>5, <1>7, <1>0 DEF UniqueKeys
<1>8. CASE ResetCurlAbort(t)
  BY <1>8, <1>6, <1>0 DEF ResetCurlAbort, cache
<1>9. CASE RefuseSession(t)
  BY <1>9, <1>6, <1>0 DEF RefuseSession, cache, manager
<1>10. CASE ReuseSession(t)
  <2>. PICK s \in Slots : ReuseSession(t)!2!(s)
    BY <1>10 DEF ReuseSession
  <2>1. UniqueKeys'
    BY <1>0, <1>5 DEF UniqueKeys, SlotFor, SlotOf
  <2>2. \A u \in Tracks : pc[u] \notin Locked
    BY <1>10, <1>0 DEF ReuseSession
  <2>3. pc' = [pc EXCEPT ![t] = "report"]
    BY DEF ReturnSession
  <2>. QED  BY <2>1, <2>2, <2>3, <1>0
<1>11. CASE CreateSession(t)
  <2>. PICK s \in Slots, result \in {"none", "init", "pending", "error"} :
         CreateSession(t)!2!(s, result)
    BY <1>11 DEF CreateSession
  <2>1. UniqueKeys'
    BY <1>0, <1>5 DEF UniqueKeys, SlotFor, SlotOf
  <2>2. \A u \in Tracks : pc[u] \notin Locked
    BY <1>11, <1>0 DEF CreateSession
  <2>3. \A u \in Tracks : pc'[u] \in Locked => u = t /\ mDrmSessionLock' = t
    BY <2>2, <1>0
  <2>4. sessionSlot'[t] = s /\ ~isFailedKeyId'[s]
    BY <1>0 DEF IsFailed
  <2>. QED  BY <2>1, <2>3, <2>4
<1>12. CASE GetAccessToken(t)
  BY <1>12, <1>6, <1>0 DEF GetAccessToken, cache
<1>13. CASE Attempt(t)
  BY <1>13, <1>6, <1>0 DEF Attempt, cache, manager
<1>14. CASE CurlPerform(t)
  BY <1>14, <1>6, <1>0 DEF CurlPerform, cache
<1>15. CASE AfterPerform(t)
  BY <1>15, <1>6, <1>0 DEF AfterPerform, cache, manager
<1>16. CASE NoLicense(t)
  <2>1. \A u \in Tracks : u # t => pc[u] \notin Locked
    BY <1>16, <1>0 DEF NoLicense
  <2>2. \A u \in Tracks : pc'[u] \notin Locked
    BY <1>16, <2>1, <1>0 DEF NoLicense
  <2>. QED  BY <1>16, <1>5, <2>2 DEF NoLicense, UniqueKeys
<1>17. CASE ProcessLicense(t)
  BY <1>17, <1>7, <1>0 DEF ProcessLicense, ReturnSession, cache
<1>18. CASE Report(t)
  BY <1>18, <1>7, <1>0 DEF Report, cache, manager
<1>. QED  BY <1>8, <1>9, <1>10, <1>11, <1>12, <1>13, <1>14, <1>15, <1>16, <1>17,
             <1>18 DEF LicenseThread

\* Every step, of a license thread or of the player, keeps the cache invariant.
LEMMA CacheInvStep == ASSUME CacheInv, [Next]_vars PROVE CacheInv'
<1>. USE DrmAssumption
     DEF CacheInv, OneSlotPerKey, LockInv, NotFailedInv, JoinedInv, Locked, Goto
<1>0. /\ cachedKeyID \in [Slots -> Keys \cup {NoKey}]
      /\ pc \in [Tracks -> Pcs]
  BY DEF TypeOK, CacheTypeOK, RequestTypeOK
<1>1. TypeOK'  BY TypeStep
<1>2. ASSUME NEW t \in Tracks, LicenseThread(t) PROVE CacheInv'
  BY <1>1, <1>2, CacheInvOfThread
<1>3. ASSUME NEW t \in Tracks, NEW k \in KeysOf[t], SpawnLicenseThread(t, k)
      PROVE CacheInv'
  BY <1>0, <1>1, <1>3 DEF SpawnLicenseThread, cache, manager
<1>4. CASE StopDisablesDownloads
  BY <1>1, <1>4 DEF StopDisablesDownloads, cache, manager, request
<1>5. CASE StopAbortsCurl
  BY <1>1, <1>5 DEF StopAbortsCurl, cache, request
<1>6. CASE StopEnds
  BY <1>1, <1>6 DEF StopEnds, cache, request
<1>7. CASE Tune
  <2>1. UNCHANGED <<pc, sessionSlot, mDrmSessionLock>> /\ tune' # "stopped"
    BY <1>7 DEF Tune, request
  <2>2. \A s \in Slots : /\ cachedKeyID'[s] \in {cachedKeyID[s], NoKey}
                         /\ ~isFailedKeyId'[s]
    BY <1>7 DEF Tune, ClearFailedKeyIds
  <2>3. sessionSlot \in [Tracks -> Slots]
    BY DEF TypeOK, RequestTypeOK
  <2>. QED  BY <1>0, <1>1, <2>1, <2>2, <2>3
<1>8. CASE UNCHANGED vars
  BY <1>1, <1>8 DEF vars, cache, sessions, manager, request, player
<1>. QED  BY <1>2, <1>3, <1>4, <1>5, <1>6, <1>7, <1>8 DEF Next, Stop

\* The cache invariant holds for every number of tracks, keys and slots:
\* createDrmSession keeps its lock from the choice of a slot to the license.
THEOREM CacheInvCorrect == Spec => []CacheInv
BY CacheInvInit, CacheInvStep, PTL DEF Spec

\* The variables of the cache and of its requests keep to their values.
THEOREM TypeCorrect == Spec => []TypeOK
<1>1. CacheInv => TypeOK  BY DEF CacheInv, OneSlotPerKey
<1>. QED  BY <1>1, CacheInvCorrect, PTL

\* A key is never cached in two slots (getDrmSession, clearFailedKeyIds).
THEOREM OneSlotPerKeyCorrect == Spec => []OneSlotPerKey
<1>1. CacheInv => OneSlotPerKey  BY DEF CacheInv
<1>. QED  BY <1>1, CacheInvCorrect, PTL

\* A key that failed is not asked for again in its tune (getDrmSession, getLicense).
THEOREM FailedKeyNotRetriedCorrect == Spec => []FailedKeyNotRetried
<1>1. CacheInv => FailedKeyNotRetried
  BY DEF CacheInv, NotFailedInv, FailedKeyNotRetried, Locked
<1>. QED  BY <1>1, CacheInvCorrect, PTL

\* Once Stop has joined the threads nothing changes until the next Tune.
THEOREM NothingAfterStopCorrect == Spec => NothingAfterStop
<1>1. ASSUME JoinedInv, [Next]_vars, tune = "stopped", tune' = "stopped"
      PROVE  UNCHANGED <<cache, sessionState, errorSent>>
  <2>1. \A t \in Tracks : ~LicenseThread(t)
    BY <1>1 DEF JoinedInv, LicenseThread, ResetCurlAbort, RefuseSession, ReuseSession,
         CreateSession, GetAccessToken, Attempt, CurlPerform, AfterPerform, NoLicense,
         ProcessLicense, Report
  <2>2. UNCHANGED vars
    BY <1>1, <2>1 DEF Next, SpawnLicenseThread, StopDisablesDownloads, Stop,
         StopAbortsCurl, StopEnds, Tune
  <2>. QED  BY <2>2 DEF vars, cache, sessions, player
<1>2. CacheInv => JoinedInv  BY DEF CacheInv
<1>. QED  BY <1>1, <1>2, CacheInvCorrect, PTL DEF Spec, NothingAfterStop

-----------------------------------------------------------------------------
(* A session that is in use is the last one to be deleted.                    *)

\* The slot that a session in use is deleted from holds the oldest key.
LEMMA EvictedIsOldest ==
    ASSUME UseInv, NEW k \in Keys, NEW s \in Slots, SlotFor(s, k),
           ~HasSessionFor(s, k) \/ sessionState[s] = "init",
           NEW u \in Tracks, s \in decryptor[u], ~dangling[u]
    PROVE  /\ SlotOf(k) = {} /\ \A r \in Slots \ {s} : creationTime[s] < creationTime[r]
           /\ sessionKey[s] # k /\ decryptor[u] = {s}
<1>. USE DEF UseInv, DecryptorInv
<1>0. CacheTypeOK
  BY DEF CacheInv, OneSlotPerKey, TypeOK
<1>1. /\ cachedKeyID[s] \in Keys /\ decryptor[u] = {s}
      /\ sessionKey[s] = cachedKeyID[s] /\ sessionState[s] = "ready"
  OBVIOUS
<1>2. sessionKey[s] # k
  BY <1>1 DEF HasSessionFor
<1>3. SlotOf(k) = {} /\ IsOldest(s)
  BY <1>1, <1>2 DEF SlotFor, SlotOf
<1>4. creationTime[s] # 0
  BY <1>1, DrmAssumption DEF AgeInv
<1>5. ASSUME NEW r \in Slots \ {s} PROVE creationTime[s] < creationTime[r]
  <2>1. creationTime[r] # creationTime[s]
    BY <1>4 DEF AgeInv
  <2>. QED  BY <1>0, <1>3, <2>1 DEF IsOldest, CacheTypeOK
<1>. QED  BY <1>1, <1>2, <1>3, <1>5

\* By then as many other keys were asked for as the cache has slots.
LEMMA EvictedAfterOthers ==
    ASSUME UseInv, NEW t \in Tracks, keyId[t] \in Keys, NEW s \in Slots,
           SlotFor(s, keyId[t]), ~HasSessionFor(s, keyId[t]) \/ sessionState[s] = "init",
           NEW u \in Tracks, s \in decryptor[u], ~dangling[u]
    PROVE  Cardinality(AskedBy(t)[u]) >= dash_MaxDRMSessions
<1>. DEFINE k == keyId[t]
            asked == AskedBy(t)[u]
            f == [cachedKeyID EXCEPT ![s] = k]
<1>0. CacheTypeOK /\ SessionsTypeOK /\ RequestTypeOK /\ UniqueKeys /\ NoKey \notin Keys
  BY DrmAssumption DEF UseInv, CacheInv, OneSlotPerKey, UniqueKeys, TypeOK
<1>1. /\ SlotOf(k) = {} /\ sessionKey[s] # k /\ decryptor[u] = {s}
      /\ \A r \in Slots \ {s} : creationTime[s] < creationTime[r]
  BY EvictedIsOldest
<1>2. asked = otherKeysSince[u] \cup {k}
  BY <1>1 DEF AskedBy
<1>3. \A r \in Slots \ {s} : cachedKeyID[r] \in asked
  BY <1>1, <1>2 DEF UseInv, AskedInv
<1>4. \A r \in Slots : f[r] \in asked
  BY <1>0, <1>2, <1>3 DEF CacheTypeOK
<1>5. \A r \in Slots \ {s} : cachedKeyID[r] # NoKey /\ cachedKeyID[r] # k
  <2>1. \A r \in Slots \ {s} : creationTime[r] # 0
    BY <1>0, <1>1 DEF CacheTypeOK
  <2>. QED  BY <1>1, <2>1 DEF UseInv, AgeInv, SlotOf
<1>6. f \in Injection(Slots, asked)
  <2>1. f \in [Slots -> asked]
    BY <1>0, <1>4 DEF CacheTypeOK
  <2>2. ASSUME NEW q \in Slots, NEW r \in Slots, f[q] = f[r] PROVE q = r
    BY <1>0, <1>5, <2>2 DEF CacheTypeOK, UniqueKeys
  <2>. QED  BY <2>1, <2>2 DEF Injection, IsInjective
<1>7. IsFiniteSet(asked)
  <2>1. asked \subseteq Keys \cup {NoKey}
    BY <1>0, TypeOfAsked
  <2>2. IsFiniteSet(Keys \cup {NoKey})
    BY FS_AddElement, DrmAssumption
  <2>. QED  BY <2>1, <2>2, FS_Subset
<1>8. Cardinality(Slots) <= Cardinality(asked)
  BY <1>6, <1>7, FS_Injection
<1>9. Cardinality(Slots) = dash_MaxDRMSessions /\ dash_MaxDRMSessions \in Nat \ {0}
  <2>1. dash_MaxDRMSessions \in Nat \ {0} /\ 1 \in Int /\ dash_MaxDRMSessions \in Int
    BY DrmAssumption
  <2>2. Cardinality(1 .. dash_MaxDRMSessions) =
          IF 1 > dash_MaxDRMSessions THEN 0 ELSE dash_MaxDRMSessions - 1 + 1
    BY <2>1, FS_Interval
  <2>. QED  BY <2>1, <2>2 DEF Slots
<1>10. Cardinality(asked) \in Nat
  BY <1>7, FS_CardinalityType
<1>. QED  BY <1>8, <1>9, <1>10

\* No track decrypts before the first request.
LEMMA UseInvInit == Init => UseInv
BY CacheInvInit
   DEF Init, UseInv, RequestInv, DecryptorInv, AgeInv, AskedInv, EvictedLast,
       ReturnedRight, Locked

\* Whoever asks for a key adds it to what was asked for since.
LEMMA AskedGrows ==
    ASSUME UseInv, NEW t \in Tracks, NEW u \in Tracks
    PROVE  /\ dangling[u] => AskedBy(t)[u] = otherKeysSince[u]
           /\ otherKeysSince[u] \subseteq AskedBy(t)[u]
           /\ \A s \in decryptor[u] : ~dangling[u] /\ cachedKeyID[s] # keyId[t]
                 => keyId[t] \in AskedBy(t)[u]
BY DEF AskedBy, UseInv, DecryptorInv

\* A slot that is touched is the one used last.
LEMMA AgeOfTouched ==
    ASSUME UseInv, NEW k \in Keys, NEW s \in Slots, Touch(s), CacheTypeOK,
           cachedKeyID' = [cachedKeyID EXCEPT ![s] = k]
    PROVE  /\ AgeInv'
           /\ \A r \in Slots \ {s} : creationTime'[r] = creationTime[r]
           /\ \A r \in Slots \ {s} : creationTime'[r] < creationTime'[s]
<1>1. /\ clock' = clock + 1 /\ creationTime' = [creationTime EXCEPT ![s] = clock + 1]
      /\ clock \in Nat /\ creationTime \in [Slots -> Nat]
      /\ cachedKeyID \in [Slots -> Keys \cup {NoKey}] /\ NoKey \notin Keys
  BY DrmAssumption DEF Touch, CacheTypeOK
<1>2. AgeInv  BY DEF UseInv
<1>3. /\ \A r \in Slots \ {s} : creationTime'[r] = creationTime[r] /\ cachedKeyID'[r] = cachedKeyID[r]
      /\ creationTime'[s] = clock + 1 /\ cachedKeyID'[s] = k
  BY <1>1
<1>4. \A r \in Slots : creationTime[r] <= clock
  BY <1>2 DEF AgeInv
<1>5. \A r \in Slots \ {s} : creationTime'[r] < creationTime'[s]
  BY <1>1, <1>3, <1>4
<1>6. ASSUME NEW q \in Slots
      PROVE  /\ creationTime'[q] = 0 <=> cachedKeyID'[q] = NoKey
             /\ creationTime'[q] <= clock'
  BY <1>1, <1>2, <1>3, <1>4 DEF AgeInv
<1>7. ASSUME NEW q \in Slots, NEW r \in Slots, creationTime'[r] = creationTime'[q], r # q
      PROVE  creationTime'[q] = 0
  <2>1. q # s /\ r # s
    BY <1>1, <1>3, <1>4, <1>7
  <2>. QED  BY <1>2, <1>3, <1>7, <2>1 DEF AgeInv
<1>. QED  BY <1>3, <1>5, <1>6, <1>7 DEF AgeInv

\* The key that a thread takes a slot for is in no other slot.
LEMMA SlotForUnique ==
    ASSUME UseInv, NEW k \in Keys, NEW s \in Slots, SlotFor(s, k),
           NEW r \in Slots \ {s}
    PROVE  cachedKeyID[r] # k
BY DrmAssumption DEF UseInv, CacheInv, OneSlotPerKey, SlotFor, SlotOf

\* A request moves its key to the end of the queue, and the others know of it.
LEMMA AskedInvOfRequest ==
    ASSUME UseInv, CacheTypeOK, SessionsTypeOK, RequestTypeOK,
           NEW t \in Tracks, keyId[t] \in Keys, NEW s \in Slots, SlotFor(s, keyId[t]), Touch(s),
           cachedKeyID' = [cachedKeyID EXCEPT ![s] = keyId[t]],
           NEW u \in Tracks, ~dangling[u],
           decryptor'[u] = decryptor[u], AskedBy(t)[u] \subseteq otherKeysSince'[u],
           NEW q \in decryptor[u], NEW r \in Slots, creationTime'[q] < creationTime'[r]
    PROVE  cachedKeyID'[r] \in otherKeysSince'[u]
<1>0. q \in Slots /\ creationTime \in [Slots -> Nat] /\ creationTime' \in [Slots -> Nat]
      /\ cachedKeyID \in [Slots -> Keys \cup {NoKey}]
  BY DEF SessionsTypeOK, CacheTypeOK, Touch
<1>1. /\ \A p \in Slots \ {s} : creationTime'[p] = creationTime[p]
      /\ \A p \in Slots \ {s} : creationTime'[p] < creationTime'[s]
  BY AgeOfTouched
<1>2. q # s
  BY <1>0, <1>1
<1>3. CASE r = s
  <2>1. cachedKeyID[q] # keyId[t]
    BY <1>0, <1>2, SlotForUnique
  <2>. QED  BY <1>0, <1>3, <2>1, AskedGrows
<1>4. CASE r # s
  <2>1. creationTime[q] < creationTime[r] /\ cachedKeyID'[r] = cachedKeyID[r]
    BY <1>0, <1>1, <1>2, <1>4
  <2>2. cachedKeyID[r] \in otherKeysSince[u]
    BY <2>1 DEF UseInv, AskedInv
  <2>. QED  BY <2>1, <2>2, AskedGrows
<1>. QED  BY <1>3, <1>4

\* A license thread deletes a session that is in use only after all the others.
LEMMA UseInvOfThread ==
    ASSUME UseInv, NEW t \in Tracks, LicenseThread(t), CacheInv'
    PROVE  UseInv'
<1>. USE DEF Goto
<1>. DEFINE RestInv == /\ RequestInv /\ DecryptorInv /\ AgeInv /\ AskedInv
                       /\ EvictedLast /\ ReturnedRight
<1>0. /\ cachedKeyID \in [Slots -> Keys \cup {NoKey}]
      /\ creationTime \in [Slots -> Nat] /\ clock \in Nat
      /\ sessionKey \in [Slots -> Keys \cup {NoKey}]
      /\ sessionState \in [Slots -> KeyStates]
      /\ decryptor \in [Tracks -> SUBSET Slots] /\ dangling \in [Tracks -> BOOLEAN]
      /\ otherKeysSince \in [Tracks -> SUBSET (Keys \cup {NoKey})]
      /\ pc \in [Tracks -> Pcs] /\ sessionSlot \in [Tracks -> Slots]
      /\ keyId \in [Tracks -> Keys \cup {NoKey}] /\ gotSession \in [Tracks -> BOOLEAN]
      /\ NoTrack \notin Tracks /\ NoKey \notin Keys
  BY DrmAssumption
     DEF UseInv, CacheInv, OneSlotPerKey, TypeOK, CacheTypeOK, RequestTypeOK, SessionsTypeOK
<1>00. CacheTypeOK /\ SessionsTypeOK /\ RequestTypeOK
  BY DEF UseInv, CacheInv, OneSlotPerKey, TypeOK
<1>1. SUFFICES RestInv'  BY DEF UseInv
<1>2. \A u \in Tracks : pc[u] \in Locked => mDrmSessionLock = u
  BY DEF UseInv, CacheInv, LockInv
<1>3. RestInv  BY DEF UseInv
<1>4. ASSUME UNCHANGED <<cachedKeyID, creationTime, clock, sessions, keyId, sessionSlot>>,
             gotSession' = gotSession, \A u \in Tracks \ {t} : pc'[u] = pc[u],
             pc[t] \notin {"idle", "report"}, pc'[t] \in Locked => pc[t] \in Locked
      PROVE  RestInv'
  <2>1. RequestInv'
    BY <1>0, <1>3, <1>4 DEF sessions, RequestInv
  <2>2. DecryptorInv' /\ AgeInv' /\ AskedInv' /\ EvictedLast'
    BY <1>3, <1>4 DEF sessions, DecryptorInv, AgeInv, AskedInv, EvictedLast
  <2>3. ReturnedRight'
    BY <1>0, <1>3, <1>4 DEF sessions, RequestInv, ReturnedRight
  <2>. QED  BY <2>1, <2>2, <2>3
<1>5. CASE ResetCurlAbort(t)
  BY <1>0, <1>4, <1>5 DEF ResetCurlAbort, cache, Locked
<1>6. CASE RefuseSession(t)
  BY <1>0, <1>4, <1>6 DEF RefuseSession, cache, Locked
<1>7. CASE ReuseSession(t)
  <2>. PICK s \in Slots : ReuseSession(t)!2!(s)
    BY <1>7 DEF ReuseSession
  <2>0. /\ \A u \in Tracks : pc[u] \notin Locked
        /\ pc[t] = "lock" /\ keyId[t] \in Keys /\ keyId' = keyId
        /\ sessionKey' = sessionKey /\ sessionKey[s] = keyId[t]
        /\ cachedKeyID' = [cachedKeyID EXCEPT ![s] = keyId[t]]
        /\ sessionState[s] # "init" /\ SlotFor(s, keyId[t]) /\ Touch(s)
        /\ ~gotSession[t]
    BY <1>0, <1>2, <1>3, <1>7 DEF ReuseSession, HasSessionFor, RequestInv
  <2>1. AgeInv' /\ \A r \in Slots : creationTime'[r] <= creationTime'[s]
    <3>1. creationTime'[s] \in Nat
      BY <1>0, <2>0 DEF Touch
    <3>2. AgeInv' /\ \A r \in Slots \ {s} : creationTime'[r] < creationTime'[s]
      BY <1>00, <2>0, AgeOfTouched
    <3>3. \A r \in Slots : creationTime'[r] \in Nat
      BY <1>0, <2>0 DEF Touch
    <3>. QED  BY <3>1, <3>2, <3>3
  <2>2. CASE /\ ReturnSession(t, s, AskedBy(t))
             /\ sessionState' = [sessionState EXCEPT ![s] = "ready"]
    <3>1. /\ pc' = [pc EXCEPT ![t] = "report"]
          /\ decryptor' = [decryptor EXCEPT ![t] = {s}]
          /\ dangling' = [dangling EXCEPT ![t] = FALSE]
          /\ gotSession' = [gotSession EXCEPT ![t] = TRUE]
          /\ otherKeysSince' = [AskedBy(t) EXCEPT ![t] = {}]
      BY <2>2 DEF ReturnSession
    <3>2. RequestInv'
      BY <1>0, <1>3, <2>0, <3>1 DEF Locked, RequestInv
    <3>3. DecryptorInv'
      <4>1. ASSUME NEW u \in Tracks \ {t}, ~dangling'[u], NEW q \in decryptor'[u]
            PROVE  /\ cachedKeyID'[q] \in Keys /\ decryptor'[u] = {q}
                   /\ sessionKey'[q] = cachedKeyID'[q] /\ sessionState'[q] = "ready"
        BY <1>0, <1>3, <2>0, <2>2, <3>1, <4>1 DEF DecryptorInv
      <4>2. /\ cachedKeyID'[s] \in Keys /\ decryptor'[t] = {s}
            /\ sessionKey'[s] = cachedKeyID'[s] /\ sessionState'[s] = "ready"
        BY <1>0, <2>0, <2>2, <3>1
      <4>. QED  BY <4>1, <4>2 DEF DecryptorInv
    <3>4. AskedBy(t) \in [Tracks -> SUBSET (Keys \cup {NoKey})]
      BY <1>00, TypeOfAsked
    <3>5. AskedInv'
      <4>1. ASSUME NEW u \in Tracks \ {t}, ~dangling'[u], NEW q \in decryptor'[u],
                   NEW r \in Slots, creationTime'[q] < creationTime'[r]
            PROVE  cachedKeyID'[r] \in otherKeysSince'[u]
        <5>1. /\ ~dangling[u] /\ decryptor'[u] = decryptor[u]
              /\ otherKeysSince'[u] = AskedBy(t)[u]
          BY <1>0, <3>1, <3>4, <4>1
        <5>. QED  BY <1>00, <2>0, <4>1, <5>1, AskedInvOfRequest
      <4>2. ASSUME NEW q \in decryptor'[t],
                   NEW r \in Slots, creationTime'[q] < creationTime'[r]
            PROVE  FALSE
        <5>1. q = s /\ creationTime' \in [Slots -> Nat]
          BY <1>0, <2>0, <3>1, <4>2 DEF Touch
        <5>. QED  BY <2>1, <4>2, <5>1
      <4>. QED  BY <4>1, <4>2 DEF AskedInv
    <3>6. EvictedLast'
      BY <1>0, <1>3, <3>1, <3>4, AskedGrows DEF EvictedLast
    <3>7. ReturnedRight'
      BY <1>0, <1>3, <2>0, <3>1 DEF ReturnedRight
    <3>. QED  BY <2>1, <3>2, <3>3, <3>5, <3>6, <3>7
  <2>3. CASE /\ Goto(t, "report") /\ otherKeysSince' = AskedBy(t)
             /\ UNCHANGED <<sessionState, decryptor, dangling, gotSession>>
    <3>1. RequestInv'  BY <1>0, <1>3, <2>0, <2>3 DEF Locked, RequestInv
    <3>2. DecryptorInv'  BY <1>0, <1>3, <2>0, <2>3 DEF DecryptorInv
    <3>3. AskedInv'
      BY <1>00, <2>0, <2>3, AskedInvOfRequest DEF AskedInv
    <3>4. EvictedLast'  BY <1>3, <2>3, AskedGrows DEF EvictedLast
    <3>5. ReturnedRight'  BY <1>0, <1>3, <2>0, <2>3 DEF ReturnedRight
    <3>. QED  BY <2>1, <3>1, <3>2, <3>3, <3>4, <3>5
  <2>. QED  BY <2>2, <2>3
<1>8. CASE CreateSession(t)
  <2>. PICK s \in Slots, result \in {"none", "init", "pending", "error"} :
         CreateSession(t)!2!(s, result)
    BY <1>8 DEF CreateSession
  <2>0. /\ \A u \in Tracks : pc[u] \notin Locked
        /\ pc[t] = "lock" /\ keyId[t] \in Keys /\ ~gotSession[t]
        /\ UNCHANGED <<keyId, decryptor, gotSession>>
        /\ cachedKeyID' = [cachedKeyID EXCEPT ![s] = keyId[t]]
        /\ SlotFor(s, keyId[t]) /\ Touch(s) /\ otherKeysSince' = AskedBy(t)
        /\ ~HasSessionFor(s, keyId[t]) \/ sessionState[s] = "init"
        /\ sessionState' = [sessionState EXCEPT ![s] = result]
        /\ sessionKey' = [sessionKey EXCEPT ![s] = IF result = "none" THEN @ ELSE keyId[t]]
        /\ sessionSlot' = [sessionSlot EXCEPT ![t] = s]
    BY <1>0, <1>2, <1>3, <1>8 DEF CreateSession, RequestInv, DeleteSession
  <2>1. AgeInv' /\ \A r \in Slots : creationTime'[r] <= creationTime'[s]
    <3>1. creationTime'[s] \in Nat
      BY <1>0, <2>0 DEF Touch
    <3>2. AgeInv' /\ \A r \in Slots \ {s} : creationTime'[r] < creationTime'[s]
      BY <1>00, <2>0, AgeOfTouched
    <3>3. \A r \in Slots : creationTime'[r] \in Nat
      BY <1>0, <2>0 DEF Touch
    <3>. QED  BY <3>1, <3>2, <3>3
  <2>2. \A u \in Tracks : dangling'[u] <=> dangling[u] \/ s \in decryptor[u]
    <3>1. \A u \in Tracks :
            dangling'[u] = (dangling[u] \/ (s \in decryptor[u] /\ sessionState[s] # "none"))
      BY DEF DeleteSession
    <3>. QED  BY <1>3, <3>1 DEF DecryptorInv
  <2>3. EvictedLast'
    <3>1. SUFFICES ASSUME NEW u \in Tracks, dangling'[u]
                   PROVE  Cardinality(AskedBy(t)[u]) >= dash_MaxDRMSessions
      BY <2>0 DEF EvictedLast
    <3>2. CASE dangling[u]
      BY <1>3, <3>2, AskedGrows DEF EvictedLast
    <3>3. CASE ~dangling[u] /\ s \in decryptor[u]
      BY <2>0, <3>3, EvictedAfterOthers
    <3>. QED  BY <2>2, <3>1, <3>2, <3>3
  <2>4. RequestInv'
    <3>1. \A u \in Tracks \ {t} : pc'[u] = pc[u] /\ sessionSlot'[u] = sessionSlot[u]
      BY <1>0, <2>0
    <3>2. \A u \in Tracks \ {t} : pc'[u] \notin Locked
      BY <2>0, <3>1
    <3>3. pc'[t] \in Locked =>
            /\ result = "pending" /\ sessionSlot'[t] = s /\ cachedKeyID'[s] = keyId[t]
            /\ sessionKey'[s] = keyId[t]
      BY <1>0, <2>0 DEF Locked
    <3>. QED  BY <1>3, <2>0, <2>1, <2>2, <3>1, <3>2, <3>3 DEF RequestInv
  <2>5. DecryptorInv'
    <3>1. ASSUME NEW u \in Tracks, ~dangling'[u], NEW q \in decryptor'[u]
          PROVE  /\ q \in Slots \ {s} /\ q \in decryptor[u] /\ ~dangling[u]
                 /\ cachedKeyID'[q] = cachedKeyID[q] /\ sessionKey'[q] = sessionKey[q]
                 /\ sessionState'[q] = sessionState[q]
      BY <1>0, <2>0, <2>2, <3>1
    <3>. QED  BY <1>3, <2>0, <3>1 DEF DecryptorInv
  <2>6. AskedInv'
    BY <1>00, <2>0, <2>2, AskedInvOfRequest DEF AskedInv
  <2>7. ReturnedRight'
    <3>1. \A u \in Tracks \ {t} : pc'[u] = pc[u]
      BY <1>0
    <3>2. ASSUME NEW u \in Tracks, gotSession'[u], pc'[u] = "report", ~dangling'[u],
                 NEW q \in decryptor'[u]
          PROVE  sessionKey'[q] = keyId'[u]
      <4>1. u # t /\ q # s /\ q \in Slots /\ ~dangling[u] /\ pc[u] = "report"
        BY <1>0, <2>0, <2>2, <3>1, <3>2
      <4>. QED  BY <1>0, <1>3, <2>0, <3>2, <4>1 DEF ReturnedRight
    <3>. QED  BY <3>2 DEF ReturnedRight
  <2>. QED  BY <2>1, <2>3, <2>4, <2>5, <2>6, <2>7
<1>9. CASE GetAccessToken(t)
  BY <1>0, <1>4, <1>9 DEF GetAccessToken, cache, Locked
<1>10. CASE Attempt(t)
  BY <1>0, <1>4, <1>10 DEF Attempt, cache, Locked
<1>11. CASE CurlPerform(t)
  BY <1>0, <1>4, <1>11 DEF CurlPerform, cache, Locked
<1>12. CASE AfterPerform(t)
  BY <1>0, <1>4, <1>12 DEF AfterPerform, cache, Locked
<1>13. CASE NoLicense(t)
  <2>1. /\ \A u \in Tracks : u # t => pc[u] \notin Locked
        /\ \A u \in Tracks : sessionSlot[t] \in decryptor[u] => dangling[u]
        /\ ~gotSession[t] /\ pc' = [pc EXCEPT ![t] = "report"]
        /\ UNCHANGED <<cachedKeyID, creationTime, clock, sessionKey, decryptor, keyId,
                       sessionSlot, gotSession, otherKeysSince>>
    BY <1>0, <1>2, <1>3, <1>13 DEF NoLicense, Locked, RequestInv
  <2>2. dangling' = dangling
    <3>1. CASE httpCode[t] = "412"
      <4>1. dangling' = [u \in Tracks |-> dangling[u] \/
              (sessionSlot[t] \in decryptor[u] /\ sessionState[sessionSlot[t]] # "none")]
        BY <1>13, <3>1 DEF NoLicense, DeleteSession
      <4>2. \A u \in Tracks : dangling'[u] = dangling[u]
        BY <1>0, <2>1, <4>1, Zenon
      <4>. QED  BY <1>0, <4>1, <4>2
    <3>2. CASE httpCode[t] # "412"
      BY <1>13, <3>2 DEF NoLicense
    <3>. QED  BY <3>1, <3>2
  <2>3. \A r \in Slots : r # sessionSlot[t] => sessionState'[r] = sessionState[r]
    BY <1>0, <1>13 DEF NoLicense, DeleteSession
  <2>4. RequestInv' /\ AgeInv' /\ AskedInv' /\ EvictedLast'
    <3>1. RequestInv'  BY <1>0, <1>3, <2>1, <2>2 DEF Locked, RequestInv
    <3>2. AgeInv' /\ AskedInv' /\ EvictedLast'
      BY <1>3, <2>1, <2>2 DEF AgeInv, AskedInv, EvictedLast
    <3>. QED  BY <3>1, <3>2
  <2>5. DecryptorInv'
    BY <1>0, <1>3, <2>1, <2>2, <2>3 DEF DecryptorInv
  <2>6. ReturnedRight'
    BY <1>0, <1>3, <2>1, <2>2 DEF ReturnedRight
  <2>. QED  BY <2>4, <2>5, <2>6
<1>14. CASE ProcessLicense(t)
  <2>0. /\ \A u \in Tracks : u # t => pc[u] \notin Locked
        /\ \A u \in Tracks : sessionSlot[t] \in decryptor[u] => dangling[u]
        /\ cachedKeyID[sessionSlot[t]] = keyId[t] /\ sessionKey[sessionSlot[t]] = keyId[t]
        /\ \A r \in Slots : creationTime[r] <= creationTime[sessionSlot[t]]
        /\ keyId[t] \in Keys /\ ~gotSession[t]
        /\ UNCHANGED <<cachedKeyID, creationTime, clock, sessionKey, keyId, sessionSlot>>
    BY <1>0, <1>2, <1>3, <1>14 DEF ProcessLicense, Locked, cache, RequestInv
  <2>1. AgeInv'  BY <1>3, <2>0 DEF AgeInv
  <2>2. pc' = [pc EXCEPT ![t] = "report"]
    BY <1>14 DEF ProcessLicense, ReturnSession
  <2>3. CASE /\ ReturnSession(t, sessionSlot[t], otherKeysSince)
             /\ sessionState' = [sessionState EXCEPT ![sessionSlot[t]] = "ready"]
    <3>0. /\ decryptor' = [decryptor EXCEPT ![t] = {sessionSlot[t]}]
          /\ dangling' = [dangling EXCEPT ![t] = FALSE]
          /\ gotSession' = [gotSession EXCEPT ![t] = TRUE]
          /\ otherKeysSince' = [otherKeysSince EXCEPT ![t] = {}]
      BY <2>3 DEF ReturnSession
    <3>1. RequestInv'  BY <1>0, <1>3, <2>0, <2>2, <3>0 DEF Locked, RequestInv
    <3>2. DecryptorInv'  BY <1>0, <1>3, <2>0, <2>3, <3>0 DEF DecryptorInv
    <3>3. AskedInv'
      <4>1. ASSUME NEW u \in Tracks \ {t}, ~dangling'[u], NEW q \in decryptor'[u],
                   NEW r \in Slots, creationTime'[q] < creationTime'[r]
            PROVE  cachedKeyID'[r] \in otherKeysSince'[u]
        BY <1>0, <1>3, <2>0, <3>0, <4>1 DEF AskedInv
      <4>2. ASSUME NEW q \in decryptor'[t],
                   NEW r \in Slots, creationTime'[q] < creationTime'[r]
            PROVE  FALSE
        <5>1. q = sessionSlot[t]
          BY <1>0, <3>0, <4>2
        <5>. QED  BY <1>0, <2>0, <4>2, <5>1
      <4>. QED  BY <4>1, <4>2 DEF AskedInv
    <3>4. EvictedLast'  BY <1>0, <1>3, <3>0 DEF EvictedLast
    <3>5. ReturnedRight'  BY <1>0, <1>3, <2>0, <2>2, <3>0 DEF ReturnedRight
    <3>. QED  BY <2>1, <3>1, <3>2, <3>3, <3>4, <3>5
  <2>4. CASE /\ \E state \in {"error", "pending"} :
                   sessionState' = [sessionState EXCEPT ![sessionSlot[t]] = state]
             /\ UNCHANGED <<decryptor, dangling, otherKeysSince, gotSession>>
    <3>1. RequestInv'  BY <1>0, <1>3, <2>0, <2>2, <2>4 DEF Locked, RequestInv
    <3>2. DecryptorInv'  BY <1>0, <1>3, <2>0, <2>4 DEF DecryptorInv
    <3>3. AskedInv' /\ EvictedLast'  BY <1>3, <2>0, <2>4 DEF AskedInv, EvictedLast
    <3>4. ReturnedRight'  BY <1>0, <1>3, <2>0, <2>2, <2>4 DEF ReturnedRight
    <3>. QED  BY <2>1, <3>1, <3>2, <3>3, <3>4
  <2>. QED  BY <1>14, <2>3, <2>4 DEF ProcessLicense
<1>15. CASE Report(t)
  <2>1. /\ UNCHANGED <<cachedKeyID, creationTime, clock, sessionKey, sessionState, decryptor,
                       dangling, otherKeysSince>>
        /\ pc' = [pc EXCEPT ![t] = "idle"] /\ gotSession' = [gotSession EXCEPT ![t] = FALSE]
        /\ \A u \in Tracks \ {t} : keyId'[u] = keyId[u] /\ sessionSlot'[u] = sessionSlot[u]
    BY <1>0, <1>15 DEF Report, cache, sessions
  <2>2. RequestInv'  BY <1>0, <1>3, <2>1 DEF Locked, RequestInv
  <2>3. ReturnedRight'  BY <1>0, <1>3, <2>1 DEF ReturnedRight
  <2>4. DecryptorInv' /\ AgeInv' /\ AskedInv' /\ EvictedLast'
    BY <1>3, <2>1 DEF DecryptorInv, AgeInv, AskedInv, EvictedLast
  <2>. QED  BY <2>2, <2>3, <2>4
<1>. QED  BY <1>5, <1>6, <1>7, <1>8, <1>9, <1>10, <1>11, <1>12, <1>13, <1>14, <1>15
          DEF LicenseThread

\* Nor does the player: a tune and a stop leave the sessions to their tracks.
LEMMA UseInvStep == ASSUME UseInv, [Next]_vars PROVE UseInv'
<1>. USE DEF RequestInv, DecryptorInv, AgeInv, AskedInv, EvictedLast, ReturnedRight
<1>. DEFINE RestInv == /\ RequestInv /\ DecryptorInv /\ AgeInv /\ AskedInv
                       /\ EvictedLast /\ ReturnedRight
<1>0. /\ cachedKeyID \in [Slots -> Keys \cup {NoKey}]
      /\ creationTime \in [Slots -> Nat] /\ clock \in Nat
      /\ decryptor \in [Tracks -> SUBSET Slots]
      /\ pc \in [Tracks -> Pcs] /\ keyId \in [Tracks -> Keys \cup {NoKey}]
      /\ gotSession \in [Tracks -> BOOLEAN]
  BY DEF UseInv, CacheInv, OneSlotPerKey, TypeOK, CacheTypeOK, RequestTypeOK, SessionsTypeOK
<1>1. CacheInv'  BY CacheInvStep DEF UseInv
<1>2. RestInv  BY DEF UseInv
<1>3. ASSUME NEW t \in Tracks, LicenseThread(t) PROVE UseInv'
  BY <1>1, <1>3, UseInvOfThread
<1>4. ASSUME NEW t \in Tracks, NEW k \in KeysOf[t], SpawnLicenseThread(t, k) PROVE RestInv'
  <2>1. /\ UNCHANGED <<cachedKeyID, creationTime, clock, sessionKey, sessionState,
                       decryptor, dangling, otherKeysSince, sessionSlot, gotSession>>
        /\ pc[t] = "idle" /\ pc' = [pc EXCEPT ![t] = "spawned"]
        /\ keyId' = [keyId EXCEPT ![t] = k] /\ k \in Keys
    BY <1>4, DrmAssumption DEF SpawnLicenseThread, cache, sessions, Goto
  <2>2. RequestInv'
    <3>1. \A u \in Tracks \ {t} : pc'[u] = pc[u] /\ keyId'[u] = keyId[u]
      BY <1>0, <2>1
    <3>2. pc'[t] = "spawned" /\ keyId'[t] = k
      BY <1>0, <2>1
    <3>3. ~gotSession[t]
      BY <1>2, <2>1
    <3>. QED  BY <1>2, <2>1, <3>1, <3>2, <3>3 DEF Locked
  <2>3. ReturnedRight'  BY <1>0, <1>2, <2>1
  <2>4. DecryptorInv' /\ AgeInv' /\ AskedInv' /\ EvictedLast'
    BY <1>2, <2>1
  <2>. QED  BY <2>2, <2>3, <2>4
<1>5. CASE StopDisablesDownloads
  BY <1>1, <1>2, <1>5 DEF StopDisablesDownloads, cache, sessions, request, UseInv
<1>6. CASE StopAbortsCurl
  BY <1>1, <1>2, <1>6 DEF StopAbortsCurl, cache, sessions, request, UseInv
<1>7. CASE StopEnds
  BY <1>1, <1>2, <1>7 DEF StopEnds, cache, request, UseInv, Locked
<1>8. CASE Tune
  <2>1. \A t \in Tracks : pc[t] = "idle" /\ decryptor[t] = {}
    BY <1>8 DEF Tune, UseInv, CacheInv, JoinedInv
  <2>2. AgeInv'
    BY <1>0, <1>2, <1>8 DEF Tune, ClearFailedKeyIds
  <2>3. UNCHANGED <<pc, decryptor, gotSession, dangling, otherKeysSince>>
    BY <1>8 DEF Tune, sessions, request
  <2>. QED  BY <1>1, <1>2, <2>1, <2>2, <2>3 DEF UseInv, Locked
<1>9. CASE UNCHANGED vars
  <2>1. UNCHANGED <<cachedKeyID, creationTime, clock, sessions, request>>
    BY <1>9 DEF vars, cache
  <2>. QED  BY <1>1, <1>2, <2>1 DEF sessions, request, UseInv
<1>. QED  BY <1>1, <1>3, <1>4, <1>5, <1>6, <1>7, <1>8, <1>9 DEF Next, Stop, UseInv

\* A session that a track decrypts with is deleted only when as many other keys as
\* the cache has slots were asked for since (createDrmSession, getDrmSession), and
\* until then it is the session of the key the track asked for; for every size of
\* the cache, and however many keys there are.
THEOREM InUseEvictedLastCorrect == Spec => []InUseEvictedLast
<1>1. Init => UseInv  BY UseInvInit
<1>2. UseInv /\ [Next]_vars => UseInv'  BY UseInvStep
<1>3. UseInv => InUseEvictedLast
  BY DEF UseInv, EvictedLast, ReturnedRight, InUseEvictedLast
<1>. QED  BY <1>1, <1>2, <1>3, PTL DEF Spec
=============================================================================
