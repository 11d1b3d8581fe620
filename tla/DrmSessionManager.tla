-------------------------- MODULE DrmSessionManager --------------------------
(* AampDRMSessionManager: the cache of DRM sessions that all tracks share.    *)
(* Whoever acquires licenses (CreateDRMSession, in a thread of its own) does  *)
(* so under mDrmSessionLock, while the player stops or tunes without it. What *)
(* it gets is a pointer into the cache, which its decryptor keeps after the   *)
(* lock is released.                                                         *)
EXTENDS Naturals, FiniteSets

CONSTANTS
    Tracks, Keys, NoKey, NoTrack,
    KeysOf,                \* per track the keys of its content
    dash_MaxDRMSessions,   \* size of the cache
    MaxTunes,              \* bound: how often the player tunes
    MaxRequests            \* bound: sessions requested in all

ASSUME DrmAssumption ==
    /\ dash_MaxDRMSessions \in Nat \ {0}
    /\ KeysOf \in [Tracks -> SUBSET Keys]
    /\ IsFiniteSet(Keys) /\ NoKey \notin Keys /\ NoTrack \notin Tracks
    /\ MaxTunes \in Nat \ {0} /\ MaxRequests \in Nat

Slots == 1 .. dash_MaxDRMSessions
MAX_LICENSE_REQUEST_ATTEMPTS == 2

VARIABLES
    \* the cache: per slot the key and its failure, when it was last used (0:
    \* never), and the session
    cachedKeyID, isFailedKeyId, creationTime, clock, sessionKey, sessionState,
    sessionMgrState, curlSessionAbort,
    mDrmSessionLock,       \* the track that holds it
    \* per track: the thread, its request, and the session it decrypts with
    pc, keyId, sessionSlot, attemptCount, httpCode, failure, gotSession, decryptor,
    dangling,
    \* history: other keys asked for since a track got its session
    otherKeysSince,
    \* the player
    tune, mDownloadsEnabled, errorSent, tunes, requests

cache == <<cachedKeyID, isFailedKeyId, creationTime, clock>>
sessions == <<sessionKey, sessionState, decryptor, dangling, otherKeysSince>>
manager == <<sessionMgrState, curlSessionAbort, mDrmSessionLock>>
request == <<pc, keyId, sessionSlot, attemptCount, httpCode, failure, gotSession>>
player == <<tune, mDownloadsEnabled, errorSent, tunes, requests>>
vars == <<cache, sessions, manager, request, player>>

Pcs == {"idle", "spawned", "lock", "token", "attempt", "perform", "performed",
        "respond", "process", "report"}
KeyStates == {"none", "init", "pending", "ready", "error"}
HttpCodes == {"none", "curlOk", "aborted", "timeout", "412", "httpError", "200"}
Failures == {"none", "unknown", "token", "challenge", "auth", "licenseTimeout",
             "request"}

Init ==
    /\ cachedKeyID = [s \in Slots |-> NoKey]
    /\ isFailedKeyId = [s \in Slots |-> FALSE]
    /\ creationTime = [s \in Slots |-> 0] /\ clock = 0
    /\ sessionKey = [s \in Slots |-> NoKey]
    /\ sessionState = [s \in Slots |-> "none"]
    /\ sessionMgrState = "active" /\ curlSessionAbort = FALSE
    /\ mDrmSessionLock = NoTrack
    /\ pc = [t \in Tracks |-> "idle"] /\ keyId = [t \in Tracks |-> NoKey]
    /\ sessionSlot = [t \in Tracks |-> 1]
    /\ attemptCount = [t \in Tracks |-> 0]
    /\ httpCode = [t \in Tracks |-> "none"]
    /\ failure = [t \in Tracks |-> "none"]
    /\ gotSession = [t \in Tracks |-> FALSE]
    /\ decryptor = [t \in Tracks |-> {}]
    /\ dangling = [t \in Tracks |-> FALSE]
    /\ otherKeysSince = [t \in Tracks |-> {}]
    /\ tune = "playing" /\ mDownloadsEnabled = TRUE /\ errorSent = FALSE
    /\ tunes = 1 /\ requests = 0

Goto(t, p) == pc' = [pc EXCEPT ![t] = p]

\* delete drmSession: whoever still decrypts with it holds a dangling pointer.
DeleteSession(s, state) ==
    /\ sessionState' = [sessionState EXCEPT ![s] = state]
    /\ dangling' = [t \in Tracks |->
                      dangling[t] \/ (s \in decryptor[t] /\ sessionState[s] # "none")]

-----------------------------------------------------------------------------
(* CreateDRMSession and createDrmSession.                                    *)

\* The collector of a track meets a key and starts a thread for its license.
SpawnLicenseThread(t, k) ==
    /\ pc[t] = "idle" /\ requests < MaxRequests /\ tune # "stopped"
    /\ keyId' = [keyId EXCEPT ![t] = k]
    /\ requests' = requests + 1
    /\ Goto(t, "spawned")
    /\ UNCHANGED <<cache, sessions, manager, sessionSlot, attemptCount, httpCode,
                   failure, gotSession, tune, mDownloadsEnabled, errorSent, tunes>>

ResetCurlAbort(t) ==
    /\ pc[t] = "spawned"
    /\ curlSessionAbort' = FALSE
    /\ Goto(t, "lock")
    /\ UNCHANGED <<cache, sessions, sessionMgrState, mDrmSessionLock, keyId,
                   sessionSlot, attemptCount, httpCode, failure, gotSession, player>>

\* Fault: a key that is cached already is not found.
NeverFound(k) == {}

SlotOf(k) == {s \in Slots : cachedKeyID[s] = k}

\* Fault: the slot used last is taken instead.
IsNewest(s) == \A r \in Slots : creationTime[r] <= creationTime[s]

\* The slot with the smallest creationTime, the first one among equals. No
\* caller marks a key as primary, so no slot is spared.
IsOldest(s) ==
    \A r \in Slots :
      creationTime[s] < creationTime[r] \/ (creationTime[s] = creationTime[r] /\ s <= r)

\* A session for this key is in the slot.
HasSessionFor(s, k) == sessionState[s] # "none" /\ sessionKey[s] = k

\* Fault: a failed key is tried again.
NeverFailed(s) == FALSE

\* Is this key known to have failed?
IsFailed(s) == isFailedKeyId[s]

\* The slot is the one used last; every use is later than the one before.
Touch(s) ==
    /\ clock' = clock + 1
    /\ creationTime' = [creationTime EXCEPT ![s] = clock']

\* Track t asks for its key: one more for every session that is in use for
\* another key.
AskedBy(t) ==
    [u \in Tracks |->
        IF dangling[u] THEN otherKeysSince[u]
        ELSE otherKeysSince[u] \cup ({keyId[t]} \ {sessionKey[s] : s \in decryptor[u]})]

\* The slot of key k, or else the oldest one.
SlotFor(s, k) == IF SlotOf(k) # {} THEN s \in SlotOf(k) ELSE IsOldest(s)

\* The early returns: the manager is inactive, or the key failed before.
RefuseSession(t) ==
    /\ pc[t] = "lock" /\ mDrmSessionLock = NoTrack
    /\ \/ sessionMgrState = "inactive"
       \/ \E s \in SlotOf(keyId[t]) : IsFailed(s)
    /\ failure' = [failure EXCEPT ![t] = "unknown"]
    /\ Goto(t, "report")
    /\ UNCHANGED <<cache, sessions, manager, keyId, sessionSlot, attemptCount,
                   httpCode, gotSession, player>>

\* createDrmSession returns its session; asked is the history up to there.
ReturnSession(t, s, asked) ==
    /\ gotSession' = [gotSession EXCEPT ![t] = TRUE]
    /\ decryptor' = [decryptor EXCEPT ![t] = {s}]
    /\ dangling' = [dangling EXCEPT ![t] = FALSE]
    /\ otherKeysSince' = [asked EXCEPT ![t] = {}]
    /\ mDrmSessionLock' = NoTrack
    /\ Goto(t, "report")

\* The key is cached and has a session: take it when it is ready, or becomes
\* ready in time; otherwise the key has failed.
ReuseSession(t) ==
    /\ pc[t] = "lock" /\ mDrmSessionLock = NoTrack /\ sessionMgrState = "active"
    /\ \E s \in Slots :
         /\ SlotFor(s, keyId[t])
         /\ ~(s \in SlotOf(keyId[t]) /\ IsFailed(s))
         /\ HasSessionFor(s, keyId[t]) /\ sessionState[s] # "init"
         /\ cachedKeyID' = [cachedKeyID EXCEPT ![s] = keyId[t]]
         /\ Touch(s)
         /\ sessionSlot' = [sessionSlot EXCEPT ![t] = s]
         /\ \/ /\ sessionState[s] \in {"ready", "pending"}
               /\ sessionState' = [sessionState EXCEPT ![s] = "ready"]
               /\ isFailedKeyId' =
                    [isFailedKeyId EXCEPT ![s] = @ /\ s \in SlotOf(keyId[t])]
               /\ ReturnSession(t, s, AskedBy(t))
               /\ UNCHANGED failure
            \/ /\ sessionState[s] \in {"pending", "error"}
               /\ isFailedKeyId' = [isFailedKeyId EXCEPT ![s] = TRUE]
               /\ failure' = [failure EXCEPT ![t] = "unknown"]
               /\ Goto(t, "report")
               /\ otherKeysSince' = AskedBy(t)
               /\ UNCHANGED <<sessionState, decryptor, dangling, mDrmSessionLock,
                               gotSession>>
    /\ UNCHANGED <<sessionKey, sessionMgrState, curlSessionAbort, keyId,
                   attemptCount, httpCode, player>>

\* Otherwise the slot gets a new session (or goes on with one that was never
\* initialised), which makes a challenge; each of these steps may fail.
CreateSession(t) ==
    /\ pc[t] = "lock" /\ mDrmSessionLock = NoTrack /\ sessionMgrState = "active"
    /\ \E s \in Slots, result \in {"none", "init", "pending", "error"} :
         /\ SlotFor(s, keyId[t])
         /\ ~(s \in SlotOf(keyId[t]) /\ IsFailed(s))
         /\ ~HasSessionFor(s, keyId[t]) \/ sessionState[s] = "init"
         /\ HasSessionFor(s, keyId[t]) => result # "none"
         /\ cachedKeyID' = [cachedKeyID EXCEPT ![s] = keyId[t]]
         /\ isFailedKeyId' =
              [isFailedKeyId EXCEPT ![s] = @ /\ s \in SlotOf(keyId[t])]
         /\ Touch(s)
         /\ DeleteSession(s, result)
         /\ otherKeysSince' = AskedBy(t)
         /\ sessionKey' =
              [sessionKey EXCEPT ![s] = IF result = "none" THEN @ ELSE keyId[t]]
         /\ sessionSlot' = [sessionSlot EXCEPT ![t] = s]
         /\ IF result = "pending"
            THEN /\ mDrmSessionLock' = t /\ UNCHANGED failure
                 /\ Goto(t, "token")
            ELSE /\ failure' = [failure EXCEPT ![t] = "challenge"]
                 /\ Goto(t, "report") /\ UNCHANGED mDrmSessionLock
    /\ UNCHANGED <<decryptor, sessionMgrState, curlSessionAbort, keyId,
                   attemptCount, httpCode, gotSession, player>>

-----------------------------------------------------------------------------
(* acquireLicense, getLicense and handleLicenseResponse, under the lock.      *)

\* getAccessToken, for a stream with DRM metadata: without a token the license
\* is requested all the same.
GetAccessToken(t) ==
    /\ pc[t] = "token"
    /\ \/ UNCHANGED <<failure, curlSessionAbort>>
       \/ failure' = [failure EXCEPT ![t] = "token"] /\ curlSessionAbort' = FALSE
    /\ Goto(t, "attempt")
    /\ UNCHANGED <<cache, sessions, sessionMgrState, mDrmSessionLock, keyId,
                   sessionSlot, attemptCount, httpCode, gotSession, player>>

MayAttempt(t) == attemptCount[t] < MAX_LICENSE_REQUEST_ATTEMPTS
Attempt(t) ==
    /\ pc[t] = "attempt"
    /\ IF MayAttempt(t) /\ mDownloadsEnabled
       THEN /\ attemptCount' = [attemptCount EXCEPT ![t] = @ + 1]
            /\ Goto(t, "perform")
       ELSE Goto(t, "respond") /\ UNCHANGED attemptCount
    /\ UNCHANGED <<cache, sessions, manager, keyId, sessionSlot, httpCode,
                   failure, gotSession, player>>

\* The transfer ends; a callback that sees the abort flag takes it down.
CurlPerform(t) ==
    /\ pc[t] = "perform"
    /\ \E result \in HttpCodes \ {"none", "curlOk"} :
         /\ result = "aborted" => curlSessionAbort
         /\ httpCode' = [httpCode EXCEPT ![t] = result]
         /\ curlSessionAbort' = (curlSessionAbort /\ result # "aborted")
    /\ Goto(t, "performed")
    /\ UNCHANGED <<cache, sessions, sessionMgrState, mDrmSessionLock, keyId,
                   sessionSlot, attemptCount, failure, gotSession, player>>

\* When the player stopped meanwhile the result of curl is all that is kept.
\* Only a timeout or a failed connection is tried again. An answer of 200 may
\* be empty, which is no license.
AfterPerform(t) ==
    /\ pc[t] = "performed"
    /\ IF ~mDownloadsEnabled
       THEN /\ httpCode' = [httpCode EXCEPT
                 ![t] = IF @ \in {"aborted", "timeout"} THEN @ ELSE "curlOk"]
            /\ Goto(t, "respond")
       ELSE /\ \/ httpCode[t] = "200" /\ Goto(t, "process")
               \/ httpCode[t] = "timeout" /\ Goto(t, "attempt")
               \/ httpCode[t] # "timeout" /\ Goto(t, "respond")
            /\ UNCHANGED httpCode
    /\ UNCHANGED <<cache, sessions, manager, keyId, sessionSlot, attemptCount,
                   failure, gotSession, player>>

\* Fault: an early return keeps the lock.
NoLicenseKeepsLock(t) ==
    /\ pc[t] = "respond"
    /\ LET s == sessionSlot[t]
       IN  /\ isFailedKeyId' = [isFailedKeyId EXCEPT ![s] = TRUE]
           /\ IF httpCode[t] = "412" THEN DeleteSession(s, "none")
              ELSE UNCHANGED <<sessionState, dangling>>
    /\ failure' = [failure EXCEPT ![t] =
         CASE httpCode[t] = "412" -> (IF @ = "token" THEN @ ELSE "auth")
           [] httpCode[t] = "timeout" -> "licenseTimeout"
           [] OTHER -> "request"]
    /\ Goto(t, "report")
    /\ UNCHANGED <<cachedKeyID, creationTime, clock, sessionKey, decryptor,
                   otherKeysSince, manager, keyId, sessionSlot, attemptCount, httpCode, gotSession, player>>

\* There is no license: the key has failed, and a session that is not
\* authorised is deleted.
NoLicense(t) ==
    /\ pc[t] = "respond"
    /\ LET s == sessionSlot[t]
       IN  /\ isFailedKeyId' = [isFailedKeyId EXCEPT ![s] = TRUE]
           /\ IF httpCode[t] = "412" THEN DeleteSession(s, "none")
              ELSE UNCHANGED <<sessionState, dangling>>
    /\ failure' = [failure EXCEPT ![t] =
         CASE httpCode[t] = "412" -> (IF @ = "token" THEN @ ELSE "auth")
           [] httpCode[t] = "timeout" -> "licenseTimeout"
           [] OTHER -> "request"]
    /\ mDrmSessionLock' = NoTrack
    /\ Goto(t, "report")
    /\ UNCHANGED <<cachedKeyID, creationTime, clock, sessionKey, decryptor,
                   otherKeysSince, sessionMgrState, curlSessionAbort, keyId, sessionSlot,
                   attemptCount, httpCode, gotSession, player>>

\* The CDM gets the license; the key may become usable, fail, or stay pending.
ProcessLicense(t) ==
    /\ pc[t] = "process"
    /\ LET s == sessionSlot[t]
       IN  \/ /\ sessionState' = [sessionState EXCEPT ![s] = "ready"]
              /\ ReturnSession(t, s, otherKeysSince)
              /\ UNCHANGED failure
           \/ /\ \E state \in {"error", "pending"} :
                   sessionState' = [sessionState EXCEPT ![s] = state]
              /\ failure' = [failure EXCEPT ![t] = IF @ = "none" THEN "unknown" ELSE @]
              /\ mDrmSessionLock' = NoTrack /\ Goto(t, "report")
              /\ UNCHANGED <<decryptor, dangling, otherKeysSince, gotSession>>
    /\ UNCHANGED <<cache, sessionKey, sessionMgrState, curlSessionAbort, keyId,
                   sessionSlot, attemptCount, httpCode, player>>

\* The thread ends. A failure becomes an error event, which stops the
\* downloads, unless curl says that the transfer was aborted. What the thread
\* kept on its stack is gone.
SelfAbort(t) == failure[t] = "request" /\ httpCode[t] = "aborted"
Report(t) ==
    /\ pc[t] = "report"
    /\ IF gotSession[t] \/ SelfAbort(t)
       THEN UNCHANGED <<errorSent, mDownloadsEnabled>>
       ELSE errorSent' = TRUE /\ mDownloadsEnabled' = (mDownloadsEnabled /\ errorSent)
    /\ Goto(t, "idle")
    /\ keyId' = [keyId EXCEPT ![t] = NoKey]
    /\ sessionSlot' = [sessionSlot EXCEPT ![t] = 1]
    /\ attemptCount' = [attemptCount EXCEPT ![t] = 0]
    /\ httpCode' = [httpCode EXCEPT ![t] = "none"]
    /\ failure' = [failure EXCEPT ![t] = "none"]
    /\ gotSession' = [gotSession EXCEPT ![t] = FALSE]
    /\ UNCHANGED <<cache, sessions, manager, tune, tunes, requests>>

-----------------------------------------------------------------------------
(* The player: PrivateInstanceAAMP::Stop with the Stop of the collector, and  *)
(* a Tune.                                                                   *)

StopDisablesDownloads ==
    /\ tune = "playing"
    /\ tune' = "abort" /\ mDownloadsEnabled' = FALSE
    /\ UNCHANGED <<cache, sessions, manager, request, errorSent, tunes, requests>>

StopAbortsCurl ==
    /\ tune = "abort"
    /\ tune' = "join" /\ curlSessionAbort' = TRUE
    /\ UNCHANGED <<cache, sessions, sessionMgrState, mDrmSessionLock, request,
                   mDownloadsEnabled, errorSent, tunes, requests>>

\* Fault: the threads are not joined.
StopEndsAtOnce ==
    /\ tune = "join"
    /\ tune' = "stopped" /\ mDownloadsEnabled' = TRUE
    /\ sessionMgrState' = "inactive"
    /\ decryptor' = [t \in Tracks |-> {}] /\ dangling' = [t \in Tracks |-> FALSE]
    /\ otherKeysSince' = [t \in Tracks |-> {}]
    /\ UNCHANGED <<cache, sessionKey, sessionState, curlSessionAbort,
                   mDrmSessionLock, request, errorSent, tunes, requests>>

\* The threads were joined and the decryptors torn down.
StopEnds ==
    /\ tune = "join" /\ \A t \in Tracks : pc[t] = "idle"
    /\ tune' = "stopped" /\ mDownloadsEnabled' = TRUE
    /\ sessionMgrState' = "inactive"
    /\ decryptor' = [t \in Tracks |-> {}] /\ dangling' = [t \in Tracks |-> FALSE]
    /\ otherKeysSince' = [t \in Tracks |-> {}]
    /\ UNCHANGED <<cache, sessionKey, sessionState, curlSessionAbort,
                   mDrmSessionLock, request, errorSent, tunes, requests>>

\* clearFailedKeyIds: their slots are the first to be taken again.
ClearFailedKeyIds ==
    /\ cachedKeyID' = [s \in Slots |-> IF isFailedKeyId[s] THEN NoKey
                                      ELSE cachedKeyID[s]]
    /\ isFailedKeyId' = [s \in Slots |-> FALSE]
    /\ creationTime' = [s \in Slots |-> IF isFailedKeyId[s] THEN 0
                                       ELSE creationTime[s]]
    /\ UNCHANGED clock

Tune ==
    /\ tune = "stopped" /\ tunes < MaxTunes
    /\ ClearFailedKeyIds
    /\ tune' = "playing" /\ tunes' = tunes + 1
    /\ errorSent' = FALSE
    /\ sessionMgrState' = "active"
    /\ UNCHANGED <<sessions, curlSessionAbort, mDrmSessionLock, request,
                   mDownloadsEnabled, requests>>

-----------------------------------------------------------------------------

LicenseThread(t) ==
    \/ ResetCurlAbort(t) \/ RefuseSession(t) \/ ReuseSession(t) \/ CreateSession(t)
    \/ GetAccessToken(t) \/ Attempt(t) \/ CurlPerform(t) \/ AfterPerform(t)
    \/ NoLicense(t) \/ ProcessLicense(t) \/ Report(t)
Stop == StopAbortsCurl \/ StopEnds

Next == \/ \E t \in Tracks : LicenseThread(t) \/ \E k \in KeysOf[t] : SpawnLicenseThread(t, k)
        \/ StopDisablesDownloads \/ Stop \/ Tune

\* Threads run, every transfer has a timeout, and Stop runs to its end. Requests
\* are finite, so that a thread that wants the lock gets it.
Fairness == /\ \A t \in Tracks : WF_vars(LicenseThread(t))
            /\ WF_vars(Stop)

Spec == Init /\ [][Next]_vars
FairSpec == Spec /\ Fairness

-----------------------------------------------------------------------------
(* Properties.                                                               *)

CacheTypeOK ==
    /\ cachedKeyID \in [Slots -> Keys \cup {NoKey}]
    /\ isFailedKeyId \in [Slots -> BOOLEAN]
    /\ creationTime \in [Slots -> Nat] /\ clock \in Nat

SessionsTypeOK ==
    /\ sessionKey \in [Slots -> Keys \cup {NoKey}]
    /\ sessionState \in [Slots -> KeyStates]
    /\ decryptor \in [Tracks -> SUBSET Slots] /\ dangling \in [Tracks -> BOOLEAN]
    /\ otherKeysSince \in [Tracks -> SUBSET (Keys \cup {NoKey})]

ManagerTypeOK ==
    /\ sessionMgrState \in {"active", "inactive"} /\ curlSessionAbort \in BOOLEAN
    /\ mDrmSessionLock \in Tracks \cup {NoTrack}

RequestTypeOK ==
    /\ pc \in [Tracks -> Pcs] /\ keyId \in [Tracks -> Keys \cup {NoKey}]
    /\ sessionSlot \in [Tracks -> Slots]
    /\ attemptCount \in [Tracks -> 0 .. MAX_LICENSE_REQUEST_ATTEMPTS]
    /\ httpCode \in [Tracks -> HttpCodes] /\ failure \in [Tracks -> Failures]
    /\ gotSession \in [Tracks -> BOOLEAN]

PlayerTypeOK ==
    /\ tune \in {"playing", "abort", "join", "stopped"}
    /\ mDownloadsEnabled \in BOOLEAN /\ errorSent \in BOOLEAN
    /\ tunes \in 1 .. MaxTunes /\ requests \in 0 .. MaxRequests

\* Every variable keeps to the values the code can give it.
TypeOK == CacheTypeOK /\ SessionsTypeOK /\ ManagerTypeOK /\ RequestTypeOK /\ PlayerTypeOK

\* A key is in one slot of the cache only, whatever failed, was evicted or
\* forgotten before: a key in two slots would be failed in one of them only.
OneSlotPerKey ==
    /\ TypeOK
    /\ \A r, s \in Slots : cachedKeyID[r] = cachedKeyID[s] /\ r # s => cachedKeyID[r] = NoKey

\* The cache does not spare a session that a track decrypts with, but it gives
\* up its oldest key first: such a session is deleted only when as many other
\* keys as the cache has slots were asked for since the track got it. Until then
\* the session that createDrmSession has returned is for the key asked for.
InUseEvictedLast ==
    \A t \in Tracks :
        /\ dangling[t] => Cardinality(otherKeysSince[t]) >= dash_MaxDRMSessions
        /\ gotSession[t] /\ pc[t] = "report" /\ ~dangling[t] =>
             \A s \in decryptor[t] : sessionKey[s] = keyId[t]

\* No license is requested for a key that failed in this tune.
FailedKeyNotRetried ==
    \A t \in Tracks : pc[t] = "perform" => ~isFailedKeyId[sessionSlot[t]]

\* No license request outlives its tune: after Stop nothing changes in the
\* cache, nor is an error raised, until the player tunes again.
NothingAfterStop ==
    [][tune = "stopped" /\ tune' = "stopped"
         => UNCHANGED <<cache, sessionState, errorSent>>]_vars

\* Stop is never held up by a license request for ever.
StopCompletes == tune = "abort" ~> tune = "stopped"
=============================================================================
