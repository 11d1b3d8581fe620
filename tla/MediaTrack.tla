----------------------------- MODULE MediaTrack -----------------------------
(* One media track of AAMP: the ring of cached fragments that the fragment   *)
(* collector thread fills and the injector thread empties (MediaTrack in     *)
(* streamabstraction.cpp, driven by TrackState in fragmentcollector_hls.cpp).*)
(* Every section the code runs under MediaTrack::mutex is one action; reads  *)
(* and writes outside the mutex are steps of their own.                      *)
EXTENDS Naturals, Sequences, FiniteSets

CONSTANTS
    maxCachedFragmentsPerTrack,  \* slots of the ring
    NumFragments,                \* fragments the playlist ever offers
    Discontinuities,             \* fragments tagged EXT-X-DISCONTINUITY
    EmptyBodies,                 \* fragments the server answers 200 and no body
    Lives,                       \* values of live to start from
    NormalRate,                  \* rate = AAMP_NORMAL_PLAY_RATE, or trick play
    segInjectFailLimit,          \* aamp->mSegInjectFailCount
    preplaybuffercount,          \* gpGlobalConfig->preplaybuffercount
    MaxRestarts,                 \* bound: StopInjection/StartInjection rounds
    SpuriousWakeups              \* condition variables that wake on their own

Fragments == 1 .. NumFragments
Slots == 0 .. maxCachedFragmentsPerTrack - 1

ASSUME CapacityAssumption == maxCachedFragmentsPerTrack \in Nat \ {0}
ASSUME FragmentsAssumption ==
    /\ NumFragments \in Nat
    /\ Discontinuities \subseteq Fragments
    /\ EmptyBodies \subseteq Fragments
ASSUME FlagsAssumption ==
    /\ Lives \subseteq BOOLEAN /\ NormalRate \in BOOLEAN
    /\ SpuriousWakeups \subseteq
         {"fragmentInjected", "fragmentFetched", "mStateCond"}
ASSUME LimitsAssumption ==
    /\ segInjectFailLimit \in Nat /\ preplaybuffercount \in Nat
    /\ MaxRestarts \in Nat

VARIABLES
    \* a live playlist (timed wait, no end) or VOD, for the whole of a tune
    live,
    \* the ring
    cachedFragment, fragmentIdxToFetch, fragmentIdxToInject,
    numberOfFragmentsCached,
    \* flags of the track
    abort, abortInject, eosReached,
    \* the collector thread
    fetchPc, timed, nextFragment, uriNull, totalFragmentsDownloaded,
    \* the injector thread
    injectPc, totalInjectedDuration, mSegInjectFailCount,
    \* the player and its sink
    controlPc, restarts, mDownloadsEnabled, mbTrackDownloadsBlocked,
    mTrackInjectionBlocked, prepared,
    \* history: what became of the fragments
    injected, discarded, skipped, eosSent

ring == <<cachedFragment, fragmentIdxToFetch, fragmentIdxToInject,
          numberOfFragmentsCached>>
flags == <<abort, abortInject, eosReached>>
fetcher == <<fetchPc, timed, nextFragment, uriNull, totalFragmentsDownloaded>>
injector == <<injectPc, totalInjectedDuration, mSegInjectFailCount>>
player == <<controlPc, restarts, mDownloadsEnabled, mbTrackDownloadsBlocked,
            mTrackInjectionBlocked, prepared>>
history == <<injected, discarded, skipped, eosSent>>
vars == <<live, ring, flags, fetcher, injector, player, history>>

FetchPcs == {"loop", "enterWait", "playStartWait", "lockFree", "freeWait",
             "freeWoken", "fetch", "update", "done"}
InjectPcs == {"off", "loop", "block", "lockCached", "cachedWait",
              "cachedWoken", "head", "discontinuity", "stateWait", "stateWoken",
              "inject", "update", "lastUpdate", "noFragment", "exit", "done"}
ControlPcs == {"running", "blockInjection", "joinInjector", "injectionStopped",
               "disabled", "joinCollector", "joinLastInjector", "stopped"}

\* The content of a slot: a fragment number, 0 when fragment.ptr is NULL.
NoFragment == [fragment |-> 0, discontinuity |-> FALSE]
CachedFragments == [fragment : 0 .. NumFragments, discontinuity : BOOLEAN]

\* Fault: the index wraps one slot too late.
IncrementWrapsLate(idx) ==
    IF idx + 1 > maxCachedFragmentsPerTrack THEN 0 ELSE idx + 1

\* idx++; if (idx == maxCachedFragmentsPerTrack) idx = 0;
Increment(idx) == IF idx + 1 = maxCachedFragmentsPerTrack THEN 0 ELSE idx + 1

\* The slot k places after idx.
SlotAfter(idx, k) ==
    IF idx + k < maxCachedFragmentsPerTrack
    THEN idx + k ELSE idx + k - maxCachedFragmentsPerTrack

FragmentToInject == cachedFragment[fragmentIdxToInject]

Init ==
    /\ live \in Lives
    /\ cachedFragment = [i \in Slots |-> NoFragment]
    /\ fragmentIdxToFetch = 0
    /\ fragmentIdxToInject = 0
    /\ numberOfFragmentsCached = 0
    /\ abort = FALSE /\ abortInject = FALSE /\ eosReached = FALSE
    /\ fetchPc = "loop" /\ timed = live /\ nextFragment = 1
    /\ uriNull = FALSE /\ totalFragmentsDownloaded = 0
    /\ injectPc \in {"off", "loop"}       \* off: the tune is not play-enabled
    /\ totalInjectedDuration = 0 /\ mSegInjectFailCount = 0
    /\ controlPc = "running" /\ restarts = 0
    /\ mDownloadsEnabled = TRUE
    /\ mbTrackDownloadsBlocked \in BOOLEAN
    /\ mTrackInjectionBlocked = FALSE
    /\ prepared \in BOOLEAN
    /\ injected = <<>> /\ discarded = {} /\ skipped = {} /\ eosSent = FALSE

-----------------------------------------------------------------------------
(* Condition variables: a signal moves the one thread that can wait.         *)

\* Fault: the signal is forgotten.
NoSignal(pc) == pc

SignalFragmentInjected(pc) == IF pc = "freeWait" THEN "freeWoken" ELSE pc
SignalFragmentFetched(pc) == IF pc = "cachedWait" THEN "cachedWoken" ELSE pc
SignalStateCond(pc) == IF pc = "stateWait" THEN "stateWoken" ELSE pc
SignalPlayStart(pc) == IF pc = "playStartWait" THEN "lockFree" ELSE pc

-----------------------------------------------------------------------------
(* The collector thread: TrackState::RunFetchLoop and FetchFragment.         *)

\* The inner loop goes on while there is a URI and downloads are enabled.
FetchLoop ==
    /\ fetchPc = "loop"
    /\ ~uriNull /\ mDownloadsEnabled
    /\ fetchPc' = "enterWait" /\ timed' = live
    /\ UNCHANGED <<ring, flags, nextFragment, uriNull,
                   totalFragmentsDownloaded, injector, player, history>>

\* Playlist played to its end, or downloads disabled: a lazy abort wakes the
\* injector so that it can notice the end of stream, and the thread ends.
FetchLoopExit ==
    /\ fetchPc = "loop"
    /\ eosReached \/ ~mDownloadsEnabled
    /\ uriNull \/ ~mDownloadsEnabled
    /\ fetchPc' = "done"
    /\ injectPc' = SignalFragmentFetched(injectPc)
    /\ UNCHANGED <<ring, flags, timed, nextFragment, uriNull,
                   totalFragmentsDownloaded, totalInjectedDuration,
                   mSegInjectFailCount, player, history>>

\* A live playlist had nothing new: sleep, refresh, look again.
RefreshPlaylist ==
    /\ fetchPc = "loop"
    /\ uriNull /\ ~eosReached /\ mDownloadsEnabled
    /\ uriNull' = (nextFragment > NumFragments)
    /\ UNCHANGED <<ring, flags, fetchPc, timed, nextFragment,
                   totalFragmentsDownloaded, injector, player, history>>

\* WaitForFreeFragmentAvailable before it takes the mutex: the abort flag is
\* read unlocked, and a prepared player holds back for 500 ms.
EnterWaitForFree ==
    /\ fetchPc = "enterWait"
    /\ fetchPc' = IF abort THEN "loop"
                  ELSE IF prepared /\ totalFragmentsDownloaded > preplaybuffercount
                  THEN "playStartWait" ELSE "lockFree"
    /\ timed' = (timed \/ fetchPc' = "playStartWait")
    /\ UNCHANGED <<ring, flags, nextFragment, uriNull,
                   totalFragmentsDownloaded, injector, player, history>>

\* The timed wait for waitforplaystart expires: no fragment this time.
PlayStartTimeout ==
    /\ fetchPc = "playStartWait"
    /\ fetchPc' = "loop"
    /\ UNCHANGED <<ring, flags, timed, nextFragment, uriNull,
                   totalFragmentsDownloaded, injector, player, history>>

\* Fault: one fragment more than there are slots.
RingOverfull == numberOfFragmentsCached > maxCachedFragmentsPerTrack

RingFull == numberOfFragmentsCached = maxCachedFragmentsPerTrack

\* Under the mutex: a full ring waits for fragmentInjected without looking at
\* abort again, and the wait is not in a loop.
LockFree ==
    /\ fetchPc = "lockFree"
    /\ fetchPc' = IF RingFull THEN "freeWait" ELSE "fetch"
    /\ UNCHANGED <<ring, flags, timed, nextFragment, uriNull,
                   totalFragmentsDownloaded, injector, player, history>>

FreeWaitTimeout ==
    /\ fetchPc = "freeWait" /\ timed
    /\ fetchPc' = "loop"
    /\ UNCHANGED <<ring, flags, timed, nextFragment, uriNull,
                   totalFragmentsDownloaded, injector, player, history>>

FreeWoken ==
    /\ fetchPc = "freeWoken"
    /\ fetchPc' = IF abort THEN "loop" ELSE "fetch"
    /\ UNCHANGED <<ring, flags, timed, nextFragment, uriNull,
                   totalFragmentsDownloaded, injector, player, history>>

\* FetchFragment after the wait: nothing is downloaded once aborted.
FetchRefused ==
    /\ fetchPc = "fetch"
    /\ ~mDownloadsEnabled \/ abort
    /\ fetchPc' = "loop"
    /\ UNCHANGED <<ring, flags, timed, nextFragment, uriNull,
                   totalFragmentsDownloaded, injector, player, history>>

\* The playlist has no next URI: the end of a VOD asset, or a live playlist
\* that was not updated yet.
FetchNullUri ==
    /\ fetchPc = "fetch" /\ mDownloadsEnabled /\ ~abort
    /\ nextFragment > NumFragments \/ live
    /\ uriNull' = TRUE
    /\ eosReached' = ~live
    /\ fetchPc' = "loop"
    /\ UNCHANGED <<ring, abort, abortInject, timed, nextFragment,
                   totalFragmentsDownloaded, injector, player, history>>

\* GetFile fails: the segment is skipped, or a lower profile retries it.
FetchFails ==
    /\ fetchPc = "fetch" /\ mDownloadsEnabled /\ ~abort
    /\ nextFragment <= NumFragments
    /\ \/ /\ nextFragment' = nextFragment + 1
          /\ skipped' = skipped \cup {nextFragment}
       \/ UNCHANGED <<nextFragment, skipped>>
    /\ fetchPc' = "loop"
    /\ UNCHANGED <<ring, flags, timed, uriNull, totalFragmentsDownloaded,
                   injector, player, injected, discarded, eosSent>>

\* GetFile fills the slot that GetFetchBuffer returned, outside the mutex.
FetchSucceeds ==
    /\ fetchPc = "fetch" /\ mDownloadsEnabled /\ ~abort
    /\ nextFragment <= NumFragments
    /\ cachedFragment' =
         [cachedFragment EXCEPT ![fragmentIdxToFetch] =
            IF nextFragment \in EmptyBodies THEN NoFragment
            ELSE [fragment |-> nextFragment,
                  discontinuity |-> ~NormalRate
                                    \/ nextFragment \in Discontinuities]]
    /\ skipped' = IF nextFragment \in EmptyBodies
                  THEN skipped \cup {nextFragment} ELSE skipped
    /\ nextFragment' = nextFragment + 1
    /\ fetchPc' = "update"
    /\ UNCHANGED <<fragmentIdxToFetch, fragmentIdxToInject,
                   numberOfFragmentsCached, flags, timed, uriNull,
                   totalFragmentsDownloaded, injector, player,
                   injected, discarded, eosSent>>

UpdateTSAfterFetch ==
    /\ fetchPc = "update"
    /\ numberOfFragmentsCached' = numberOfFragmentsCached + 1
    /\ fragmentIdxToFetch' = Increment(fragmentIdxToFetch)
    /\ totalFragmentsDownloaded' = totalFragmentsDownloaded + 1
    /\ injectPc' = SignalFragmentFetched(injectPc)
    /\ fetchPc' = "loop"
    /\ UNCHANGED <<cachedFragment, fragmentIdxToInject, flags, timed,
                   nextFragment, uriNull, totalInjectedDuration,
                   mSegInjectFailCount, player, history>>

-----------------------------------------------------------------------------
(* The injector thread: MediaTrack::RunInjectLoop and InjectFragment.        *)

\* while (aamp->DownloadsAreEnabled() && keepInjecting)
InjectLoop ==
    /\ injectPc = "loop"
    /\ injectPc' = IF mDownloadsEnabled THEN "block" ELSE "exit"
    /\ UNCHANGED <<ring, flags, fetcher, totalInjectedDuration,
                   mSegInjectFailCount, player, history>>

SinkAdmitsOrDisabled ==
    ~mbTrackDownloadsBlocked \/ ~mDownloadsEnabled \/ mTrackInjectionBlocked

\* BlockUntilGstreamerWantsData polls every 10 ms while the sink is full,
\* unless downloads are disabled or the track's injection is blocked.
BlockUntilGstreamerWantsData ==
    /\ injectPc = "block"
    /\ SinkAdmitsOrDisabled
    /\ injectPc' = "lockCached"
    /\ UNCHANGED <<ring, flags, fetcher, totalInjectedDuration,
                   mSegInjectFailCount, player, history>>

\* Fault: the end of the playlist counts as an empty ring.
AvailableUntilEos ==
    ~(abort \/ abortInject \/ eosReached \/ numberOfFragmentsCached = 0)

\* What WaitForCachedFragmentAvailable returns decides the next step.
CachedFragmentAvailable == ~(abort \/ abortInject \/ numberOfFragmentsCached = 0)
AfterCachedWait == IF CachedFragmentAvailable THEN "head" ELSE "noFragment"

WaitForCachedFragmentAvailable ==
    /\ injectPc = "lockCached"
    /\ injectPc' = IF /\ numberOfFragmentsCached = 0
                      /\ ~(abort \/ abortInject \/ eosReached)
                   THEN "cachedWait" ELSE AfterCachedWait
    /\ UNCHANGED <<ring, flags, fetcher, totalInjectedDuration,
                   mSegInjectFailCount, player, history>>

CachedWoken ==
    /\ injectPc = "cachedWoken"
    /\ injectPc' = AfterCachedWait
    /\ UNCHANGED <<ring, flags, fetcher, totalInjectedDuration,
                   mSegInjectFailCount, player, history>>

\* The wait failed, or the head slot holds no data: announce the end of the
\* stream if it was reached, and stop injecting.
NoFragmentToInject ==
    /\ \/ injectPc = "noFragment"
       \/ injectPc = "head" /\ FragmentToInject.fragment = 0
    /\ eosSent' = (eosSent \/ eosReached)
    /\ injectPc' = "exit"
    /\ UNCHANGED <<ring, flags, fetcher, totalInjectedDuration,
                   mSegInjectFailCount, player, injected, discarded, skipped>>

\* InjectFragment looks at the head slot; at normal rate a discontinuity is
\* cleared there and then processed, unless nothing was injected before it.
ExamineHead ==
    /\ injectPc = "head" /\ FragmentToInject.fragment # 0
    /\ IF FragmentToInject.discontinuity /\ NormalRate
       THEN /\ cachedFragment' = [cachedFragment EXCEPT
                   ![fragmentIdxToInject].discontinuity = FALSE]
            /\ injectPc' = IF totalInjectedDuration = 0
                           THEN "inject" ELSE "discontinuity"
       ELSE injectPc' = "inject" /\ UNCHANGED cachedFragment
    /\ UNCHANGED <<fragmentIdxToFetch, fragmentIdxToInject,
                   numberOfFragmentsCached, flags, fetcher,
                   totalInjectedDuration, mSegInjectFailCount, player, history>>

\* StreamAbstractionAAMP::ProcessDiscontinuity (see AVSync): with the other
\* track already at its discontinuity it goes on at once, else it waits for
\* mStateCond. It does not look at abort first: an abort that came before the
\* wait is lost.
EnterDiscontinuity ==
    /\ injectPc = "discontinuity"
    /\ injectPc' \in {"stateWait", "stateWoken"}
    /\ UNCHANGED <<ring, flags, fetcher, totalInjectedDuration,
                   mSegInjectFailCount, player, history>>

\* Fault: the fragment behind a processed discontinuity is dropped.
DiscontinuityDropsFragment ==
    /\ injectPc = "stateWoken"
    /\ injectPc' \in {"lastUpdate", "inject"}
    /\ UNCHANGED <<ring, flags, fetcher, totalInjectedDuration,
                   mSegInjectFailCount, player, history>>

\* What it returns is decided by the other track and the sink: true ends the
\* loop and leaves the fragment in its slot, false goes on with it.
ProcessDiscontinuityReturns ==
    /\ injectPc = "stateWoken"
    /\ injectPc' \in {"exit", "inject"}
    /\ UNCHANGED <<ring, flags, fetcher, totalInjectedDuration,
                   mSegInjectFailCount, player, history>>

InjectFragmentInternal ==
    /\ injectPc = "inject"
    /\ injected' = Append(injected, FragmentToInject.fragment)
    /\ totalInjectedDuration' = totalInjectedDuration + 1
    /\ mSegInjectFailCount' = 0
    /\ injectPc' = "update"
    /\ UNCHANGED <<ring, flags, fetcher, player, discarded, skipped, eosSent>>

\* The fragment processor discards the segment; too many in a row is an error,
\* which disables downloads and ends the loop.
InjectFragmentDiscarded ==
    /\ injectPc = "inject"
    /\ discarded' = discarded \cup {FragmentToInject.fragment}
    /\ mSegInjectFailCount' = mSegInjectFailCount + 1
    /\ IF segInjectFailLimit <= mSegInjectFailCount + 1
       THEN injectPc' = "lastUpdate" /\ mDownloadsEnabled' = FALSE
       ELSE injectPc' = "update" /\ UNCHANGED mDownloadsEnabled
    /\ UNCHANGED <<ring, flags, fetcher, totalInjectedDuration, controlPc,
                   restarts, mbTrackDownloadsBlocked, mTrackInjectionBlocked,
                   prepared, injected, skipped, eosSent>>

\* Fault: the injected fragment stays in its slot.
HeadSlotKept == cachedFragment

HeadSlotEmptied ==
    [cachedFragment EXCEPT ![fragmentIdxToInject] = NoFragment]

UpdateTSAfterInject ==
    /\ injectPc \in {"update", "lastUpdate"}
    /\ cachedFragment' = HeadSlotEmptied
    /\ fragmentIdxToInject' = Increment(fragmentIdxToInject)
    /\ numberOfFragmentsCached' = numberOfFragmentsCached - 1
    /\ fetchPc' = SignalFragmentInjected(fetchPc)
    /\ injectPc' = IF injectPc = "update" THEN "loop" ELSE "exit"
    /\ UNCHANGED <<fragmentIdxToFetch, flags, timed, nextFragment, uriNull,
                   totalFragmentsDownloaded, totalInjectedDuration,
                   mSegInjectFailCount, player, history>>

InjectLoopExit ==
    /\ injectPc = "exit"
    /\ abortInject' = TRUE
    /\ injectPc' = "done"
    /\ UNCHANGED <<ring, abort, eosReached, fetcher, totalInjectedDuration,
                   mSegInjectFailCount, player, history>>

-----------------------------------------------------------------------------
(* The player: injection is stopped and started around a discontinuity, by   *)
(* detach and by SetRate; Stop ends the track.                               *)

\* Fault: AbortWaitForCachedFragment does not call AbortWaitForDiscontinuity.
SignalFetchedOnly(pc) == SignalFragmentFetched(pc)

\* An abort wakes the injector out of its wait for a fragment and, by
\* AbortWaitForDiscontinuity, out of the one for the other track. The second
\* signal follows under mStateLock; no step of the injector that enters that
\* wait reads a flag of the track, so the two are one step here.
SignalInjector(pc) == SignalStateCond(SignalFragmentFetched(pc))

\* StopInjection: AbortWaitForCachedFragment, StopTrackInjection, join.
AbortWaitForCachedFragment ==
    /\ controlPc = "running" /\ restarts < MaxRestarts
    /\ restarts' = restarts + 1
    /\ abortInject' = TRUE
    /\ injectPc' = SignalInjector(injectPc)
    /\ controlPc' = "blockInjection"
    /\ UNCHANGED <<ring, abort, eosReached, fetcher, totalInjectedDuration,
                   mSegInjectFailCount, mDownloadsEnabled,
                   mbTrackDownloadsBlocked, mTrackInjectionBlocked, prepared,
                   history>>

StopTrackInjection ==
    /\ controlPc = "blockInjection"
    /\ mTrackInjectionBlocked' = TRUE
    /\ controlPc' = "joinInjector"
    /\ UNCHANGED <<ring, flags, fetcher, injector, restarts, mDownloadsEnabled,
                   mbTrackDownloadsBlocked, prepared, history>>

\* StopInjectLoop joins the injector thread. At the end of Stop, downloads are
\* enabled again for the next stream.
StopInjectLoop ==
    /\ controlPc \in {"joinInjector", "joinLastInjector"}
    /\ injectPc \in {"off", "done"}
    /\ injectPc' = "off"
    /\ IF controlPc = "joinInjector"
       THEN controlPc' = "injectionStopped" /\ UNCHANGED mDownloadsEnabled
       ELSE controlPc' = "stopped" /\ mDownloadsEnabled' = TRUE
    /\ UNCHANGED <<ring, flags, fetcher, totalInjectedDuration,
                   mSegInjectFailCount, restarts, mbTrackDownloadsBlocked,
                   mTrackInjectionBlocked, prepared, history>>

\* Fault: a restarted injector begins at the first slot.
StartInjectionAtSlotZero ==
    /\ injectPc = "off"
    /\ controlPc \in {"running", "injectionStopped"}
    /\ controlPc' = "running"
    /\ mTrackInjectionBlocked' = FALSE
    /\ abort' = FALSE /\ abortInject' = FALSE
    /\ totalInjectedDuration' = 0
    /\ fragmentIdxToInject' = 0
    /\ injectPc' = "loop"
    /\ UNCHANGED <<cachedFragment, fragmentIdxToFetch, numberOfFragmentsCached,
                   eosReached, fetcher, mSegInjectFailCount, restarts,
                   mDownloadsEnabled, mbTrackDownloadsBlocked, prepared, history>>

\* StartInjection: ResumeTrackInjection and StartInjectLoop, whose thread
\* resets totalInjectedDuration as it starts.
StartInjection ==
    /\ injectPc = "off"
    /\ controlPc \in {"running", "injectionStopped"}
    /\ controlPc' = "running"
    /\ mTrackInjectionBlocked' = FALSE
    /\ abort' = FALSE /\ abortInject' = FALSE
    /\ totalInjectedDuration' = 0
    /\ injectPc' = "loop"
    /\ UNCHANGED <<ring, eosReached, fetcher, mSegInjectFailCount, restarts,
                   mDownloadsEnabled, mbTrackDownloadsBlocked, prepared,
                   history>>

\* Stop: DisableDownloads, then the immediate abort, then the two joins.
DisableDownloads ==
    /\ controlPc \in {"running", "injectionStopped"}
    /\ mDownloadsEnabled' = FALSE
    /\ controlPc' = "disabled"
    /\ UNCHANGED <<ring, flags, fetcher, injector, restarts,
                   mbTrackDownloadsBlocked, mTrackInjectionBlocked, prepared,
                   history>>

AbortWaitForCachedAndFreeFragment ==
    /\ controlPc = "disabled"
    /\ abort' = TRUE
    /\ fetchPc' = SignalPlayStart(SignalFragmentInjected(fetchPc))
    /\ injectPc' = SignalInjector(injectPc)
    /\ controlPc' = "joinCollector"
    /\ UNCHANGED <<ring, abortInject, eosReached, timed, nextFragment, uriNull,
                   totalFragmentsDownloaded, totalInjectedDuration,
                   mSegInjectFailCount, restarts, mDownloadsEnabled,
                   mbTrackDownloadsBlocked, mTrackInjectionBlocked, prepared,
                   history>>

JoinCollector ==
    /\ controlPc = "joinCollector"
    /\ fetchPc = "done"
    /\ controlPc' = "joinLastInjector"
    /\ UNCHANGED <<ring, flags, fetcher, injector, restarts, mDownloadsEnabled,
                   mbTrackDownloadsBlocked, mTrackInjectionBlocked, prepared,
                   history>>

-----------------------------------------------------------------------------
(* The sink and the player state.                                            *)

\* appsrc enough-data and need-data (StopTrackDownloads, ResumeTrackDownloads)
StopTrackDownloads ==
    /\ ~mbTrackDownloadsBlocked /\ controlPc # "stopped"
    /\ mbTrackDownloadsBlocked' = TRUE
    /\ UNCHANGED <<ring, flags, fetcher, injector, controlPc, restarts,
                   mDownloadsEnabled, mTrackInjectionBlocked, prepared, history>>

ResumeTrackDownloads ==
    /\ mbTrackDownloadsBlocked /\ controlPc # "stopped"
    /\ mbTrackDownloadsBlocked' = FALSE
    /\ UNCHANGED <<ring, flags, fetcher, injector, controlPc, restarts,
                   mDownloadsEnabled, mTrackInjectionBlocked, prepared, history>>

\* NotifyFirstFrameReceived leaves eSTATE_PREPARED and wakes the collectors.
NotifyFirstFrameReceived ==
    /\ prepared /\ controlPc # "stopped"
    /\ prepared' = FALSE
    /\ fetchPc' = SignalPlayStart(fetchPc)
    /\ UNCHANGED <<ring, flags, timed, nextFragment, uriNull,
                   totalFragmentsDownloaded, injector, controlPc, restarts,
                   mDownloadsEnabled, mbTrackDownloadsBlocked,
                   mTrackInjectionBlocked, history>>

\* The other track arrives at its discontinuity and has processed it, or the
\* monitor of stalls gives this one up (see AVSync); nothing says when.
OtherTrackSignals ==
    /\ injectPc = "stateWait"
    /\ injectPc' = SignalStateCond(injectPc)
    /\ UNCHANGED <<ring, flags, fetcher, totalInjectedDuration,
                   mSegInjectFailCount, player, history>>

\* POSIX lets pthread_cond_wait return without a signal.
SpuriousWakeup ==
    /\ \E c \in SpuriousWakeups :
         /\ fetchPc' = IF c = "fragmentInjected"
                       THEN SignalFragmentInjected(fetchPc) ELSE fetchPc
         /\ injectPc' = CASE c = "fragmentFetched" -> SignalFragmentFetched(injectPc)
                          [] c = "mStateCond" -> SignalStateCond(injectPc)
                          [] OTHER -> injectPc
    /\ UNCHANGED <<ring, flags, timed, nextFragment, uriNull,
                   totalFragmentsDownloaded, totalInjectedDuration,
                   mSegInjectFailCount, player, history>>

-----------------------------------------------------------------------------

RunFetchLoop ==
    \/ FetchLoop \/ FetchLoopExit \/ RefreshPlaylist
    \/ EnterWaitForFree \/ PlayStartTimeout
    \/ LockFree \/ FreeWaitTimeout \/ FreeWoken
    \/ FetchRefused \/ FetchNullUri \/ FetchFails \/ FetchSucceeds
    \/ UpdateTSAfterFetch

RunInjectLoop ==
    \/ InjectLoop \/ BlockUntilGstreamerWantsData
    \/ WaitForCachedFragmentAvailable \/ CachedWoken \/ NoFragmentToInject
    \/ ExamineHead \/ EnterDiscontinuity \/ ProcessDiscontinuityReturns
    \/ InjectFragmentInternal \/ InjectFragmentDiscarded
    \/ UpdateTSAfterInject \/ InjectLoopExit

\* A Stop that has begun runs to its end.
Teardown ==
    \/ StopTrackInjection \/ StopInjectLoop
    \/ AbortWaitForCachedAndFreeFragment \/ JoinCollector

Player ==
    \/ AbortWaitForCachedFragment \/ StartInjection \/ DisableDownloads
    \/ Teardown

Sink == StopTrackDownloads \/ ResumeTrackDownloads \/ NotifyFirstFrameReceived

Step == RunFetchLoop \/ RunInjectLoop \/ Player \/ Sink
        \/ OtherTrackSignals \/ SpuriousWakeup

Next == Step /\ UNCHANGED live

\* Threads that can run do run; a Stop that has begun goes on.
Fairness == /\ WF_vars(RunFetchLoop /\ UNCHANGED live)
            /\ WF_vars(RunInjectLoop /\ UNCHANGED live)
            /\ WF_vars(Teardown /\ UNCHANGED live)

Spec == Init /\ [][Next]_vars
FairSpec == Spec /\ Fairness

-----------------------------------------------------------------------------
(* Properties.                                                               *)

\* The slots that hold what was fetched and not yet injected.
CachedSlots ==
    {SlotAfter(fragmentIdxToInject, k) : k \in 0 .. numberOfFragmentsCached - 1}

\* Fragments in the ring, the one that is still to be accounted included.
RingFragments == {cachedFragment[i].fragment : i \in Slots} \ {0}

InjectedFragments == {injected[i] : i \in 1 .. Len(injected)}

\* Every variable keeps to the values the code can give it; indices stay in
\* the ring (streamabstraction.cpp:180, 254).
TypeOK ==
    /\ live \in BOOLEAN
    /\ cachedFragment \in [Slots -> CachedFragments]
    /\ fragmentIdxToFetch \in Slots /\ fragmentIdxToInject \in Slots
    /\ numberOfFragmentsCached \in Nat
    /\ abort \in BOOLEAN /\ abortInject \in BOOLEAN /\ eosReached \in BOOLEAN
    /\ timed \in BOOLEAN /\ uriNull \in BOOLEAN /\ prepared \in BOOLEAN
    /\ mDownloadsEnabled \in BOOLEAN /\ mbTrackDownloadsBlocked \in BOOLEAN
    /\ mTrackInjectionBlocked \in BOOLEAN /\ eosSent \in BOOLEAN
    /\ fetchPc \in FetchPcs /\ injectPc \in InjectPcs /\ controlPc \in ControlPcs
    /\ nextFragment \in 1 .. NumFragments + 1
    /\ totalFragmentsDownloaded \in Nat /\ totalInjectedDuration \in Nat
    /\ mSegInjectFailCount \in Nat /\ restarts \in Nat
    /\ injected \in Seq(Fragments)
    /\ discarded \subseteq Fragments /\ skipped \subseteq Fragments

\* The assertion after numberOfFragmentsCached++ (streamabstraction.cpp:225),
\* and its counterpart: the count never falls below zero.
CountInRange == numberOfFragmentsCached \in 0 .. maxCachedFragmentsPerTrack

\* The collector's index stays numberOfFragmentsCached slots ahead of the
\* injector's, and only slots between them, or the one a download is filling,
\* hold data: no slot is overwritten before it is injected, none is leaked.
RingConsistent ==
    /\ fragmentIdxToFetch =
         SlotAfter(fragmentIdxToInject, numberOfFragmentsCached)
    /\ \A i \in Slots : cachedFragment[i] # NoFragment =>
         \/ i \in CachedSlots
         \/ i = fragmentIdxToFetch /\ fetchPc = "update"

\* The ring as a whole: well typed, counted within its capacity, and its count
\* and indices, each changed in its own critical section, agree with its slots.
RingOK == TypeOK /\ CountInRange /\ RingConsistent

\* A download only starts into a free slot: GetFetchBuffer never finds
\* fragment.ptr already set ("possible memory leak", streamabstraction.cpp:781).
FetchSlotFree ==
    fetchPc = "fetch" =>
        /\ numberOfFragmentsCached < maxCachedFragmentsPerTrack
        /\ cachedFragment[fragmentIdxToFetch] = NoFragment

\* What makes the ring invariants inductive: a collector that holds the right
\* to fetch has a free slot, unless an abort woke it; an injector past its wait
\* has a fragment, and its head slot keeps its data until it is injected.
HoldsFreeSlot ==
    /\ fetchPc \in {"fetch", "update"} =>
         numberOfFragmentsCached < maxCachedFragmentsPerTrack
    /\ fetchPc = "freeWoken" =>
         abort \/ numberOfFragmentsCached < maxCachedFragmentsPerTrack
    /\ abort => controlPc \in {"joinCollector", "joinLastInjector", "stopped"}
HoldsFragment ==
    /\ injectPc \in {"head", "discontinuity", "stateWait", "stateWoken", "inject",
                    "update", "lastUpdate"}
         => numberOfFragmentsCached > 0
    /\ injectPc \in {"discontinuity", "stateWait", "stateWoken", "inject"}
         => FragmentToInject.fragment # 0

RingInv == TypeOK /\ CountInRange /\ RingConsistent /\ HoldsFreeSlot
           /\ HoldsFragment

\* No fragment disappears: what the collector got is in the ring, at the sink,
\* or was given up for a reason the code names.
NothingLost ==
    \A f \in 1 .. nextFragment - 1 :
        f \in RingFragments \cup InjectedFragments \cup discarded \cup skipped

\* Unless injection was aborted or came to an empty body, the sink hears of
\* the end of the stream when everything fetched was injected.
EosAfterLastFragment ==
    [][(eosSent' /\ ~eosSent /\ ~abort /\ ~abortInject /\ injectPc # "head") =>
         /\ nextFragment > NumFragments
         /\ RingFragments = {}]_vars

\* A Stop that has disabled downloads ends: both threads can be joined.
StopCompletes == controlPc = "disabled" ~> controlPc = "stopped"

\* The two waits that a thread may start after the abort has come, and that
\* nobody ends then: no flag is read between taking the mutex and the wait
\* (streamabstraction.cpp:348, 2171).
CollectorMissedAbort == fetchPc = "freeWait" /\ ~timed /\ abort
InjectorMissedAbort == injectPc = "stateWait" /\ (abort \/ abortInject)

\* Stop and StopInjection end from any state of collector and injector, of a
\* live or a VOD track, unless a thread goes into one of those two waits too
\* late for the signal. No other order of flags, signals and joins hangs them,
\* and threads that wait already when Stop begins always leave.
StopsEnd ==
    /\ controlPc = "disabled" ~>
         (controlPc = "stopped" \/ []CollectorMissedAbort \/ []InjectorMissedAbort)
    /\ controlPc = "blockInjection" ~>
         (controlPc = "injectionStopped" \/ []InjectorMissedAbort)
    /\ controlPc = "disabled" /\ fetchPc = "freeWait" /\ injectPc = "stateWait" ~>
         controlPc = "stopped"

\* The track implements the abstract FIFO. A fragment enters when
\* UpdateTSAfterFetch counts it and leaves when the sink or the processor has
\* it, one step before UpdateTSAfterInject frees its slot.
LeavingSlot == IF injectPc \in {"update", "lastUpdate"} THEN 1 ELSE 0
QueueOfRing ==
    [k \in 1 .. numberOfFragmentsCached - LeavingSlot |->
        cachedFragment[SlotAfter(fragmentIdxToInject, k - 1 + LeavingSlot)].fragment]
PendingFragments ==
    IF fetchPc = "update" THEN {cachedFragment[fragmentIdxToFetch].fragment} ELSE {}
SeenFragments == (1 .. nextFragment - 1) \ (skipped \cup PendingFragments)
NewestOf(S) == IF S = {} THEN 0 ELSE CHOOSE f \in S : \A g \in S : g <= f

Fifo == INSTANCE FragmentFifo WITH
            Capacity <- maxCachedFragmentsPerTrack,
            queue <- QueueOfRing,
            newest <- NewestOf(SeenFragments),
            delivered <- injected
ImplementsFifo == Fifo!Spec
=============================================================================
