-------------------------- MODULE MediaTrackProofs --------------------------
(* A media track, for every capacity, playlist and schedule, provided        *)
(* condition variables wake only when they are signalled: its ring is        *)
(* correct, no fragment is lost between its download and the sink, and they  *)
(* reach it in order (MediaTrack implements FragmentFifo).                   *)
EXTENDS MediaTrack, SequenceTheorems, TLAPS

\* An index that moves on stays in the ring.
LEMMA IncrementInSlots ==
    ASSUME NEW idx \in Slots
    PROVE  Increment(idx) \in Slots
  BY CapacityAssumption DEF Slots, Increment

\* Going round the ring by at most its size stays in the ring.
LEMMA SlotAfterInSlots ==
    ASSUME NEW idx \in Slots, NEW k \in 0 .. maxCachedFragmentsPerTrack
    PROVE  SlotAfter(idx, k) \in Slots
  BY CapacityAssumption DEF Slots, SlotAfter

\* Moving the far end of the window on.
LEMMA IncrementSlotAfter ==
    ASSUME NEW idx \in Slots, NEW k \in 0 .. maxCachedFragmentsPerTrack - 1
    PROVE  Increment(SlotAfter(idx, k)) = SlotAfter(idx, k + 1)
  BY CapacityAssumption DEF Slots, SlotAfter, Increment

\* Moving the near end of the window on.
LEMMA SlotAfterIncrement ==
    ASSUME NEW idx \in Slots, NEW k \in 1 .. maxCachedFragmentsPerTrack
    PROVE  SlotAfter(Increment(idx), k - 1) = SlotAfter(idx, k)
  BY CapacityAssumption DEF Slots, SlotAfter, Increment

\* Different offsets below the capacity are different slots.
LEMMA SlotAfterInjective ==
    ASSUME NEW idx \in Slots,
           NEW k \in 0 .. maxCachedFragmentsPerTrack - 1,
           NEW l \in 0 .. maxCachedFragmentsPerTrack - 1,
           SlotAfter(idx, k) = SlotAfter(idx, l)
    PROVE  k = l
  BY CapacityAssumption DEF Slots, SlotAfter

\* While a slot is free, the collector's slot is outside the window.
LEMMA FetchSlotOutside ==
    ASSUME RingInv, numberOfFragmentsCached < maxCachedFragmentsPerTrack
    PROVE  fragmentIdxToFetch \notin CachedSlots
<1>1. fragmentIdxToInject \in Slots
  BY DEF RingInv, TypeOK
<1>2. fragmentIdxToFetch = SlotAfter(fragmentIdxToInject, numberOfFragmentsCached)
  BY DEF RingInv, RingConsistent
<1>3. numberOfFragmentsCached \in 0 .. maxCachedFragmentsPerTrack - 1
  BY CapacityAssumption DEF RingInv, CountInRange
<1>4. SUFFICES ASSUME NEW k \in 0 .. numberOfFragmentsCached - 1,
                      fragmentIdxToFetch = SlotAfter(fragmentIdxToInject, k)
               PROVE  FALSE
  BY DEF CachedSlots
<1>5. k \in 0 .. maxCachedFragmentsPerTrack - 1
  BY <1>3, CapacityAssumption
<1>6. k = numberOfFragmentsCached
  BY <1>1, <1>2, <1>3, <1>4, <1>5, SlotAfterInjective
<1>. QED  BY <1>3, <1>6

\* Hence a download starts into an empty slot.
LEMMA RingInvImpliesFetchSlotFree ==
    RingInv => FetchSlotFree
<1>. SUFFICES ASSUME RingInv, fetchPc = "fetch"
              PROVE  FetchSlotFree
  BY DEF FetchSlotFree
<1>1. numberOfFragmentsCached < maxCachedFragmentsPerTrack
  BY DEF RingInv, HoldsFreeSlot
<1>2. fragmentIdxToFetch \notin CachedSlots
  BY <1>1, FetchSlotOutside
<1>3. cachedFragment[fragmentIdxToFetch] = NoFragment
  BY <1>2 DEF RingInv, RingConsistent, TypeOK
<1>. QED  BY <1>1, <1>3 DEF FetchSlotFree

\* An empty ring satisfies the invariant.
LEMMA RingInvInit == Init => RingInv
<1>. SUFFICES ASSUME Init PROVE RingInv
  OBVIOUS
<1>1. 0 \in Slots
  BY CapacityAssumption DEF Slots
<1>2. TypeOK
  <2>1. NoFragment \in CachedFragments
    BY FragmentsAssumption DEF NoFragment, CachedFragments
  <2>2. injected \in Seq(Fragments)
    BY DEF Init
  <2>. QED
    BY <1>1, <2>1, <2>2, FlagsAssumption, FragmentsAssumption
       DEF Init, TypeOK, FetchPcs, InjectPcs, ControlPcs
<1>3. CountInRange
  BY CapacityAssumption DEF Init, CountInRange
<1>4. RingConsistent
  BY CapacityAssumption DEF Init, RingConsistent, SlotAfter
<1>5. HoldsFreeSlot /\ HoldsFragment
  BY DEF Init, HoldsFreeSlot, HoldsFragment
<1>. QED  BY <1>2, <1>3, <1>4, <1>5 DEF RingInv

-----------------------------------------------------------------------------
(* RingInv is preserved: one lemma per conjunct, one step per action.        *)

\* A fragment that is about to be injected is one of the playlist's.
LEMMA HeadIsFragment ==
    ASSUME RingInv, injectPc = "inject"
    PROVE  FragmentToInject.fragment \in Fragments
<1>1. FragmentToInject \in CachedFragments
  BY DEF RingInv, TypeOK, FragmentToInject
<1>2. FragmentToInject.fragment # 0
  BY DEF RingInv, HoldsFragment
<1>. QED  BY <1>1, <1>2, FragmentsAssumption DEF CachedFragments, Fragments

\* A wakeup without a signal moves at most a waiting injector.
LEMMA SpuriousWakeupStep ==
    ASSUME "fragmentInjected" \notin SpuriousWakeups, SpuriousWakeup
    PROVE  /\ \/ injectPc' = SignalFragmentFetched(injectPc)
              \/ injectPc' = SignalStateCond(injectPc)
              \/ injectPc' = injectPc
           /\ UNCHANGED <<ring, flags, fetcher, totalInjectedDuration,
                          mSegInjectFailCount, player, history>>
<1>1. PICK c \in SpuriousWakeups :
        /\ fetchPc' = IF c = "fragmentInjected"
                      THEN SignalFragmentInjected(fetchPc) ELSE fetchPc
        /\ injectPc' = CASE c = "fragmentFetched" -> SignalFragmentFetched(injectPc)
                         [] c = "mStateCond" -> SignalStateCond(injectPc)
                         [] OTHER -> injectPc
  BY DEF SpuriousWakeup
<1>2. fetchPc' = fetchPc
  BY <1>1
<1>3. \/ injectPc' = SignalFragmentFetched(injectPc)
      \/ injectPc' = SignalStateCond(injectPc)
      \/ injectPc' = injectPc
  BY <1>1
<1>. QED  BY <1>2, <1>3 DEF SpuriousWakeup, fetcher

\* Every step keeps to the types.
LEMMA TypeOKStep ==
    ASSUME "fragmentInjected" \notin SpuriousWakeups, RingInv, [Next]_vars
    PROVE  TypeOK'
<1>. USE DEF ring, flags, fetcher, injector, player, history
<1>0. TypeOK /\ UNCHANGED live
  BY DEF RingInv, Next, vars
<1>. USE <1>0
<1>1. CASE FetchLoop
  BY <1>1, FlagsAssumption DEF FetchLoop, TypeOK, FetchPcs
<1>2. CASE FetchLoopExit
  BY <1>2 DEF FetchLoopExit, SignalFragmentFetched, TypeOK, FetchPcs, InjectPcs,
          ControlPcs
<1>3. CASE RefreshPlaylist
  BY <1>3 DEF RefreshPlaylist, TypeOK
<1>4. CASE EnterWaitForFree
  BY <1>4 DEF EnterWaitForFree, TypeOK, FetchPcs, InjectPcs,
          ControlPcs
<1>5. CASE PlayStartTimeout
  BY <1>5 DEF PlayStartTimeout, TypeOK, FetchPcs, InjectPcs,
          ControlPcs
<1>6. CASE LockFree
  BY <1>6 DEF LockFree, RingFull, TypeOK, FetchPcs, InjectPcs,
          ControlPcs
<1>7. CASE FreeWaitTimeout
  BY <1>7 DEF FreeWaitTimeout, TypeOK, FetchPcs, InjectPcs,
          ControlPcs
<1>8. CASE FreeWoken
  BY <1>8 DEF FreeWoken, TypeOK, FetchPcs, InjectPcs,
          ControlPcs
<1>9. CASE FetchRefused
  BY <1>9 DEF FetchRefused, TypeOK, FetchPcs, InjectPcs,
          ControlPcs
<1>10. CASE FetchNullUri
  BY <1>10 DEF FetchNullUri, TypeOK, FetchPcs, InjectPcs,
          ControlPcs
<1>11. CASE FetchFails
  <2>1. nextFragment' \in 1 .. NumFragments + 1
    BY <1>11, FragmentsAssumption DEF FetchFails, TypeOK
  <2>2. nextFragment \in Fragments
    BY <1>11, FragmentsAssumption DEF FetchFails, TypeOK, Fragments
  <2>3. skipped' \in {skipped, skipped \cup {nextFragment}}
    BY <1>11 DEF FetchFails
  <2>4. skipped' \subseteq Fragments
    BY <2>2, <2>3 DEF TypeOK
  <2>. QED
    BY <1>11, <2>1, <2>4 DEF FetchFails, TypeOK, FetchPcs
<1>12. CASE FetchSucceeds
  <2>1. [fragment |-> nextFragment,
         discontinuity |-> ~NormalRate \/ nextFragment \in Discontinuities]
          \in CachedFragments
    BY <1>12 DEF FetchSucceeds, TypeOK, CachedFragments
  <2>2. NoFragment \in CachedFragments
    BY FragmentsAssumption DEF NoFragment, CachedFragments
  <2>3. cachedFragment' \in [Slots -> CachedFragments]
    BY <1>12, <2>1, <2>2 DEF FetchSucceeds, TypeOK
  <2>4. nextFragment' \in 1 .. NumFragments + 1 /\ skipped' \subseteq Fragments
    BY <1>12, FragmentsAssumption DEF FetchSucceeds, TypeOK, Fragments
  <2>. QED
    BY <1>12, <2>3, <2>4 DEF FetchSucceeds, TypeOK, FetchPcs
<1>13. CASE UpdateTSAfterFetch
  BY <1>13, IncrementInSlots
     DEF UpdateTSAfterFetch, SignalFragmentFetched, TypeOK, FetchPcs, InjectPcs
<1>14. CASE InjectLoop
  BY <1>14 DEF InjectLoop, TypeOK, FetchPcs, InjectPcs,
          ControlPcs
<1>15. CASE BlockUntilGstreamerWantsData
  BY <1>15 DEF BlockUntilGstreamerWantsData, TypeOK, FetchPcs, InjectPcs,
          ControlPcs
<1>16. CASE WaitForCachedFragmentAvailable
  BY <1>16 DEF WaitForCachedFragmentAvailable, AfterCachedWait, CachedFragmentAvailable, TypeOK, FetchPcs, InjectPcs,
          ControlPcs
<1>17. CASE CachedWoken
  BY <1>17 DEF CachedWoken, AfterCachedWait, CachedFragmentAvailable, TypeOK, FetchPcs, InjectPcs,
          ControlPcs
<1>18. CASE NoFragmentToInject
  BY <1>18 DEF NoFragmentToInject, TypeOK, FetchPcs, InjectPcs,
          ControlPcs
<1>19. CASE ExamineHead
  <2>1. cachedFragment' \in [Slots -> CachedFragments]
    BY <1>19 DEF ExamineHead, FragmentToInject, TypeOK, CachedFragments
  <2>. QED
    BY <1>19, <2>1 DEF ExamineHead, TypeOK, InjectPcs
<1>20. CASE ProcessDiscontinuityReturns
  BY <1>20 DEF ProcessDiscontinuityReturns, TypeOK, FetchPcs, InjectPcs,
          ControlPcs
<1>21. CASE InjectFragmentInternal
  <2>1. FragmentToInject.fragment \in Fragments
    BY <1>21, HeadIsFragment DEF InjectFragmentInternal
  <2>. QED
    BY <1>21, <2>1 DEF InjectFragmentInternal, TypeOK, InjectPcs
<1>22. CASE InjectFragmentDiscarded
  <2>1. FragmentToInject.fragment \in Fragments
    BY <1>22, HeadIsFragment DEF InjectFragmentDiscarded
  <2>2. discarded' \subseteq Fragments
    BY <1>22, <2>1 DEF InjectFragmentDiscarded, TypeOK
  <2>3. mDownloadsEnabled' \in BOOLEAN
    BY <1>22 DEF InjectFragmentDiscarded, TypeOK
  <2>. QED
    BY <1>22, <2>2, <2>3 DEF InjectFragmentDiscarded, TypeOK, InjectPcs
<1>23. CASE UpdateTSAfterInject
  <2>1. cachedFragment' \in [Slots -> CachedFragments]
    BY <1>23, FragmentsAssumption
       DEF UpdateTSAfterInject, HeadSlotEmptied, NoFragment, CachedFragments, TypeOK
  <2>2. numberOfFragmentsCached' \in Nat
    BY <1>23 DEF UpdateTSAfterInject, HeadSlotEmptied, RingInv, HoldsFragment, TypeOK
  <2>. QED
    BY <1>23, <2>1, <2>2, IncrementInSlots
       DEF UpdateTSAfterInject, HeadSlotEmptied, SignalFragmentInjected, TypeOK, FetchPcs, InjectPcs
<1>24. CASE InjectLoopExit
  BY <1>24 DEF InjectLoopExit, TypeOK, FetchPcs, InjectPcs,
          ControlPcs
<1>25. CASE AbortWaitForCachedFragment
  BY <1>25 DEF AbortWaitForCachedFragment, SignalInjector, SignalStateCond, SignalFragmentFetched, TypeOK, FetchPcs, InjectPcs,
          ControlPcs
<1>26. CASE StopTrackInjection
  BY <1>26 DEF StopTrackInjection, TypeOK, FetchPcs, InjectPcs,
          ControlPcs
<1>27. CASE StopInjectLoop
  <2>1. mDownloadsEnabled' \in BOOLEAN
    BY <1>27 DEF StopInjectLoop, TypeOK
  <2>. QED
    BY <1>27, <2>1 DEF StopInjectLoop, TypeOK, ControlPcs, InjectPcs
<1>28. CASE StartInjection
  <2>1. /\ mTrackInjectionBlocked' \in BOOLEAN
        /\ abort' \in BOOLEAN /\ abortInject' \in BOOLEAN
    BY <1>28 DEF StartInjection
  <2>2. totalInjectedDuration' \in Nat
    BY <1>28 DEF StartInjection
  <2>3. injectPc' \in InjectPcs /\ controlPc' \in ControlPcs
    BY <1>28 DEF StartInjection, InjectPcs, ControlPcs
  <2>. QED  BY <1>28, <2>1, <2>2, <2>3 DEF StartInjection, TypeOK
<1>29. CASE DisableDownloads
  <2>1. mDownloadsEnabled' \in BOOLEAN
    BY <1>29 DEF DisableDownloads, TypeOK
  <2>. QED
    BY <1>29, <2>1 DEF DisableDownloads, TypeOK, ControlPcs
<1>30. CASE AbortWaitForCachedAndFreeFragment
  BY <1>30 DEF AbortWaitForCachedAndFreeFragment, SignalInjector, SignalStateCond, SignalFragmentFetched, SignalFragmentInjected, SignalPlayStart, TypeOK, FetchPcs, InjectPcs,
          ControlPcs
<1>31. CASE JoinCollector
  BY <1>31 DEF JoinCollector, TypeOK, FetchPcs, InjectPcs,
          ControlPcs
<1>32. CASE StopTrackDownloads
  BY <1>32 DEF StopTrackDownloads, TypeOK, FetchPcs, InjectPcs,
          ControlPcs
<1>33. CASE ResumeTrackDownloads
  <2>1. mbTrackDownloadsBlocked' \in BOOLEAN
    BY <1>33 DEF ResumeTrackDownloads, TypeOK
  <2>. QED
    BY <1>33, <2>1 DEF ResumeTrackDownloads, TypeOK
<1>34. CASE NotifyFirstFrameReceived
  <2>1. prepared' \in BOOLEAN
    BY <1>34 DEF NotifyFirstFrameReceived, TypeOK
  <2>. QED
    BY <1>34, <2>1 DEF NotifyFirstFrameReceived, TypeOK, FetchPcs, SignalPlayStart
<1>35. CASE UNCHANGED vars
  BY <1>35 DEF vars, TypeOK
<1>36. CASE EnterDiscontinuity
  BY <1>36 DEF EnterDiscontinuity, TypeOK, InjectPcs
<1>37. CASE OtherTrackSignals
  BY <1>37 DEF OtherTrackSignals, SignalStateCond, TypeOK, InjectPcs
<1>38. CASE SpuriousWakeup
  BY <1>38, SpuriousWakeupStep DEF SignalFragmentFetched, SignalStateCond, TypeOK, InjectPcs
<1>. QED
  BY <1>1, <1>2, <1>3, <1>4, <1>5, <1>6, <1>7, <1>8, <1>9, <1>10, <1>11, <1>12, <1>13, <1>14, <1>15, <1>16, <1>17, <1>18, <1>19, <1>20, <1>21, <1>22, <1>23, <1>24, <1>25, <1>26, <1>27, <1>28, <1>29, <1>30, <1>31, <1>32, <1>33, <1>34, <1>35,
     <1>36, <1>37, <1>38
     DEF Next, Step, RunFetchLoop, RunInjectLoop, Player, Teardown, Sink

\* Steps other than those four leave the ring's slots, indices and count
\* alone, and neither start nor end the filling of a slot.
LEMMA RingSteps ==
    ASSUME "fragmentInjected" \notin SpuriousWakeups, [Next]_vars
    PROVE  \/ UNCHANGED ring /\ (fetchPc = "update" <=> fetchPc' = "update")
           \/ FetchSucceeds \/ UpdateTSAfterFetch
           \/ ExamineHead \/ UpdateTSAfterInject
<1>. DEFINE Quiet == UNCHANGED ring /\ (fetchPc = "update" <=> fetchPc' = "update")
<1>. USE DEF fetcher
<1>1. RunFetchLoop => Quiet \/ FetchSucceeds \/ UpdateTSAfterFetch
  BY DEF RunFetchLoop, FetchLoop, FetchLoopExit, RefreshPlaylist, EnterWaitForFree, PlayStartTimeout, LockFree, FreeWaitTimeout, FreeWoken, FetchRefused, FetchNullUri, FetchFails
<1>2. RunInjectLoop => Quiet \/ ExamineHead \/ UpdateTSAfterInject
  BY DEF RunInjectLoop, InjectLoop, BlockUntilGstreamerWantsData, WaitForCachedFragmentAvailable, CachedWoken, NoFragmentToInject, EnterDiscontinuity, ProcessDiscontinuityReturns, InjectFragmentInternal, InjectFragmentDiscarded, InjectLoopExit
<1>3. Player => Quiet
  BY DEF Player, Teardown, SignalPlayStart, SignalFragmentInjected, AbortWaitForCachedFragment, StopTrackInjection, StopInjectLoop, StartInjection, DisableDownloads, AbortWaitForCachedAndFreeFragment, JoinCollector
<1>4. Sink => Quiet
  BY DEF Sink, SignalPlayStart, StopTrackDownloads, ResumeTrackDownloads, NotifyFirstFrameReceived
<1>5. UNCHANGED vars => Quiet
  BY DEF vars
<1>6. OtherTrackSignals \/ SpuriousWakeup => Quiet
  BY SpuriousWakeupStep DEF OtherTrackSignals, SignalFragmentFetched, SignalStateCond
<1>. QED  BY <1>1, <1>2, <1>3, <1>4, <1>5, <1>6 DEF Next, Step

\* Every step keeps the count between zero and the capacity.
LEMMA CountStep ==
    ASSUME "fragmentInjected" \notin SpuriousWakeups, RingInv, [Next]_vars
    PROVE  CountInRange'
<1>. USE DEF RingInv, CountInRange
<1>1. CASE UNCHANGED ring
  BY <1>1 DEF ring
<1>2. CASE FetchSucceeds
  BY <1>2 DEF FetchSucceeds
<1>3. CASE UpdateTSAfterFetch
  BY <1>3, CapacityAssumption DEF UpdateTSAfterFetch, HoldsFreeSlot
<1>4. CASE ExamineHead
  BY <1>4 DEF ExamineHead
<1>5. CASE UpdateTSAfterInject
  BY <1>5, CapacityAssumption DEF UpdateTSAfterInject, HeadSlotEmptied, HoldsFragment
<1>. QED  BY <1>1, <1>2, <1>3, <1>4, <1>5, RingSteps

\* Every step keeps indices, count and slots in agreement.
LEMMA RingConsistentStep ==
    ASSUME "fragmentInjected" \notin SpuriousWakeups, RingInv, [Next]_vars
    PROVE  RingConsistent'
<1>. DEFINE n == numberOfFragmentsCached
<1>1. /\ cachedFragment \in [Slots -> CachedFragments]
      /\ fragmentIdxToFetch \in Slots /\ fragmentIdxToInject \in Slots
      /\ n \in 0 .. maxCachedFragmentsPerTrack
      /\ fragmentIdxToFetch = SlotAfter(fragmentIdxToInject, n)
  BY DEF RingInv, TypeOK, CountInRange, RingConsistent
<1>2. \A i \in Slots : cachedFragment[i] # NoFragment =>
         \/ i \in CachedSlots
         \/ i = fragmentIdxToFetch /\ fetchPc = "update"
  BY DEF RingInv, RingConsistent
<1>0. SlotAfter(fragmentIdxToInject, 0) = fragmentIdxToInject
  BY <1>1, CapacityAssumption DEF SlotAfter, Slots
<1>3. n > 0 => fragmentIdxToInject \in CachedSlots
  <2>. SUFFICES ASSUME n > 0 PROVE fragmentIdxToInject \in CachedSlots
    OBVIOUS
  <2>1. 0 \in 0 .. n - 1
    BY <1>1
  <2>. QED  BY <1>0, <2>1 DEF CachedSlots
<1>4. CASE UNCHANGED ring /\ (fetchPc = "update" <=> fetchPc' = "update")
  BY <1>1, <1>2, <1>4 DEF ring, RingConsistent, CachedSlots
<1>5. CASE FetchSucceeds
  <2>1. CachedSlots' = CachedSlots
    BY <1>5 DEF FetchSucceeds, CachedSlots
  <2>2. \A i \in Slots : cachedFragment'[i] # NoFragment =>
           i \in CachedSlots \/ i = fragmentIdxToFetch
    BY <1>1, <1>2, <1>5 DEF FetchSucceeds
  <2>. QED  BY <1>1, <1>5, <2>1, <2>2 DEF FetchSucceeds, RingConsistent
<1>6. CASE UpdateTSAfterFetch
  <2>1. n \in 0 .. maxCachedFragmentsPerTrack - 1
    BY <1>1, <1>6, CapacityAssumption
       DEF UpdateTSAfterFetch, RingInv, HoldsFreeSlot
  <2>2. fragmentIdxToFetch' = SlotAfter(fragmentIdxToInject', n')
    BY <1>1, <1>6, <2>1, IncrementSlotAfter DEF UpdateTSAfterFetch
  <2>3. CachedSlots \cup {fragmentIdxToFetch} \subseteq CachedSlots'
    BY <1>1, <1>6, <2>1 DEF UpdateTSAfterFetch, CachedSlots
  <2>. QED
    BY <1>2, <1>6, <2>2, <2>3 DEF UpdateTSAfterFetch, RingConsistent
<1>7. CASE ExamineHead
  <2>1. CachedSlots' = CachedSlots
    BY <1>7 DEF ExamineHead, CachedSlots
  <2>2. fragmentIdxToInject \in CachedSlots
    BY <1>3, <1>7 DEF ExamineHead, RingInv, HoldsFragment
  <2>3. \A i \in Slots :
           i # fragmentIdxToInject => cachedFragment'[i] = cachedFragment[i]
    BY <1>1, <1>7 DEF ExamineHead
  <2>. QED
    BY <1>1, <1>2, <1>7, <2>1, <2>2, <2>3
       DEF ExamineHead, RingConsistent, fetcher
<1>8. CASE UpdateTSAfterInject
  <2>1. n \in 1 .. maxCachedFragmentsPerTrack
    BY <1>1, <1>8 DEF UpdateTSAfterInject, HeadSlotEmptied, RingInv, HoldsFragment
  <2>2. fragmentIdxToFetch' = SlotAfter(fragmentIdxToInject', n')
    BY <1>1, <1>8, <2>1, SlotAfterIncrement DEF UpdateTSAfterInject, HeadSlotEmptied
  <2>3. ASSUME NEW i \in CachedSlots, i # fragmentIdxToInject
        PROVE  i \in CachedSlots'
    <3>1. PICK k \in 0 .. n - 1 : i = SlotAfter(fragmentIdxToInject, k)
      BY DEF CachedSlots
    <3>2. k \in 1 .. maxCachedFragmentsPerTrack
      BY <1>0, <2>1, <2>3, <3>1, CapacityAssumption
    <3>3. i = SlotAfter(Increment(fragmentIdxToInject), k - 1)
      BY <1>1, <3>1, <3>2, SlotAfterIncrement
    <3>4. k - 1 \in 0 .. n - 1 - 1
      BY <2>1, <3>1, <3>2
    <3>. QED  BY <1>8, <3>3, <3>4 DEF UpdateTSAfterInject, HeadSlotEmptied, CachedSlots
  <2>4. \A i \in Slots : cachedFragment'[i] # NoFragment =>
           i # fragmentIdxToInject /\ cachedFragment[i] # NoFragment
    BY <1>1, <1>8 DEF UpdateTSAfterInject, HeadSlotEmptied
  <2>5. fetchPc = "update" => fetchPc' = "update"
    BY <1>8 DEF UpdateTSAfterInject, HeadSlotEmptied, SignalFragmentInjected
  <2>. QED
    BY <1>2, <1>8, <2>2, <2>3, <2>4, <2>5
       DEF UpdateTSAfterInject, HeadSlotEmptied, RingConsistent
<1>. QED  BY <1>4, <1>5, <1>6, <1>7, <1>8, RingSteps

\* The slot found free stays free: only the collector fills one.
LEMMA HoldsFreeSlotStep ==
    ASSUME "fragmentInjected" \notin SpuriousWakeups, RingInv, [Next]_vars
    PROVE  HoldsFreeSlot'
<1>. USE DEF ring, flags, fetcher, injector, player, history, HoldsFreeSlot
<1>0. TypeOK /\ CountInRange /\ HoldsFreeSlot
  BY DEF RingInv
<1>. USE DEF TypeOK, CountInRange
<1>1. CASE FetchLoop
  BY <1>1, <1>0 DEF FetchLoop
<1>2. CASE FetchLoopExit
  BY <1>2, <1>0 DEF FetchLoopExit, SignalFragmentFetched
<1>3. CASE RefreshPlaylist
  BY <1>3, <1>0 DEF RefreshPlaylist
<1>4. CASE EnterWaitForFree
  BY <1>4, <1>0 DEF EnterWaitForFree
<1>5. CASE PlayStartTimeout
  BY <1>5, <1>0 DEF PlayStartTimeout
<1>6. CASE LockFree
  BY <1>6, <1>0, CapacityAssumption DEF LockFree, RingFull
<1>7. CASE FreeWaitTimeout
  BY <1>7, <1>0 DEF FreeWaitTimeout
<1>8. CASE FreeWoken
  BY <1>8, <1>0 DEF FreeWoken
<1>9. CASE FetchRefused
  BY <1>9, <1>0 DEF FetchRefused
<1>10. CASE FetchNullUri
  BY <1>10, <1>0 DEF FetchNullUri
<1>11. CASE FetchFails
  BY <1>11, <1>0 DEF FetchFails
<1>12. CASE FetchSucceeds
  BY <1>12, <1>0 DEF FetchSucceeds
<1>13. CASE UpdateTSAfterFetch
  BY <1>13, <1>0 DEF UpdateTSAfterFetch, SignalFragmentFetched
<1>14. CASE InjectLoop
  BY <1>14, <1>0 DEF InjectLoop
<1>15. CASE BlockUntilGstreamerWantsData
  BY <1>15, <1>0 DEF BlockUntilGstreamerWantsData
<1>16. CASE WaitForCachedFragmentAvailable
  BY <1>16, <1>0 DEF WaitForCachedFragmentAvailable, AfterCachedWait, CachedFragmentAvailable
<1>17. CASE CachedWoken
  BY <1>17, <1>0 DEF CachedWoken, AfterCachedWait, CachedFragmentAvailable
<1>18. CASE NoFragmentToInject
  BY <1>18, <1>0 DEF NoFragmentToInject
<1>19. CASE ExamineHead
  BY <1>19, <1>0 DEF ExamineHead
<1>20. CASE ProcessDiscontinuityReturns
  BY <1>20, <1>0 DEF ProcessDiscontinuityReturns
<1>21. CASE InjectFragmentInternal
  BY <1>21, <1>0 DEF InjectFragmentInternal
<1>22. CASE InjectFragmentDiscarded
  BY <1>22, <1>0 DEF InjectFragmentDiscarded
<1>23. CASE UpdateTSAfterInject
  BY <1>23, <1>0, CapacityAssumption DEF UpdateTSAfterInject, HeadSlotEmptied, SignalFragmentInjected
<1>24. CASE InjectLoopExit
  BY <1>24, <1>0 DEF InjectLoopExit
<1>25. CASE AbortWaitForCachedFragment
  BY <1>25, <1>0 DEF AbortWaitForCachedFragment, SignalInjector, SignalStateCond, SignalFragmentFetched
<1>26. CASE StopTrackInjection
  BY <1>26, <1>0 DEF StopTrackInjection
<1>27. CASE StopInjectLoop
  BY <1>27, <1>0 DEF StopInjectLoop
<1>28. CASE StartInjection
  BY <1>28, <1>0 DEF StartInjection
<1>29. CASE DisableDownloads
  BY <1>29, <1>0 DEF DisableDownloads
<1>30. CASE AbortWaitForCachedAndFreeFragment
  BY <1>30, <1>0 DEF AbortWaitForCachedAndFreeFragment, SignalInjector, SignalStateCond, SignalFragmentFetched, SignalFragmentInjected, SignalPlayStart
<1>31. CASE JoinCollector
  BY <1>31, <1>0 DEF JoinCollector
<1>32. CASE StopTrackDownloads
  BY <1>32, <1>0 DEF StopTrackDownloads
<1>33. CASE ResumeTrackDownloads
  BY <1>33, <1>0 DEF ResumeTrackDownloads
<1>34. CASE NotifyFirstFrameReceived
  BY <1>34, <1>0 DEF NotifyFirstFrameReceived, SignalPlayStart
<1>35. CASE UNCHANGED vars
  BY <1>0, <1>35 DEF vars
<1>36. CASE EnterDiscontinuity
  BY <1>36, <1>0 DEF EnterDiscontinuity
<1>37. CASE OtherTrackSignals
  BY <1>37, <1>0 DEF OtherTrackSignals, SignalStateCond
<1>38. CASE SpuriousWakeup
  BY <1>38, <1>0, SpuriousWakeupStep DEF SignalFragmentFetched, SignalStateCond
<1>. QED
  BY <1>1, <1>2, <1>3, <1>4, <1>5, <1>6, <1>7, <1>8, <1>9, <1>10, <1>11, <1>12, <1>13, <1>14, <1>15, <1>16, <1>17, <1>18, <1>19, <1>20, <1>21, <1>22, <1>23, <1>24, <1>25, <1>26, <1>27, <1>28, <1>29, <1>30, <1>31, <1>32, <1>33, <1>34, <1>35,
     <1>36, <1>37, <1>38
     DEF Next, Step, RunFetchLoop, RunInjectLoop, Player, Teardown, Sink

\* The fragment found at the head stays there: only the injector takes one.
LEMMA HoldsFragmentStep ==
    ASSUME "fragmentInjected" \notin SpuriousWakeups, RingInv, [Next]_vars
    PROVE  HoldsFragment'
<1>. USE DEF ring, flags, fetcher, injector, player, history, HoldsFragment
<1>0. TypeOK /\ CountInRange /\ HoldsFragment
  BY DEF RingInv
<1>. USE DEF FragmentToInject
<1>1. CASE FetchLoop
  BY <1>1, <1>0 DEF FetchLoop
<1>2. CASE FetchLoopExit
  BY <1>2, <1>0 DEF FetchLoopExit, SignalFragmentFetched
<1>3. CASE RefreshPlaylist
  BY <1>3, <1>0 DEF RefreshPlaylist
<1>4. CASE EnterWaitForFree
  BY <1>4, <1>0 DEF EnterWaitForFree
<1>5. CASE PlayStartTimeout
  BY <1>5, <1>0 DEF PlayStartTimeout
<1>6. CASE LockFree
  BY <1>6, <1>0 DEF LockFree, RingFull
<1>7. CASE FreeWaitTimeout
  BY <1>7, <1>0 DEF FreeWaitTimeout
<1>8. CASE FreeWoken
  BY <1>8, <1>0 DEF FreeWoken
<1>9. CASE FetchRefused
  BY <1>9, <1>0 DEF FetchRefused
<1>10. CASE FetchNullUri
  BY <1>10, <1>0 DEF FetchNullUri
<1>11. CASE FetchFails
  BY <1>11, <1>0 DEF FetchFails
<1>12. CASE FetchSucceeds
  <2>1. SUFFICES ASSUME numberOfFragmentsCached > 0
                 PROVE  FragmentToInject' = FragmentToInject
    BY <1>0, <1>12 DEF FetchSucceeds
  <2>2. SlotAfter(fragmentIdxToInject, 0) = fragmentIdxToInject
    BY <1>0, CapacityAssumption DEF TypeOK, SlotAfter, Slots
  <2>3. fragmentIdxToInject \in CachedSlots
    BY <1>0, <2>1, <2>2 DEF TypeOK, CachedSlots
  <2>4. fragmentIdxToFetch # fragmentIdxToInject
    BY <1>12, <2>3, FetchSlotOutside DEF FetchSucceeds, RingInv, HoldsFreeSlot
  <2>. QED  BY <1>0, <1>12, <2>4 DEF FetchSucceeds, TypeOK
<1>13. CASE UpdateTSAfterFetch
  BY <1>13, <1>0 DEF UpdateTSAfterFetch, SignalFragmentFetched, TypeOK
<1>14. CASE InjectLoop
  BY <1>14, <1>0 DEF InjectLoop
<1>15. CASE BlockUntilGstreamerWantsData
  BY <1>15, <1>0 DEF BlockUntilGstreamerWantsData
<1>16. CASE WaitForCachedFragmentAvailable
  BY <1>16, <1>0 DEF WaitForCachedFragmentAvailable, AfterCachedWait, CachedFragmentAvailable, TypeOK
<1>17. CASE CachedWoken
  BY <1>17, <1>0 DEF CachedWoken, AfterCachedWait, CachedFragmentAvailable, TypeOK
<1>18. CASE NoFragmentToInject
  BY <1>18, <1>0 DEF NoFragmentToInject
<1>19. CASE ExamineHead
  <2>1. FragmentToInject'.fragment = FragmentToInject.fragment
    BY <1>0, <1>19 DEF ExamineHead, TypeOK, CachedFragments
  <2>. QED  BY <1>0, <1>19, <2>1 DEF ExamineHead
<1>20. CASE ProcessDiscontinuityReturns
  BY <1>20, <1>0 DEF ProcessDiscontinuityReturns
<1>21. CASE InjectFragmentInternal
  BY <1>21, <1>0 DEF InjectFragmentInternal
<1>22. CASE InjectFragmentDiscarded
  BY <1>22, <1>0 DEF InjectFragmentDiscarded
<1>23. CASE UpdateTSAfterInject
  BY <1>23, <1>0 DEF UpdateTSAfterInject, HeadSlotEmptied, SignalFragmentInjected
<1>24. CASE InjectLoopExit
  BY <1>24, <1>0 DEF InjectLoopExit
<1>25. CASE AbortWaitForCachedFragment
  BY <1>25, <1>0 DEF AbortWaitForCachedFragment, SignalInjector, SignalStateCond, SignalFragmentFetched
<1>26. CASE StopTrackInjection
  BY <1>26, <1>0 DEF StopTrackInjection
<1>27. CASE StopInjectLoop
  BY <1>27, <1>0 DEF StopInjectLoop
<1>28. CASE StartInjection
  BY <1>28, <1>0 DEF StartInjection
<1>29. CASE DisableDownloads
  BY <1>29, <1>0 DEF DisableDownloads
<1>30. CASE AbortWaitForCachedAndFreeFragment
  BY <1>30, <1>0 DEF AbortWaitForCachedAndFreeFragment, SignalInjector, SignalStateCond, SignalFragmentFetched, SignalFragmentInjected, SignalPlayStart
<1>31. CASE JoinCollector
  BY <1>31, <1>0 DEF JoinCollector
<1>32. CASE StopTrackDownloads
  BY <1>32, <1>0 DEF StopTrackDownloads
<1>33. CASE ResumeTrackDownloads
  BY <1>33, <1>0 DEF ResumeTrackDownloads
<1>34. CASE NotifyFirstFrameReceived
  BY <1>34, <1>0 DEF NotifyFirstFrameReceived, SignalPlayStart
<1>35. CASE UNCHANGED vars
  BY <1>0, <1>35 DEF vars
<1>36. CASE EnterDiscontinuity
  BY <1>36, <1>0 DEF EnterDiscontinuity
<1>37. CASE OtherTrackSignals
  BY <1>37, <1>0 DEF OtherTrackSignals, SignalStateCond
<1>38. CASE SpuriousWakeup
  BY <1>38, <1>0, SpuriousWakeupStep DEF SignalFragmentFetched, SignalStateCond
<1>. QED
  BY <1>1, <1>2, <1>3, <1>4, <1>5, <1>6, <1>7, <1>8, <1>9, <1>10, <1>11, <1>12, <1>13, <1>14, <1>15, <1>16, <1>17, <1>18, <1>19, <1>20, <1>21, <1>22, <1>23, <1>24, <1>25, <1>26, <1>27, <1>28, <1>29, <1>30, <1>31, <1>32, <1>33, <1>34, <1>35,
     <1>36, <1>37, <1>38
     DEF Next, Step, RunFetchLoop, RunInjectLoop, Player, Teardown, Sink

-----------------------------------------------------------------------------
(* The theorems.                                                             *)

\* The ring invariant holds in every reachable state.
LEMMA RingInvCorrect ==
    ASSUME "fragmentInjected" \notin SpuriousWakeups
    PROVE  Spec => []RingInv
<1>1. RingInv /\ [Next]_vars => RingInv'
  BY TypeOKStep, CountStep, RingConsistentStep, HoldsFreeSlotStep,
     HoldsFragmentStep DEF RingInv
<1>. QED  BY <1>1, RingInvInit, PTL DEF Spec

\* Every variable keeps its type: the ring's indices never leave the array
\* (streamabstraction.cpp:180-184, 254-258).
THEOREM TypeCorrect ==
    ASSUME "fragmentInjected" \notin SpuriousWakeups
    PROVE  Spec => []TypeOK
<1>1. RingInv => TypeOK
  BY DEF RingInv
<1>. QED  BY <1>1, RingInvCorrect, PTL

\* The assertion of UpdateTSAfterFetch (streamabstraction.cpp:225) never fails
\* and UpdateTSAfterInject never counts below zero.
THEOREM CountCorrect ==
    ASSUME "fragmentInjected" \notin SpuriousWakeups
    PROVE  Spec => []CountInRange
<1>1. RingInv => CountInRange
  BY DEF RingInv
<1>. QED  BY <1>1, RingInvCorrect, PTL

\* The collector's index is exactly numberOfFragmentsCached slots ahead of the
\* injector's and nothing is cached outside the slots between them.
THEOREM RingCorrect ==
    ASSUME "fragmentInjected" \notin SpuriousWakeups
    PROVE  Spec => []RingConsistent
<1>1. RingInv => RingConsistent
  BY DEF RingInv
<1>. QED  BY <1>1, RingInvCorrect, PTL

\* The ring stays consistent as a whole, whatever the interleaving of the
\* collector, the injector and the player.
THEOREM RingOKCorrect ==
    ASSUME "fragmentInjected" \notin SpuriousWakeups
    PROVE  Spec => []RingOK
<1>1. RingInv => RingOK
  BY DEF RingInv, RingOK
<1>. QED  BY <1>1, RingInvCorrect, PTL

\* No download starts into a slot whose fragment was not injected yet.
THEOREM FetchSlotCorrect ==
    ASSUME "fragmentInjected" \notin SpuriousWakeups
    PROVE  Spec => []FetchSlotFree
<1>. QED  BY RingInvImpliesFetchSlotFree, RingInvCorrect, PTL

-----------------------------------------------------------------------------
\* The end of the stream: when the sink hears of it, nothing is left to inject.

\* The playlist ends only once, with everything asked for.
CollectorAtEnd ==
    eosReached => /\ nextFragment > NumFragments /\ uriNull
                  /\ fetchPc \in {"loop", "done"}

\* An injector that was woken, or gave up, with nothing in the ring was aborted
\* or has a collector that adds nothing more.
WokenForReason ==
    LET over == abort \/ abortInject \/ eosReached \/ fetchPc = "done"
    IN  /\ injectPc = "cachedWoken" /\ numberOfFragmentsCached = 0 => over
        /\ injectPc = "noFragment" =>
             over /\ (abort \/ abortInject \/ numberOfFragmentsCached = 0)

EosInv == RingInv /\ CollectorAtEnd /\ WokenForReason

\* A new track has an empty ring and a playlist to read.
LEMMA EosInvInit == Init => EosInv
<1>. SUFFICES ASSUME Init PROVE EosInv
  OBVIOUS
<1>. QED
  BY RingInvInit DEF Init, EosInv, CollectorAtEnd, WokenForReason

\* The collector that found the end of the playlist asks for nothing more.
LEMMA CollectorAtEndStep ==
    ASSUME "fragmentInjected" \notin SpuriousWakeups, CollectorAtEnd, [Next]_vars PROVE CollectorAtEnd'
<1>. USE FlagsAssumption DEF CollectorAtEnd, flags, fetcher
<1>1. CASE RunFetchLoop
  BY <1>1 DEF RunFetchLoop, FetchLoop, FetchLoopExit, RefreshPlaylist, EnterWaitForFree,
         PlayStartTimeout, LockFree, FreeWaitTimeout, FreeWoken, FetchRefused,
         FetchNullUri, FetchFails, FetchSucceeds, UpdateTSAfterFetch
<1>2. CASE RunInjectLoop
  BY <1>2 DEF RunInjectLoop, InjectLoop, BlockUntilGstreamerWantsData,
         WaitForCachedFragmentAvailable, CachedWoken,
         NoFragmentToInject, ExamineHead, EnterDiscontinuity, ProcessDiscontinuityReturns,
         InjectFragmentInternal, InjectFragmentDiscarded, UpdateTSAfterInject,
         InjectLoopExit, SignalFragmentInjected
<1>3. CASE Player
  BY <1>3 DEF Player, Teardown, AbortWaitForCachedFragment,
         StopTrackInjection, StopInjectLoop, StartInjection, DisableDownloads,
         AbortWaitForCachedAndFreeFragment, JoinCollector, SignalFragmentInjected,
         SignalPlayStart
<1>4. CASE Sink
  BY <1>4 DEF Sink, StopTrackDownloads, ResumeTrackDownloads, NotifyFirstFrameReceived,
         SignalPlayStart
<1>5. CASE UNCHANGED vars
  BY <1>5 DEF vars
<1>6. CASE OtherTrackSignals \/ SpuriousWakeup
  BY <1>6, SpuriousWakeupStep
     DEF OtherTrackSignals, SignalFragmentFetched, SignalStateCond
<1>. QED  BY <1>1, <1>2, <1>3, <1>4, <1>5, <1>6 DEF Next, Step

\* A signal is only sent with a fragment, an abort or the end behind it.
LEMMA WokenForReasonStep ==
    ASSUME SpuriousWakeups \subseteq {"mStateCond"}, EosInv, [Next]_vars PROVE WokenForReason'
<1>0. /\ numberOfFragmentsCached \in Nat /\ WokenForReason /\ CollectorAtEnd
  BY DEF EosInv, RingInv, TypeOK
<1>. USE DEF WokenForReason, ring, flags, fetcher, injector
<1>1. CASE RunFetchLoop
  <2>1. CASE UpdateTSAfterFetch
    <3>1. /\ fetchPc = "update" /\ ~eosReached
          /\ UNCHANGED <<abort, abortInject, eosReached>>
      BY <1>0, <2>1 DEF UpdateTSAfterFetch, CollectorAtEnd
    <3>2. numberOfFragmentsCached' # 0
      BY <1>0, <2>1 DEF UpdateTSAfterFetch
    <3>3. injectPc' = "noFragment" => injectPc = "noFragment"
      BY <2>1 DEF UpdateTSAfterFetch, SignalFragmentFetched
    <3>. QED  BY <1>0, <3>1, <3>2, <3>3
  <2>2. CASE FetchLoopExit
    BY <1>0, <2>2 DEF FetchLoopExit, SignalFragmentFetched
  <2>3. CASE FetchNullUri
    BY <1>0, <2>3 DEF FetchNullUri, CollectorAtEnd
  <2>4. CASE ~UpdateTSAfterFetch /\ ~FetchLoopExit /\ ~FetchNullUri
    <3>1. /\ UNCHANGED <<numberOfFragmentsCached, abort, abortInject, eosReached, injectPc>>
          /\ fetchPc # "done"
      BY <1>1, <2>4
         DEF RunFetchLoop, FetchLoop, RefreshPlaylist, EnterWaitForFree,
             PlayStartTimeout, LockFree, FreeWaitTimeout, FreeWoken, FetchRefused,
             FetchFails, FetchSucceeds
    <3>. QED  BY <1>0, <3>1
  <2>. QED  BY <2>1, <2>2, <2>3, <2>4
<1>2. CASE RunInjectLoop
  BY <1>0, <1>2 DEF RunInjectLoop, InjectLoop, BlockUntilGstreamerWantsData,
         WaitForCachedFragmentAvailable, CachedWoken, AfterCachedWait,
         CachedFragmentAvailable,
         NoFragmentToInject, ExamineHead, EnterDiscontinuity, ProcessDiscontinuityReturns,
         InjectFragmentInternal, InjectFragmentDiscarded, UpdateTSAfterInject,
         InjectLoopExit
<1>3. CASE Player
  BY <1>0, <1>3 DEF Player, Teardown, AbortWaitForCachedFragment,
         StopTrackInjection, StopInjectLoop, StartInjection, DisableDownloads,
         AbortWaitForCachedAndFreeFragment, JoinCollector, SignalFragmentInjected,
         SignalPlayStart, SignalFragmentFetched
<1>4. CASE Sink
  BY <1>0, <1>4 DEF Sink, StopTrackDownloads, ResumeTrackDownloads,
         NotifyFirstFrameReceived, SignalPlayStart
<1>5. CASE UNCHANGED vars
  BY <1>0, <1>5 DEF vars
<1>6. CASE OtherTrackSignals \/ SpuriousWakeup
  <2>1. injectPc' = injectPc \/ injectPc' = SignalStateCond(injectPc)
    BY <1>6 DEF OtherTrackSignals, SpuriousWakeup
  <2>2. UNCHANGED <<numberOfFragmentsCached, abort, abortInject, eosReached, fetchPc>>
    BY <1>6 DEF OtherTrackSignals, SpuriousWakeup
  <2>. QED  BY <1>0, <2>1, <2>2 DEF SignalStateCond
<1>. QED  BY <1>1, <1>2, <1>3, <1>4, <1>5, <1>6 DEF Next, Step

\* The end of the stream is announced when every fragment was asked for and none
\* is left in the ring (RunInjectLoop, InjectFragment, SendEosForTrack).
THEOREM EosCorrect ==
    ASSUME SpuriousWakeups \subseteq {"mStateCond"}
    PROVE  Spec => EosAfterLastFragment
<1>1. EosInv /\ [Next]_vars => EosInv'
  BY TypeOKStep, CountStep, RingConsistentStep, HoldsFreeSlotStep, HoldsFragmentStep,
     CollectorAtEndStep, WokenForReasonStep DEF RingInv, EosInv
<1>2. ASSUME EosInv, [Next]_vars, eosSent', ~eosSent, ~abort, ~abortInject,
             injectPc # "head"
      PROVE  nextFragment > NumFragments /\ RingFragments = {}
  <2>1. NoFragmentToInject
    BY <1>2
       DEF history, vars, OtherTrackSignals, SpuriousWakeup, Next, Step, RunFetchLoop, FetchLoop, FetchLoopExit,
           RefreshPlaylist, EnterWaitForFree, PlayStartTimeout, LockFree,
           FreeWaitTimeout, FreeWoken, FetchRefused, FetchNullUri, FetchFails,
           FetchSucceeds, UpdateTSAfterFetch, RunInjectLoop, InjectLoop,
           BlockUntilGstreamerWantsData, WaitForCachedFragmentAvailable, CachedWoken,
           ExamineHead, EnterDiscontinuity, ProcessDiscontinuityReturns, InjectFragmentInternal,
           InjectFragmentDiscarded, UpdateTSAfterInject, InjectLoopExit, Player,
           Teardown, AbortWaitForCachedFragment, StopTrackInjection, StopInjectLoop,
           StartInjection, DisableDownloads, AbortWaitForCachedAndFreeFragment,
           JoinCollector, Sink, StopTrackDownloads, ResumeTrackDownloads,
           NotifyFirstFrameReceived
  <2>2. eosReached /\ nextFragment > NumFragments /\ fetchPc # "update"
    BY <1>2, <2>1 DEF NoFragmentToInject, EosInv, CollectorAtEnd
  <2>3. numberOfFragmentsCached = 0
    BY <1>2, <2>1 DEF NoFragmentToInject, EosInv, WokenForReason
  <2>4. CachedSlots = {}
    BY <2>3 DEF CachedSlots
  <2>5. \A i \in Slots : cachedFragment[i] = NoFragment
    BY <1>2, <2>2, <2>4 DEF EosInv, RingInv, RingConsistent
  <2>. QED  BY <2>2, <2>5 DEF RingFragments, NoFragment
<1>3. EosInv /\ [Next]_vars
        => [(eosSent' /\ ~eosSent /\ ~abort /\ ~abortInject /\ injectPc # "head") =>
              /\ nextFragment > NumFragments
              /\ RingFragments = {}]_vars
  BY <1>2
<1>. QED  BY <1>1, <1>3, EosInvInit, PTL DEF Spec, EosAfterLastFragment

-----------------------------------------------------------------------------
(* What becomes of the fragments.                                            *)

\* A fragment whose slot is about to be emptied has been injected or given up.
HeadAccounted ==
    injectPc \in {"update", "lastUpdate"} =>
        FragmentToInject.fragment \in InjectedFragments \cup discarded

DataInv == RingInv /\ HeadAccounted /\ NothingLost

data == <<cachedFragment, nextFragment, injected, discarded, skipped>>

\* Only these six steps touch a fragment; the others neither do, nor bring the
\* injector to the end of one.
LEMMA DataSteps ==
    ASSUME "fragmentInjected" \notin SpuriousWakeups, [Next]_vars
    PROVE  \/ /\ UNCHANGED data
              /\ injectPc' \in {"update", "lastUpdate"} =>
                   /\ injectPc \in {"update", "lastUpdate"}
                   /\ UNCHANGED fragmentIdxToInject
           \/ FetchFails \/ FetchSucceeds \/ ExamineHead
           \/ InjectFragmentInternal \/ InjectFragmentDiscarded
           \/ UpdateTSAfterInject
<1>. DEFINE Quiet == /\ UNCHANGED data
                     /\ injectPc' \in {"update", "lastUpdate"} =>
                          /\ injectPc \in {"update", "lastUpdate"}
                          /\ UNCHANGED fragmentIdxToInject
<1>. USE DEF data, ring, fetcher, injector, history
<1>1. RunFetchLoop => Quiet \/ FetchFails \/ FetchSucceeds
  BY DEF RunFetchLoop, FetchLoop, FetchLoopExit, RefreshPlaylist, EnterWaitForFree,
         PlayStartTimeout, LockFree, FreeWaitTimeout, FreeWoken, FetchRefused,
         FetchNullUri, UpdateTSAfterFetch, SignalFragmentFetched
<1>2. RunInjectLoop => Quiet \/ ExamineHead \/ InjectFragmentInternal
                         \/ InjectFragmentDiscarded \/ UpdateTSAfterInject
  BY DEF RunInjectLoop, InjectLoop, BlockUntilGstreamerWantsData,
         WaitForCachedFragmentAvailable, AfterCachedWait, CachedWoken,
         NoFragmentToInject, EnterDiscontinuity, ProcessDiscontinuityReturns, InjectLoopExit
<1>3. Player => Quiet
  BY DEF Player, Teardown, SignalInjector, SignalStateCond, SignalFragmentFetched,
         AbortWaitForCachedFragment,
         StopTrackInjection, StopInjectLoop, StartInjection, DisableDownloads,
         AbortWaitForCachedAndFreeFragment, JoinCollector
<1>4. Sink => Quiet
  BY DEF Sink, StopTrackDownloads, ResumeTrackDownloads, NotifyFirstFrameReceived
<1>5. UNCHANGED vars => Quiet
  BY DEF vars
<1>6. OtherTrackSignals \/ SpuriousWakeup => Quiet
  BY SpuriousWakeupStep DEF OtherTrackSignals, SignalFragmentFetched, SignalStateCond
<1>. QED  BY <1>1, <1>2, <1>3, <1>4, <1>5, <1>6 DEF Next, Step

\* What the injector has at its head stays there while a download fills a slot.
LEMMA HeadSlotKeptByFetch ==
    ASSUME RingInv, FetchSucceeds, numberOfFragmentsCached > 0
    PROVE  FragmentToInject' = FragmentToInject
<1>1. /\ cachedFragment \in [Slots -> CachedFragments]
      /\ fragmentIdxToFetch \in Slots /\ fragmentIdxToInject \in Slots
      /\ numberOfFragmentsCached \in Nat
  BY DEF RingInv, TypeOK
<1>2. numberOfFragmentsCached < maxCachedFragmentsPerTrack
  BY DEF FetchSucceeds, RingInv, HoldsFreeSlot
<1>3. fragmentIdxToInject \in CachedSlots
  <2>1. SlotAfter(fragmentIdxToInject, 0) = fragmentIdxToInject
    BY <1>1, CapacityAssumption DEF SlotAfter, Slots
  <2>2. 0 \in 0 .. numberOfFragmentsCached - 1
    BY <1>1
  <2>. QED  BY <2>1, <2>2 DEF CachedSlots
<1>4. fragmentIdxToFetch # fragmentIdxToInject
  BY <1>2, <1>3, FetchSlotOutside
<1>. QED  BY <1>1, <1>4 DEF FetchSucceeds, FragmentToInject

\* Nothing was downloaded yet.
LEMMA DataInvInit == Init => DataInv
<1>. SUFFICES ASSUME Init PROVE DataInv
  OBVIOUS
<1>1. HeadAccounted
  BY DEF Init, HeadAccounted
<1>2. NothingLost
  BY DEF Init, NothingLost
<1>. QED  BY <1>1, <1>2, RingInvInit DEF DataInv

\* The injector records what became of its head before it empties the slot.
LEMMA HeadAccountedStep ==
    ASSUME "fragmentInjected" \notin SpuriousWakeups, DataInv, [Next]_vars
    PROVE  HeadAccounted'
<1>. USE DEF HeadAccounted, InjectedFragments
<1>0. RingInv /\ HeadAccounted /\ injected \in Seq(Fragments)
  BY DEF DataInv, RingInv, TypeOK
<1>1. CASE UNCHANGED data /\ (injectPc' \in {"update", "lastUpdate"} =>
                                /\ injectPc \in {"update", "lastUpdate"}
                                /\ UNCHANGED fragmentIdxToInject)
  BY <1>0, <1>1 DEF data, FragmentToInject
<1>2. CASE FetchFails
  BY <1>0, <1>2 DEF FetchFails, ring, injector, FragmentToInject
<1>3. CASE FetchSucceeds
  <2>1. injectPc \in {"update", "lastUpdate"} => numberOfFragmentsCached > 0
    BY <1>0 DEF RingInv, HoldsFragment
  <2>. QED
    BY <1>0, <1>3, <2>1, HeadSlotKeptByFetch DEF FetchSucceeds, injector
<1>4. CASE ExamineHead
  BY <1>4 DEF ExamineHead
<1>5. CASE InjectFragmentInternal
  <2>1. FragmentToInject' = FragmentToInject
    BY <1>5 DEF InjectFragmentInternal, ring, FragmentToInject
  <2>2. /\ injected'[Len(injected) + 1] = FragmentToInject.fragment
        /\ Len(injected) + 1 \in 1 .. Len(injected')
    BY <1>0, <1>5 DEF InjectFragmentInternal
  <2>. QED  BY <2>1, <2>2
<1>6. CASE InjectFragmentDiscarded
  BY <1>6 DEF InjectFragmentDiscarded, ring, FragmentToInject
<1>7. CASE UpdateTSAfterInject
  BY <1>7 DEF UpdateTSAfterInject
<1>. QED  BY <1>1, <1>2, <1>3, <1>4, <1>5, <1>6, <1>7, DataSteps

\* A downloaded fragment moves from a slot to the sink or to those given up.
LEMMA NothingLostStep ==
    ASSUME "fragmentInjected" \notin SpuriousWakeups, DataInv, [Next]_vars
    PROVE  NothingLost'
<1>0. /\ RingInv /\ NothingLost /\ HeadAccounted
      /\ injected \in Seq(Fragments) /\ nextFragment \in Nat
      /\ cachedFragment \in [Slots -> CachedFragments]
      /\ fragmentIdxToFetch \in Slots /\ fragmentIdxToInject \in Slots
  BY FragmentsAssumption DEF DataInv, RingInv, TypeOK
<1>1. CASE UNCHANGED data
  BY <1>0, <1>1 DEF data, NothingLost, RingFragments, InjectedFragments
<1>2. CASE FetchFails
  BY <1>0, <1>2 DEF FetchFails, ring, NothingLost, RingFragments, InjectedFragments
<1>3. CASE FetchSucceeds
  <2>1. cachedFragment[fragmentIdxToFetch] = NoFragment
    BY <1>0, <1>3, RingInvImpliesFetchSlotFree DEF FetchSucceeds, FetchSlotFree
  <2>2. RingFragments \subseteq RingFragments'
    BY <1>0, <1>3, <2>1 DEF FetchSucceeds, RingFragments, NoFragment
  <2>3. nextFragment \in RingFragments' \cup skipped'
    <3>1. CASE nextFragment \in EmptyBodies
      BY <1>3, <3>1 DEF FetchSucceeds
    <3>2. CASE nextFragment \notin EmptyBodies
      <4>1. cachedFragment'[fragmentIdxToFetch].fragment = nextFragment
        BY <1>0, <1>3, <3>2 DEF FetchSucceeds
      <4>2. nextFragment # 0
        BY <1>0 DEF RingInv, TypeOK
      <4>. QED  BY <1>0, <4>1, <4>2 DEF RingFragments
    <3>. QED  BY <3>1, <3>2
  <2>4. /\ skipped \subseteq skipped' /\ nextFragment' = nextFragment + 1
        /\ UNCHANGED <<injected, discarded>>
    BY <1>3 DEF FetchSucceeds
  <2>5. InjectedFragments' = InjectedFragments
    BY <2>4 DEF InjectedFragments
  <2>. SUFFICES ASSUME NEW f \in 1 .. nextFragment
                PROVE  f \in (RingFragments \cup InjectedFragments
                              \cup discarded \cup skipped)'
    BY <1>0, <2>4 DEF NothingLost
  <2>6. CASE f = nextFragment
    BY <2>3, <2>6
  <2>7. CASE f # nextFragment
    <3>1. f \in 1 .. nextFragment - 1
      BY <1>0, <2>7
    <3>. QED  BY <1>0, <2>2, <2>4, <2>5, <3>1 DEF NothingLost
  <2>. QED  BY <2>6, <2>7
<1>4. CASE ExamineHead
  <2>1. \A i \in Slots : cachedFragment'[i].fragment = cachedFragment[i].fragment
    <3>1. \/ cachedFragment' = cachedFragment
          \/ cachedFragment' = [cachedFragment EXCEPT
                ![fragmentIdxToInject].discontinuity = FALSE]
      BY <1>4 DEF ExamineHead
    <3>2. CASE cachedFragment' = [cachedFragment EXCEPT
                 ![fragmentIdxToInject].discontinuity = FALSE]
      <4>1. cachedFragment[fragmentIdxToInject] \in CachedFragments
        BY <1>0
      <4>2. cachedFragment'[fragmentIdxToInject].fragment
              = cachedFragment[fragmentIdxToInject].fragment
        BY <1>0, <3>2, <4>1 DEF CachedFragments
      <4>. QED  BY <1>0, <3>2, <4>2
    <3>. QED  BY <3>1, <3>2
  <2>2. RingFragments' = RingFragments
    BY <2>1 DEF RingFragments
  <2>. QED
    BY <1>0, <1>4, <2>2 DEF ExamineHead, fetcher, history, NothingLost, InjectedFragments
<1>5. CASE InjectFragmentInternal
  <2>1. InjectedFragments \subseteq InjectedFragments'
    BY <1>0, <1>5 DEF InjectFragmentInternal, InjectedFragments
  <2>. QED
    BY <1>0, <1>5, <2>1 DEF InjectFragmentInternal, ring, fetcher, NothingLost, RingFragments
<1>6. CASE InjectFragmentDiscarded
  BY <1>0, <1>6 DEF InjectFragmentDiscarded, ring, fetcher, NothingLost, RingFragments,
                    InjectedFragments
<1>7. CASE UpdateTSAfterInject
  <2>1. RingFragments \ {FragmentToInject.fragment} \subseteq RingFragments'
    BY <1>0, <1>7 DEF UpdateTSAfterInject, HeadSlotEmptied, RingFragments, FragmentToInject
  <2>2. FragmentToInject.fragment \in InjectedFragments \cup discarded
    BY <1>0, <1>7 DEF UpdateTSAfterInject, HeadAccounted
  <2>3. UNCHANGED <<nextFragment, injected, discarded, skipped>>
    BY <1>7 DEF UpdateTSAfterInject, history
  <2>. QED  BY <1>0, <2>1, <2>2, <2>3 DEF NothingLost, InjectedFragments
<1>. QED  BY <1>1, <1>2, <1>3, <1>4, <1>5, <1>6, <1>7, DataSteps

\* Data is accounted for in every reachable state.
LEMMA DataInvCorrect ==
    ASSUME "fragmentInjected" \notin SpuriousWakeups
    PROVE  Spec => []DataInv
<1>1. RingInv /\ [Next]_vars => RingInv'
  BY TypeOKStep, CountStep, RingConsistentStep, HoldsFreeSlotStep,
     HoldsFragmentStep DEF RingInv
<1>2. DataInv /\ [Next]_vars => DataInv'
  BY <1>1, HeadAccountedStep, NothingLostStep DEF DataInv
<1>. QED  BY <1>2, DataInvInit, PTL DEF Spec

\* No fragment disappears between its download and the sink: the injector
\* empties the slot of one that was injected or given up, the collector fills
\* an empty one (streamabstraction.cpp:167-264).
THEOREM NothingLostCorrect ==
    ASSUME "fragmentInjected" \notin SpuriousWakeups
    PROVE  Spec => []NothingLost
<1>1. DataInv => NothingLost
  BY DEF DataInv
<1>. QED  BY <1>1, DataInvCorrect, PTL

-----------------------------------------------------------------------------
(* The track implements the FIFO of FragmentFifo.                            *)

\* What a download has just put in its slot is the last fragment asked for, or
\* nothing; of those before it the newest one can be named.
PendingIsLast ==
    fetchPc = "update" =>
        /\ nextFragment - 1 \in Fragments
        /\ \/ PendingFragments = {0} /\ nextFragment - 1 \in skipped
           \/ PendingFragments = {nextFragment - 1} /\ nextFragment - 1 \notin skipped
SkippedIsPast == skipped \subseteq 1 .. nextFragment - 1
NewestNamed ==
    SeenFragments = {} \/ \E f \in SeenFragments : \A g \in SeenFragments : g <= f

FifoInv == RingInv /\ PendingIsLast /\ SkippedIsPast /\ NewestNamed

\* The newest of a set is what is in it and not exceeded.
LEMMA NewestIs ==
    ASSUME NEW S \in SUBSET Nat, NEW f \in S, \A g \in S : g <= f
    PROVE  NewestOf(S) = f
<1>. DEFINE c == CHOOSE h \in S : \A g \in S : g <= h
<1>1. \E h \in S : \A g \in S : g <= h
  OBVIOUS
<1>2. c \in S /\ \A g \in S : g <= c
  BY <1>1, Zenon
<1>. HIDE DEF c
<1>3. c = f
  BY <1>2
<1>. QED  BY <1>3 DEF NewestOf, c

\* Steps that the FIFO does not see.
FifoQuiet ==
    /\ UNCHANGED <<ring, nextFragment, injected, skipped, LeavingSlot>>
    /\ fetchPc' = "update" <=> fetchPc = "update"

\* Only these seven steps move a fragment through the queue.
LEMMA FifoSteps ==
    ASSUME "fragmentInjected" \notin SpuriousWakeups, [Next]_vars
    PROVE  \/ FifoQuiet \/ FetchFails \/ FetchSucceeds \/ UpdateTSAfterFetch
           \/ ExamineHead \/ InjectFragmentInternal \/ InjectFragmentDiscarded
           \/ UpdateTSAfterInject
<1>. USE DEF FifoQuiet, LeavingSlot, fetcher, injector, history
<1>1. RunFetchLoop =>
        FifoQuiet \/ FetchFails \/ FetchSucceeds \/ UpdateTSAfterFetch
  BY DEF RunFetchLoop, FetchLoop, FetchLoopExit, RefreshPlaylist, EnterWaitForFree,
         PlayStartTimeout, LockFree, FreeWaitTimeout, FreeWoken, FetchRefused,
         FetchNullUri, SignalFragmentFetched
<1>2. RunInjectLoop =>
        \/ FifoQuiet \/ ExamineHead \/ InjectFragmentInternal
        \/ InjectFragmentDiscarded \/ UpdateTSAfterInject
  BY DEF RunInjectLoop, InjectLoop, BlockUntilGstreamerWantsData,
         WaitForCachedFragmentAvailable, AfterCachedWait, CachedWoken,
         NoFragmentToInject, EnterDiscontinuity, ProcessDiscontinuityReturns, InjectLoopExit
<1>3. Player => FifoQuiet
  BY DEF Player, Teardown, SignalInjector, SignalStateCond, SignalFragmentFetched, SignalFragmentInjected, SignalPlayStart,
         AbortWaitForCachedFragment,
         StopTrackInjection, StopInjectLoop, StartInjection, DisableDownloads,
         AbortWaitForCachedAndFreeFragment, JoinCollector
<1>4. Sink => FifoQuiet
  BY DEF Sink, StopTrackDownloads, ResumeTrackDownloads, NotifyFirstFrameReceived,
         SignalPlayStart
<1>5. UNCHANGED vars => FifoQuiet
  BY DEF vars
<1>6. OtherTrackSignals \/ SpuriousWakeup => FifoQuiet
  BY SpuriousWakeupStep DEF OtherTrackSignals, SignalFragmentFetched, SignalStateCond
<1>. QED  BY <1>1, <1>2, <1>3, <1>4, <1>5, <1>6 DEF Next, Step

\* An empty ring holds its fragments in order.
LEMMA FifoInvInit == Init => FifoInv
BY RingInvInit
   DEF Init, FifoInv, PendingIsLast, SkippedIsPast, NewestNamed, SeenFragments

\* The fragments seen do not change, or the pending one joins them as the newest.
LEMMA SeenStep ==
    ASSUME "fragmentInjected" \notin SpuriousWakeups, FifoInv, [Next]_vars
    PROVE  /\ PendingIsLast' /\ SkippedIsPast'
           /\ \/ /\ SeenFragments' = SeenFragments
                 /\ ~UpdateTSAfterFetch \/ PendingFragments = {0}
              \/ /\ UpdateTSAfterFetch
                 /\ PendingFragments = {nextFragment - 1}
                 /\ SeenFragments' = SeenFragments \cup {nextFragment - 1}
                 /\ \A g \in SeenFragments : g < nextFragment - 1
<1>0. /\ RingInv /\ PendingIsLast /\ SkippedIsPast
      /\ nextFragment \in 1 .. NumFragments + 1 /\ NumFragments \in Nat
      /\ cachedFragment \in [Slots -> CachedFragments]
      /\ fragmentIdxToFetch \in Slots /\ fragmentIdxToInject \in Slots
  BY FragmentsAssumption DEF FifoInv, RingInv, TypeOK
<1>. USE DEF PendingIsLast, SkippedIsPast, SeenFragments, PendingFragments, Fragments
<1>1. ASSUME UNCHANGED <<nextFragment, skipped, PendingFragments>>,
             fetchPc' = "update" <=> fetchPc = "update", ~UpdateTSAfterFetch
      PROVE  /\ PendingIsLast' /\ SkippedIsPast'
             /\ SeenFragments' = SeenFragments
  BY <1>0, <1>1
<1>2. CASE FifoQuiet
  <2>1. UNCHANGED <<nextFragment, skipped, PendingFragments>>
    BY <1>2 DEF FifoQuiet, ring
  <2>2. ~UpdateTSAfterFetch
    BY <1>0, <1>2 DEF FifoQuiet, UpdateTSAfterFetch
  <2>. QED  BY <1>1, <1>2, <2>1, <2>2 DEF FifoQuiet
<1>n. /\ 1 .. nextFragment + 1 - 1 = (1 .. nextFragment - 1) \cup {nextFragment}
      /\ nextFragment \notin 1 .. nextFragment - 1
      /\ nextFragment + 1 - 1 = nextFragment
  BY <1>0
<1>3. CASE FetchFails
  <2>1. fetchPc # "update" /\ fetchPc' # "update" /\ ~UpdateTSAfterFetch
    BY <1>3 DEF FetchFails, UpdateTSAfterFetch
  <2>2. \/ nextFragment' = nextFragment /\ skipped' = skipped
        \/ nextFragment' = nextFragment + 1 /\ skipped' = skipped \cup {nextFragment}
    BY <1>3 DEF FetchFails
  <2>3. CASE nextFragment' = nextFragment /\ skipped' = skipped
    BY <1>0, <2>1, <2>3
  <2>4. CASE nextFragment' = nextFragment + 1 /\ skipped' = skipped \cup {nextFragment}
    <3>1. SkippedIsPast'
      BY <1>0, <1>n, <2>4
    <3>2. SeenFragments' = SeenFragments
      BY <1>0, <1>n, <2>1, <2>4
    <3>. QED  BY <2>1, <3>1, <3>2
  <2>. QED  BY <2>2, <2>3, <2>4
<1>4. CASE FetchSucceeds
  <2>1. /\ fetchPc # "update" /\ fetchPc' = "update" /\ ~UpdateTSAfterFetch
        /\ nextFragment <= NumFragments /\ nextFragment' = nextFragment + 1
    BY <1>4 DEF FetchSucceeds, UpdateTSAfterFetch
  <2>2. CASE nextFragment \in EmptyBodies
    <3>1. PendingFragments' = {0} /\ skipped' = skipped \cup {nextFragment}
      BY <1>0, <1>4, <2>2 DEF FetchSucceeds, NoFragment
    <3>. QED  BY <1>0, <2>1, <3>1
  <2>3. CASE nextFragment \notin EmptyBodies
    <3>1. PendingFragments' = {nextFragment} /\ skipped' = skipped
      BY <1>0, <1>4, <2>3 DEF FetchSucceeds
    <3>2. SeenFragments' = SeenFragments
      BY <1>0, <1>n, <2>1, <3>1
    <3>3. nextFragment \notin skipped' /\ SkippedIsPast'
      BY <1>0, <1>n, <2>1, <3>1
    <3>4. nextFragment' - 1 = nextFragment /\ nextFragment \in Fragments
      BY <1>0, <2>1
    <3>5. PendingIsLast'
      BY <3>1, <3>3, <3>4
    <3>. QED  BY <2>1, <3>2, <3>3, <3>5
  <2>. QED  BY <2>2, <2>3
<1>5. CASE UpdateTSAfterFetch
  <2>1. fetchPc = "update" /\ fetchPc' # "update" /\ UNCHANGED <<nextFragment, skipped>>
    BY <1>5 DEF UpdateTSAfterFetch, history
  <2>2. CASE PendingFragments = {0} /\ nextFragment - 1 \in skipped
    BY <1>0, <1>5, <2>1, <2>2
  <2>3. CASE PendingFragments = {nextFragment - 1} /\ nextFragment - 1 \notin skipped
    BY <1>0, <1>5, <2>1, <2>3
  <2>. QED  BY <1>0, <2>1, <2>2, <2>3
<1>6. CASE ExamineHead
  <2>1. PendingFragments' = PendingFragments
    <3>1. \/ cachedFragment' = cachedFragment
          \/ cachedFragment' = [cachedFragment EXCEPT
                ![fragmentIdxToInject].discontinuity = FALSE]
      BY <1>6 DEF ExamineHead
    <3>2. cachedFragment[fragmentIdxToInject] \in CachedFragments
      BY <1>0
    <3>3. cachedFragment'[fragmentIdxToFetch].fragment
            = cachedFragment[fragmentIdxToFetch].fragment
      BY <1>0, <3>1, <3>2 DEF CachedFragments
    <3>. QED  BY <1>6, <3>3 DEF ExamineHead, fetcher
  <2>2. ~UpdateTSAfterFetch
    BY <1>0, <1>6 DEF ExamineHead, UpdateTSAfterFetch, fetcher
  <2>. QED  BY <1>1, <1>6, <2>1, <2>2 DEF ExamineHead, fetcher, history
<1>7. CASE InjectFragmentInternal
  <2>1. ~UpdateTSAfterFetch
    BY <1>0, <1>7 DEF InjectFragmentInternal, UpdateTSAfterFetch, fetcher
  <2>. QED  BY <1>1, <1>7, <2>1 DEF InjectFragmentInternal, fetcher, ring
<1>8. CASE InjectFragmentDiscarded
  <2>1. ~UpdateTSAfterFetch
    BY <1>0, <1>8 DEF InjectFragmentDiscarded, UpdateTSAfterFetch, fetcher
  <2>. QED  BY <1>1, <1>8, <2>1 DEF InjectFragmentDiscarded, fetcher, ring
<1>9. CASE UpdateTSAfterInject
  <2>1. fetchPc' = "update" <=> fetchPc = "update"
    BY <1>9 DEF UpdateTSAfterInject, SignalFragmentInjected
  <2>2. ~UpdateTSAfterFetch
    BY <2>1 DEF UpdateTSAfterFetch
  <2>3. fetchPc = "update" => cachedFragment'[fragmentIdxToFetch]
                                = cachedFragment[fragmentIdxToFetch]
    <3>1. SUFFICES ASSUME fetchPc = "update"
                   PROVE  fragmentIdxToFetch # fragmentIdxToInject
      BY <1>0, <1>9 DEF UpdateTSAfterInject, HeadSlotEmptied
    <3>2. numberOfFragmentsCached < maxCachedFragmentsPerTrack
      BY <1>0, <3>1 DEF RingInv, HoldsFreeSlot
    <3>3. fragmentIdxToInject \in CachedSlots
      <4>1. SlotAfter(fragmentIdxToInject, 0) = fragmentIdxToInject
        BY <1>0, CapacityAssumption DEF SlotAfter, Slots
      <4>2. 0 \in 0 .. numberOfFragmentsCached - 1
        BY <1>0, <1>9 DEF UpdateTSAfterInject, RingInv, HoldsFragment, TypeOK
      <4>. QED  BY <4>1, <4>2 DEF CachedSlots
    <3>. QED  BY <1>0, <3>2, <3>3, FetchSlotOutside
  <2>4. UNCHANGED <<nextFragment, skipped, fragmentIdxToFetch>>
    BY <1>9 DEF UpdateTSAfterInject, history
  <2>5. PendingFragments' = PendingFragments
    BY <2>1, <2>3, <2>4
  <2>. QED  BY <1>1, <2>1, <2>2, <2>4, <2>5
<1>. QED  BY <1>2, <1>3, <1>4, <1>5, <1>6, <1>7, <1>8, <1>9, FifoSteps

\* Fragments enter the ring behind those in it and leave it from its head.
LEMMA FifoInvStep ==
    ASSUME "fragmentInjected" \notin SpuriousWakeups, FifoInv, [Next]_vars PROVE FifoInv'
<1>1. RingInv'
  BY TypeOKStep, CountStep, RingConsistentStep, HoldsFreeSlotStep, HoldsFragmentStep
     DEF RingInv, FifoInv
<1>2. PendingIsLast' /\ SkippedIsPast'
  BY SeenStep
<1>3. NewestNamed'
  <2>1. SeenFragments \subseteq Nat
    BY FragmentsAssumption DEF FifoInv, RingInv, TypeOK, SeenFragments
  <2>2. CASE SeenFragments' = SeenFragments
    BY <2>2 DEF FifoInv, NewestNamed
  <2>3. CASE /\ SeenFragments' = SeenFragments \cup {nextFragment - 1}
             /\ nextFragment - 1 \in Nat
             /\ \A g \in SeenFragments : g < nextFragment - 1
    BY <2>1, <2>3 DEF NewestNamed
  <2>4. nextFragment - 1 \in Nat
    BY FragmentsAssumption DEF FifoInv, RingInv, TypeOK
  <2>. QED  BY <2>2, <2>3, <2>4, SeenStep
<1>. QED  BY <1>1, <1>2, <1>3 DEF FifoInv

\* A sequence without its head, and one with an element more.
LEMMA SeqWithoutHead ==
    ASSUME NEW S, NEW q \in Seq(S), NEW r \in Seq(S), Len(q) = Len(r) + 1,
           \A k \in 1 .. Len(r) : r[k] = q[k + 1]
    PROVE  q # <<>> /\ Head(q) = q[1] /\ r = Tail(q)
<1>1. q # <<>> /\ Head(q) = q[1]
  OBVIOUS
<1>2. Tail(q) \in Seq(S) /\ Len(Tail(q)) = Len(r)
  BY <1>1, HeadTailProperties
<1>3. \A k \in 1 .. Len(r) : Tail(q)[k] = q[k + 1]
  BY <1>1, <1>2, HeadTailProperties
<1>. QED  BY <1>1, <1>2, <1>3, SeqEqual

\* A sequence whose last place is added is the sequence with one more element.
LEMMA SeqWithLast ==
    ASSUME NEW S, NEW q \in Seq(S), NEW r \in Seq(S), Len(r) = Len(q) + 1,
           \A k \in 1 .. Len(q) : r[k] = q[k]
    PROVE  r = Append(q, r[Len(r)])
<1>. DEFINE a == Append(q, r[Len(r)])
<1>1. r[Len(r)] \in S
  OBVIOUS
<1>2. a \in Seq(S) /\ Len(a) = Len(r)
  BY <1>1
<1>3. \A k \in 1 .. Len(r) : a[k] = r[k]
  BY <1>1
<1>. HIDE DEF a
<1>. QED  BY <1>2, <1>3, SeqEqual

\* The queue: what is in the ring from the head on, the leaving slot left out.
QueueLen == numberOfFragmentsCached - LeavingSlot

QueueIsRing ==
    /\ QueueLen \in 0 .. numberOfFragmentsCached
    /\ QueueOfRing \in Seq(0 .. NumFragments) /\ Len(QueueOfRing) = QueueLen
    /\ \A k \in 1 .. QueueLen :
         QueueOfRing[k] =
           cachedFragment[SlotAfter(fragmentIdxToInject, k - 1 + LeavingSlot)].fragment

\* The queue of the refinement has its length, and its elements are in the ring.
LEMMA QueueCorrect == RingInv => QueueIsRing
<1>. SUFFICES ASSUME RingInv PROVE QueueIsRing
  OBVIOUS
<1>1. QueueLen \in 0 .. numberOfFragmentsCached
  BY DEF QueueLen, LeavingSlot, RingInv, TypeOK, HoldsFragment
<1>2. /\ cachedFragment \in [Slots -> CachedFragments] /\ fragmentIdxToInject \in Slots
      /\ numberOfFragmentsCached \in 0 .. maxCachedFragmentsPerTrack
      /\ LeavingSlot \in 0 .. 1
  BY DEF RingInv, TypeOK, CountInRange, LeavingSlot
<1>. DEFINE At(k) ==
       cachedFragment[SlotAfter(fragmentIdxToInject, k - 1 + LeavingSlot)].fragment
<1>3. ASSUME NEW k \in 1 .. QueueLen PROVE At(k) \in 0 .. NumFragments
  <2>1. k - 1 + LeavingSlot \in 0 .. maxCachedFragmentsPerTrack
    BY <1>1, <1>2, CapacityAssumption DEF QueueLen
  <2>2. SlotAfter(fragmentIdxToInject, k - 1 + LeavingSlot) \in Slots
    BY <1>2, <2>1, SlotAfterInSlots
  <2>. QED  BY <1>2, <2>2 DEF CachedFragments
<1>4. QueueOfRing = [k \in 1 .. QueueLen |-> At(k)]
  BY DEF QueueOfRing, QueueLen
<1>. HIDE DEF At
<1>5. QueueOfRing \in [1 .. QueueLen -> 0 .. NumFragments] /\ QueueLen \in Nat
  BY <1>1, <1>2, <1>3, <1>4
<1>6. QueueOfRing \in Seq(0 .. NumFragments)
  BY <1>5, SeqDef
<1>7. Len(QueueOfRing) = QueueLen
  BY <1>5, <1>6, LenProperties
<1>8. \A k \in 1 .. QueueLen : QueueOfRing[k] = At(k)
  BY <1>4
<1>. QED  BY <1>1, <1>6, <1>7, <1>8 DEF QueueIsRing, At

\* The same of the next state.
LEMMA QueueCorrectNext == RingInv' => QueueIsRing'
BY QueueCorrect, PTL

\* Steps that move no fragment through the queue.
LEMMA SameQueue ==
    ASSUME QueueIsRing, QueueIsRing', QueueLen' = QueueLen,
           \A k \in 1 .. QueueLen : QueueOfRing'[k] = QueueOfRing[k]
    PROVE  QueueOfRing' = QueueOfRing
BY SeqEqual DEF QueueIsRing

\* A fragment above all those seen is above the newest of them.
LEMMA NewestBelow ==
    ASSUME FifoInv, NEW f \in Nat, 0 < f, \A g \in SeenFragments : g < f
    PROVE  NewestOf(SeenFragments) < f
<1>1. SeenFragments \subseteq Nat
  BY FragmentsAssumption DEF FifoInv, RingInv, TypeOK, SeenFragments
<1>2. CASE SeenFragments = {}
  BY <1>2 DEF NewestOf
<1>3. CASE SeenFragments # {}
  <2>1. PICK h \in SeenFragments : \A g \in SeenFragments : g <= h
    BY <1>3 DEF FifoInv, NewestNamed
  <2>2. NewestOf(SeenFragments) = h
    BY <1>1, <2>1, NewestIs
  <2>. QED  BY <2>1, <2>2
<1>. QED  BY <1>2, <1>3

\* Every step of the track is a step of the FIFO, or one that it does not see.
LEMMA FifoSimulation ==
    ASSUME "fragmentInjected" \notin SpuriousWakeups, FifoInv, [Next]_vars
    PROVE  [Fifo!Next]_(Fifo!vars)
<1>. DEFINE q == QueueOfRing
            newest == NewestOf(SeenFragments)
<1>0. /\ RingInv /\ nextFragment \in 1 .. NumFragments + 1 /\ NumFragments \in Nat
      /\ cachedFragment \in [Slots -> CachedFragments]
      /\ fragmentIdxToFetch \in Slots /\ fragmentIdxToInject \in Slots
      /\ numberOfFragmentsCached \in 0 .. maxCachedFragmentsPerTrack
      /\ maxCachedFragmentsPerTrack \in Nat \ {0} /\ LeavingSlot \in 0 .. 1
  BY FragmentsAssumption, CapacityAssumption
     DEF FifoInv, RingInv, TypeOK, CountInRange, LeavingSlot
<1>1. QueueIsRing
  BY <1>0, QueueCorrect
<1>2. QueueIsRing'
  BY FifoInvStep, QueueCorrectNext DEF FifoInv
<1>3. QueueLen \in 0 .. numberOfFragmentsCached /\ Len(q) = QueueLen /\ q \in Seq(0 .. NumFragments)
  BY <1>1 DEF QueueIsRing
<1>4. ~UpdateTSAfterFetch => newest' = newest
  BY SeenStep
<1>5. ASSUME UNCHANGED <<q, newest, injected>> PROVE [Fifo!Next]_(Fifo!vars)
  BY <1>5 DEF Fifo!vars
<1>6. CASE FifoQuiet
  <2>1. q' = q
    BY <1>6 DEF FifoQuiet, QueueOfRing, ring
  <2>2. ~UpdateTSAfterFetch
    BY <1>0, <1>6 DEF FifoQuiet, UpdateTSAfterFetch
  <2>. QED  BY <1>4, <1>5, <1>6, <2>1, <2>2 DEF FifoQuiet
<1>7. CASE FetchFails
  <2>1. q' = q
    BY <1>7 DEF FetchFails, QueueOfRing, LeavingSlot, ring, injector
  <2>2. ~UpdateTSAfterFetch
    BY <1>7 DEF FetchFails, UpdateTSAfterFetch
  <2>. QED  BY <1>4, <1>5, <1>7, <2>1, <2>2 DEF FetchFails
<1>8. CASE FetchSucceeds
  <2>1. UNCHANGED <<fragmentIdxToInject, LeavingSlot, QueueLen, injected>>
    BY <1>8 DEF FetchSucceeds, LeavingSlot, QueueLen, injector
  <2>2. numberOfFragmentsCached < maxCachedFragmentsPerTrack
    BY <1>0, <1>8 DEF FetchSucceeds, RingInv, HoldsFreeSlot
  <2>3. ASSUME NEW k \in 1 .. QueueLen PROVE q'[k] = q[k]
    <3>1. k - 1 + LeavingSlot \in 0 .. numberOfFragmentsCached - 1
      BY <1>0, <1>3 DEF QueueLen, LeavingSlot
    <3>2. SlotAfter(fragmentIdxToInject, k - 1 + LeavingSlot) \in CachedSlots
      BY <3>1 DEF CachedSlots
    <3>3. SlotAfter(fragmentIdxToInject, k - 1 + LeavingSlot) # fragmentIdxToFetch
      BY <1>0, <2>2, <3>2, FetchSlotOutside
    <3>4. SlotAfter(fragmentIdxToInject, k - 1 + LeavingSlot) \in Slots
      BY <1>0, <3>1, SlotAfterInSlots
    <3>5. cachedFragment'[SlotAfter(fragmentIdxToInject, k - 1 + LeavingSlot)]
            = cachedFragment[SlotAfter(fragmentIdxToInject, k - 1 + LeavingSlot)]
      BY <1>0, <1>8, <3>3, <3>4 DEF FetchSucceeds
    <3>. QED  BY <1>1, <1>2, <2>1, <3>5 DEF QueueIsRing, SlotAfter
  <2>4. q' = q
    BY <1>1, <1>2, <2>1, <2>3, SameQueue
  <2>5. ~UpdateTSAfterFetch
    BY <1>8 DEF FetchSucceeds, UpdateTSAfterFetch
  <2>. QED  BY <1>4, <1>5, <2>1, <2>4, <2>5
<1>9. CASE UpdateTSAfterFetch
  <2>1. /\ UNCHANGED <<cachedFragment, fragmentIdxToInject, LeavingSlot, injected>>
        /\ numberOfFragmentsCached' = numberOfFragmentsCached + 1
        /\ fetchPc = "update"
    BY <1>9 DEF UpdateTSAfterFetch, LeavingSlot, SignalFragmentFetched, history
  <2>2. QueueLen' = QueueLen + 1 /\ QueueLen < maxCachedFragmentsPerTrack
    BY <1>0, <1>3, <2>1 DEF QueueLen, RingInv, HoldsFreeSlot
  <2>3. Len(q') = Len(q) + 1 /\ q' \in Seq(0 .. NumFragments)
    BY <1>2, <1>3, <2>2 DEF QueueIsRing
  <2>4. ASSUME NEW k \in 1 .. Len(q) PROVE q'[k] = q[k]
    <3>1. k \in 1 .. QueueLen /\ k \in 1 .. QueueLen'
      BY <1>2, <1>3, <2>2 DEF QueueIsRing
    <3>. QED  BY <1>1, <1>2, <2>1, <3>1 DEF QueueIsRing, SlotAfter
  <2>5. q'[Len(q')] = cachedFragment[fragmentIdxToFetch].fragment
    <3>1. QueueLen + 1 \in 1 .. QueueLen' /\ Len(q') = QueueLen + 1
      BY <1>3, <2>2, <2>3
    <3>2. QueueLen + 1 - 1 + LeavingSlot = numberOfFragmentsCached
      BY <1>0 DEF QueueLen, LeavingSlot
    <3>3. \A k \in 1 .. QueueLen' :
            q'[k] = cachedFragment[SlotAfter(fragmentIdxToInject, k - 1 + LeavingSlot)].fragment
      BY <1>2, <2>1 DEF QueueIsRing, SlotAfter
    <3>4. q'[QueueLen + 1] =
            cachedFragment[SlotAfter(fragmentIdxToInject, QueueLen + 1 - 1 + LeavingSlot)].fragment
      BY <1>3, <2>2, <3>1, <3>3
    <3>5. fragmentIdxToFetch = SlotAfter(fragmentIdxToInject, numberOfFragmentsCached)
      BY <1>0 DEF RingInv, RingConsistent
    <3>. QED  BY <3>1, <3>2, <3>4, <3>5
  <2>6. q' = Append(q, cachedFragment[fragmentIdxToFetch].fragment)
    BY <1>3, <2>3, <2>4, <2>5, SeqWithLast
  <2>7. PendingFragments = {cachedFragment[fragmentIdxToFetch].fragment}
    BY <2>1 DEF PendingFragments
  <2>8. CASE PendingFragments = {0} /\ SeenFragments' = SeenFragments
    <3>1. cachedFragment[fragmentIdxToFetch].fragment = 0 /\ newest' = newest
      BY <2>7, <2>8
    <3>2. Fifo!PutEmpty
      BY <1>3, <2>1, <2>2, <2>6, <3>1 DEF Fifo!PutEmpty
    <3>. QED  BY <3>2 DEF Fifo!Next
  <2>9. CASE /\ PendingFragments = {nextFragment - 1}
             /\ SeenFragments' = SeenFragments \cup {nextFragment - 1}
             /\ \A g \in SeenFragments : g < nextFragment - 1
    <3>1. cachedFragment[fragmentIdxToFetch].fragment = nextFragment - 1
      BY <2>7, <2>9
    <3>2. nextFragment - 1 \in 1 .. NumFragments
      BY <2>1 DEF FifoInv, PendingIsLast, Fragments
    <3>3. newest < nextFragment - 1
      BY <1>0, <2>9, <3>2, NewestBelow
    <3>4. newest' = nextFragment - 1
      <4>1. SeenFragments \subseteq Nat
        BY <1>0 DEF SeenFragments
      <4>2. SeenFragments' \in SUBSET Nat /\ nextFragment - 1 \in SeenFragments'
            /\ \A g \in SeenFragments' : g <= nextFragment - 1
        BY <1>0, <2>9, <3>2, <4>1
      <4>. QED  BY <4>2, NewestIs
    <3>5. Fifo!Put(nextFragment - 1)
      BY <1>3, <2>1, <2>2, <2>6, <3>1, <3>3, <3>4 DEF Fifo!Put
    <3>. QED  BY <3>2, <3>5 DEF Fifo!Next
  <2>10. \/ PendingFragments = {0} /\ SeenFragments' = SeenFragments
         \/ /\ PendingFragments = {nextFragment - 1}
            /\ SeenFragments' = SeenFragments \cup {nextFragment - 1}
            /\ \A g \in SeenFragments : g < nextFragment - 1
    BY <1>9, SeenStep
  <2>. QED  BY <2>8, <2>9, <2>10
<1>10. CASE ExamineHead
  <2>1. UNCHANGED <<fragmentIdxToInject, LeavingSlot, QueueLen, injected>>
    BY <1>10 DEF ExamineHead, LeavingSlot, QueueLen, history
  <2>2. \A i \in Slots : cachedFragment'[i].fragment = cachedFragment[i].fragment
    <3>1. \/ cachedFragment' = cachedFragment
          \/ cachedFragment' = [cachedFragment EXCEPT
                ![fragmentIdxToInject].discontinuity = FALSE]
      BY <1>10 DEF ExamineHead
    <3>2. cachedFragment[fragmentIdxToInject] \in CachedFragments
      BY <1>0
    <3>3. cachedFragment'[fragmentIdxToInject].fragment
            = cachedFragment[fragmentIdxToInject].fragment
      BY <1>0, <3>1, <3>2 DEF CachedFragments
    <3>. QED  BY <1>0, <3>1, <3>3
  <2>3. ASSUME NEW k \in 1 .. QueueLen PROVE q'[k] = q[k]
    <3>1. k - 1 + LeavingSlot \in 0 .. maxCachedFragmentsPerTrack
      BY <1>0, <1>3 DEF QueueLen
    <3>2. SlotAfter(fragmentIdxToInject, k - 1 + LeavingSlot) \in Slots
      BY <1>0, <3>1, SlotAfterInSlots
    <3>. QED  BY <1>1, <1>2, <2>1, <2>2, <3>2 DEF QueueIsRing, SlotAfter
  <2>4. q' = q
    BY <1>1, <1>2, <2>1, <2>3, SameQueue
  <2>5. ~UpdateTSAfterFetch
    BY <1>0, <1>10 DEF ExamineHead, UpdateTSAfterFetch, fetcher
  <2>. QED  BY <1>4, <1>5, <2>1, <2>4, <2>5
<1>11. ASSUME injectPc = "inject", LeavingSlot' = 1,
              UNCHANGED <<ring, fetchPc>>
       PROVE  /\ q # <<>> /\ Head(q) = FragmentToInject.fragment /\ Head(q) # 0
              /\ q' = Tail(q) /\ newest' = newest
  <2>1. LeavingSlot = 0 /\ numberOfFragmentsCached > 0 /\ FragmentToInject.fragment # 0
    BY <1>0, <1>11 DEF LeavingSlot, RingInv, HoldsFragment
  <2>2. /\ QueueLen = numberOfFragmentsCached /\ QueueLen' = numberOfFragmentsCached - 1
        /\ UNCHANGED <<cachedFragment, fragmentIdxToInject>>
    BY <1>0, <1>11, <2>1 DEF QueueLen, ring
  <2>3. Len(q) = Len(q') + 1 /\ q' \in Seq(0 .. NumFragments)
    BY <1>0, <1>2, <1>3, <2>2 DEF QueueIsRing
  <2>4. ASSUME NEW k \in 1 .. Len(q') PROVE q'[k] = q[k + 1]
    <3>1. k \in 1 .. QueueLen' /\ k + 1 \in 1 .. QueueLen
      BY <1>0, <1>3, <2>2, <2>3
    <3>2. \A i \in 1 .. QueueLen' :
            q'[i] = cachedFragment[SlotAfter(fragmentIdxToInject, i - 1 + 1)].fragment
      BY <1>2, <1>11, <2>2 DEF QueueIsRing, SlotAfter
    <3>3. \A i \in 1 .. QueueLen :
            q[i] = cachedFragment[SlotAfter(fragmentIdxToInject, i - 1 + 0)].fragment
      BY <1>1, <2>1 DEF QueueIsRing
    <3>4. k - 1 + 1 = k /\ k + 1 - 1 + 0 = k
      BY <3>1
    <3>5. q[k + 1] = cachedFragment[SlotAfter(fragmentIdxToInject, k + 1 - 1 + 0)].fragment
      BY <3>1, <3>3
    <3>6. q'[k] = cachedFragment[SlotAfter(fragmentIdxToInject, k - 1 + 1)].fragment
      BY <3>1, <3>2
    <3>. QED  BY <3>4, <3>5, <3>6
  <2>5. q # <<>> /\ Head(q) = q[1] /\ q' = Tail(q)
    BY <1>3, <2>3, <2>4, SeqWithoutHead
  <2>6. q[1] = FragmentToInject.fragment
    <3>1. 1 \in 1 .. QueueLen /\ 1 - 1 + LeavingSlot = 0
      BY <1>0, <2>1, <2>2
    <3>2. SlotAfter(fragmentIdxToInject, 0) = fragmentIdxToInject
      BY <1>0 DEF SlotAfter, Slots
    <3>3. q[1] = cachedFragment[SlotAfter(fragmentIdxToInject, 1 - 1 + LeavingSlot)].fragment
      BY <1>1, <3>1 DEF QueueIsRing
    <3>. QED  BY <3>1, <3>2, <3>3 DEF FragmentToInject
  <2>7. ~UpdateTSAfterFetch
    BY <1>0, <1>11, <2>2 DEF UpdateTSAfterFetch, ring
  <2>. QED  BY <1>4, <2>1, <2>5, <2>6, <2>7
<1>12. CASE InjectFragmentInternal
  <2>1. injectPc = "inject" /\ LeavingSlot' = 1 /\ UNCHANGED <<ring, fetchPc>>
    BY <1>12 DEF InjectFragmentInternal, LeavingSlot, fetcher
  <2>2. Fifo!Deliver
    BY <1>11, <1>12, <2>1 DEF Fifo!Deliver, InjectFragmentInternal
  <2>. QED  BY <2>2 DEF Fifo!Next
<1>13. CASE InjectFragmentDiscarded
  <2>1. injectPc = "inject" /\ LeavingSlot' = 1 /\ UNCHANGED <<ring, fetchPc, injected>>
    BY <1>13 DEF InjectFragmentDiscarded, LeavingSlot, fetcher
  <2>2. Fifo!Drop
    BY <1>11, <2>1 DEF Fifo!Drop
  <2>. QED  BY <2>2 DEF Fifo!Next
<1>14. CASE UpdateTSAfterInject
  <2>1. /\ LeavingSlot = 1 /\ LeavingSlot' = 0
        /\ numberOfFragmentsCached' = numberOfFragmentsCached - 1
        /\ fragmentIdxToInject' = Increment(fragmentIdxToInject)
        /\ cachedFragment' = [cachedFragment EXCEPT ![fragmentIdxToInject] = NoFragment]
        /\ injected' = injected
    BY <1>14 DEF UpdateTSAfterInject, LeavingSlot, HeadSlotEmptied, history
  <2>2. QueueLen' = QueueLen
    BY <1>0, <2>1 DEF QueueLen
  <2>3. ASSUME NEW k \in 1 .. QueueLen PROVE q'[k] = q[k]
    <3>1. k \in 1 .. maxCachedFragmentsPerTrack - 1 /\ k - 1 + 1 = k /\ k - 1 + 0 = k - 1
      BY <1>0, <1>3, <2>1 DEF QueueLen
    <3>2. SlotAfter(Increment(fragmentIdxToInject), k - 1) = SlotAfter(fragmentIdxToInject, k)
      BY <1>0, <3>1, SlotAfterIncrement
    <3>3. /\ SlotAfter(fragmentIdxToInject, k) # fragmentIdxToInject
          /\ SlotAfter(fragmentIdxToInject, k) \in Slots
      BY <1>0, <3>1 DEF SlotAfter, Slots
    <3>4. cachedFragment'[SlotAfter(fragmentIdxToInject, k)]
            = cachedFragment[SlotAfter(fragmentIdxToInject, k)]
      BY <1>0, <2>1, <3>3
    <3>5. q[k] = cachedFragment[SlotAfter(fragmentIdxToInject, k - 1 + 1)].fragment
      BY <1>1, <2>1 DEF QueueIsRing
    <3>6. q'[k] = cachedFragment'[SlotAfter(fragmentIdxToInject', k - 1 + 0)].fragment
      BY <1>2, <2>1, <2>2 DEF QueueIsRing, SlotAfter
    <3>. QED  BY <2>1, <3>1, <3>2, <3>4, <3>5, <3>6
  <2>4. q' = q
    BY <1>1, <1>2, <2>2, <2>3, SameQueue
  <2>5. ~UpdateTSAfterFetch
    BY <1>0, <2>1 DEF UpdateTSAfterFetch
  <2>. QED  BY <1>4, <1>5, <2>1, <2>4, <2>5
<1>. QED  BY <1>6, <1>7, <1>8, <1>9, <1>10, <1>12, <1>13, <1>14, FifoSteps

\* The media track is a bounded FIFO: fragments enter in the order of the
\* playlist and leave in the order in which they entered, each injected or
\* dropped (GetFetchBuffer, UpdateTSAfterFetch, InjectFragment, UpdateTSAfterInject).
THEOREM FifoImplemented ==
    ASSUME "fragmentInjected" \notin SpuriousWakeups
    PROVE  Spec => ImplementsFifo
<1>1. FifoInv /\ [Next]_vars => FifoInv'
  BY FifoInvStep
<1>2. FifoInv /\ [Next]_vars => [Fifo!Next]_(Fifo!vars)
  BY FifoSimulation
<1>3. Init => Fifo!Init
  <2>. SUFFICES ASSUME Init PROVE Fifo!Init
    OBVIOUS
  <2>1. QueueOfRing = <<>>
    BY DEF Init, QueueOfRing, LeavingSlot
  <2>2. NewestOf(SeenFragments) = 0
    BY DEF Init, NewestOf, SeenFragments
  <2>. QED  BY <2>1, <2>2 DEF Init, Fifo!Init
<1>. QED  BY <1>1, <1>2, <1>3, FifoInvInit, PTL DEF Spec, ImplementsFifo, Fifo!Spec
=============================================================================
