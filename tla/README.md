# AAMP in TLA+

AAMP (Advanced Adaptive Micro Player) is the streaming engine of RDK set-top
boxes: a C++ library that an application drives through a small API (tune,
stop, seek, set rate), that downloads HLS, DASH or progressive content, and
that hands elementary or muxed fragments to a GStreamer pipeline.

The code is a set of threads that share a few large objects. Their protocols
are written by hand, with flags, mutexes, condition variables and idle tasks of
the GLib main loop. This directory models those protocols in TLA+, checks them
on small instances with TLC, and proves for every value of the parameters, with
TLAPS: that a track delivers its fragments in order, without loss and to the
end, that two tracks never wait for each other at a discontinuity, that the
calls and the tasks of the player keep out of each other's way, that what a
segment processor gives the sink is whole and timed from one base, that the sink
keeps a pause of the user, that the cache of DRM sessions is used rightly, and that a
DASH segment is played behind the init fragment of its period and profile.

Contents

1. The system: components, state, interaction, what is hard
2. The modules and how they correspond to the code
3. The runs: questions, bounds, results
4. Fairness
5. What is proved
6. Findings
7. Known weaknesses outside the properties
8. What is not modelled
9. Plan

## 1. The system

### Components

| Component | Sources | State it keeps | Operations | What makes it correct |
|---|---|---|---|---|
| Player control | `priv_aamp.cpp`, `main_aamp.cpp` | `mState`, `mSeekOperationInProgress`, the id and flags of the discontinuity task, `reTune`, `mIsRetuneInProgress`, `mDownloadsEnabled` | `Tune`, `Stop`, `Seek`, `SetRate`, `SetLanguage`, `TeardownStream`, `TuneHelper`, `ScheduleRetune`, `ProcessPendingDiscontinuity`, `NotifyEOSReached` | one activity at a time builds or deletes the stream; every call returns |
| Media track | `streamabstraction.cpp`, `fragmentcollector_hls.cpp` | a ring of cached fragments, its two indices and count; `abort`, `abortInject`, `eosReached` | `WaitForFreeFragmentAvailable`, `UpdateTSAfterFetch`, `WaitForCachedFragmentAvailable`, `InjectFragment`, `StartInjectLoop`, `StopInjectLoop` | fragments leave in the order of the playlist, none is lost or doubled; both threads can be stopped |
| A/V synchronisation | `streamabstraction.cpp`, `priv_aamp.cpp` | `mTrackState`, injected durations, `mProcessingDiscontinuity` | `WaitForVideoTrackCatchup`, `ProcessDiscontinuity`, `CheckForMediaTrackInjectionStall`, `CheckForDiscontinuityStall` | both tracks meet at a discontinuity, the sink is flushed between two periods and never inside one |
| HLS collector | `fragmentcollector_hls.cpp` | the playlist, `playlistPosition`, `playTarget`, `nextMediaSequenceNumber`, the profile, init fragments, DRM metadata | `Init`, `RunFetchLoop`, `FetchFragment`, `GetNextFragmentUriFromPlaylist`, `RefreshPlaylist`, `IndexPlaylist`, `SyncTracks` | a live window that slides and a change of profile neither repeat nor skip a fragment |
| DASH collector | `fragmentcollector_mpd.cpp` | period, representation, segment time per track, the merged manifest | `Init`, `FetcherLoop`, `PushNextFragment`, `UpdateMPD`, `UpdateTrackInfo` | as above, over periods |
| Ad insertion | `admanager_mpd.cpp` | ad breaks, placements, the state of the ad being played | `onAdEvent`, `PlaceAds`, `FulFillAdObject` | every reserved ad is placed once, playback comes back to the content |
| Adaptive bitrate | `streamabstraction.cpp`, `ABRManager` | current profile, ramp-down count, network samples | `CheckForProfileChange`, `RampDownProfile` | profile stays in the ladder; ramp-down ends |
| Downloads | `priv_aamp.cpp` | curl handles, `mDownloadsEnabled`, cached playlists | `GetFile`, `LoadFragment`, the progress callback | bounded retries, prompt abort |
| DRM sessions | `drm/AampDRMSessionManager.cpp` | slots with key, failure mark, session; `sessionMgrState` | `createDrmSession`, `acquireLicense`, `clearFailedKeyIds`, `setSessionMgrState` | a key has one slot, a caller gets a session for its own key, a failed key is not asked for again |
| Sink | `aampgstplayer.cpp` | pipeline state, buffering, end-of-stream marks | `Send`, `Configure`, `Flush`, `Pause`, `Stop`, `EndOfStreamReached`, `StopBuffering` | a pause of the user holds, every other pause ends, the end is reported |
| Segment processors | `tsprocessor.cpp`, `isobmffprocessor.cpp` | base time stamps, queued segments | `sendSegment`, `setBasePTS`, `abort` | both tracks start from one base |
| Events | `priv_aamp.cpp`, `AampEventManager` | listeners, pending asynchronous events | `SendEventAsync`, `SendEventSync`, `ScheduleEvent` | no event of a stopped session is delivered |

`PROJECT.json` lists every part of the repository, also the thin layers over
the platform (OTA, HDMI and composite inputs, output protection, closed
captions, JavaScript bindings) that section 8 speaks of.

### Interaction

```
 application --calls--> Player control <--idle tasks-- GLib main loop
                          |  TuneHelper / TeardownStream
                          v
              StreamAbstraction (HLS, DASH, progressive)
                |  per track: collector thread -> ring -> injector thread
                |  buffer monitor thread     DRM license threads
                v
              Sink (GStreamer pipeline) --bus and element callbacks--> Player control
```

* The application calls from a thread of its own or on the main loop.
* A **collector** waits for a free slot of its ring, downloads into it and
  signals; an **injector** waits for a cached fragment and sends it. Both test
  `abort` flags that the player sets while it stops them.
* The injectors of audio and video wait for each other: always when audio is
  ahead, and at each discontinuity.
* The sink answers asynchronously: first frame, underflow, end of stream. It
  schedules idle tasks (re-tune, discontinuity, end of stream) that tear the
  stream down and build the next one while the application may do the same.
* License requests run on threads of their own and outlive a stop.

### What is hard

Wakeups that come before the wait; conditions tested once with `if`; flags read
outside the lock that protects them; tasks of the main loop that wait for other
tasks of the main loop; a stop or a seek that arrives between any two steps of
a stream being built; a slot, session or fragment that belongs to an earlier
tune. The list with lines is under "hazards" in `PROJECT.json`.

## 2. The modules

| Module | Models | Kind |
|---|---|---|
| `MediaTrack` | ring, collector, injector of one track and the player that stops and restarts them | component |
| `FragmentFifo` | what a media track promises: fragments leave in order | abstract specification |
| `MediaTrackProofs` | the ring of `MediaTrack`, the end of the stream, nothing is lost, and `MediaTrack` implements `FragmentFifo` | proofs |
| `AVSync` | two injectors, the stall monitors, the player's discontinuity task | component |
| `AVSyncProofs` | the meeting of the tracks, the lead of audio, the flush between two periods | proofs |
| `DrmSessionManager` | session cache, license threads, stop and tune | component |
| `DrmSessionManagerProofs` | theorems about `DrmSessionManager` | proofs |
| `Player` | calls, idle tasks, the gates between them | component |
| `PlayerProofs` | the id of the discontinuity task, and the two gates | proofs |
| `Sink` | pauses of the pipeline, buffering, end of stream | component |
| `SinkProofs` | a pause of the user is kept | proofs |
| `HlsTrack` | the fetch loop of an HLS track and the server it reads from | component |
| `MpdTrack` | the fetch loop of a DASH stream with both its tracks, and the server it reads from | component |
| `MpdTrackProofs` | timelines, init fragments, culled seconds and the order of segments of `MpdTrack` | proofs |
| `AdBreaks` | ad breaks of a live DASH stream: their placement, and the collector that leaves the content for them | component |
| `AdBreaksProofs` | placements reported in pairs, the breaks that are kept, the ads given up | proofs |
| `SegmentProcessors` | the processors between injector and sink, for transport streams and fragmented MP4 | component |
| `SegmentProcessorsProofs` | what each track has given the sink, wherever its call is | proofs |
| `MC*` | playlists, scenarios and model values for TLC | instances |

Names of variables and operators are the names of the code. An action is a
section the code runs under one mutex, or the code between two accesses to
shared state; a program counter says where a thread is. Conditions that the
code reads outside a lock are read in a step of their own. Variables under
*history* or *asked* record what the code does not (what was injected, what the
user asked for) so that properties can speak of it; no guard reads them unless
it says so. `TypeOK` is a run's property of its own, or the first conjunct of
the invariant that reads most of the variables.

### MediaTrack

State: `cachedFragment`, `fragmentIdxToFetch`, `fragmentIdxToInject`,
`numberOfFragmentsCached`, `abort`, `abortInject`, `eosReached` as in the class
`MediaTrack`. The collector (`fetchPc`) is `TrackState::RunFetchLoop` with
`FetchFragment`; its wait has the shape of the code (an `if` around the wait,
the timeout that a wait for the start of playback leaves behind, `abort` read
before the mutex is taken). The injector (`injectPc`) is `RunInjectLoop` with
`InjectFragment`: discontinuities stop it with the fragment still in its slot,
injection errors end it at `segInjectFailLimit`. At a discontinuity it waits for the other
track on `mStateCond` (`stateWait`) without a look at the abort flags; `OtherTrackSignals`, which
nothing promises, stands for the other track and for the monitor of stalls. The player (`controlPc`) stops
and starts injection (a discontinuity, a re-tune) and finally stops the track.
A fragment is a number; a failed or empty download is a slot without data.

`FragmentFifo` says what this amounts to: a bounded queue into which fragments
are put in increasing order and from which they are taken in that order.
`ImplementsFifo` is the refinement.

### AVSync

Two injectors over given playlists, with their rings assumed full. The waits
on `mCond` (catch-up) and `mStateCond` (discontinuity), the copy of
`mTrackState` that `ProcessDiscontinuity` reads and writes outside its lock,
the buffer monitor that pairs up or gives up a discontinuity, and
`ProcessPendingDiscontinuity` on the main loop, which stops injection, flushes
the sink and starts injection again.

### DrmSessionManager

The slots of `cachedKeyIDs` and `drmSessionContexts` with their age, the
lock that `createDrmSession` holds over the whole acquisition, the license
request step by step (token, attempts, answer, processing), the failure marks,
`Stop` (downloads disabled, state inactive, the transfer aborted) and the next
tune (`clearFailedKeyIds`). `decryptor` records which slots a track decrypts
with, `dangling` that a session was deleted under it, and `otherKeysSince` the keys asked
for since the track got it. Each use of a slot is later than the one before: two uses in the
same millisecond, or a clock that is set back, are not modelled.

### Player

Each activity is a context with a program counter: the application's call, a
call from within an event on the main loop, the idle task in progress. The
idle queue is a sequence. `stage` says why a teardown is done. The two gates
are modelled as the code has them: `reTune` and `mIsRetuneInProgress` under
`gMutex`, waited for once by `Stop`; the discontinuity id and its two flags
under `mLock`, waited for once by `TeardownStream`. A source that the main loop dispatches
is `task`; `g_source_remove` takes one that is queued out of `idle` (`Dequeue`) and
marks the one that runs (`RemoveDisc`), which the task looks at once.
`eosSignalled` is the flag of the sink that lets it report one end per configuration.
Contents of manifests, positions and rates are left out.

### Sink

The state asked of the pipeline and whether it is still changing; video in the
source queue and in the decoder, in fragments; the buffering before play (a
timer), the buffering after an underflow, the initial caching, and the user.
`mLock` and `mBufferingLock` are modelled where both are held. Of the PTS that the check
for the end compares, the model keeps whether it moved since (`ptsMoved`). `PauseKept` names the
three cases in which the code itself ends a user's pause, and the run has streams
for each: a pause before the first frame is displayed while the initial caching goes on
(`pendingPlay`), one that comes when a buffering was announced for an underflow (`underflow`), a seek in pause
to where audio has ended (`EndWithoutData`). Scenarios leave
out: other video sinks than Westeros', the re-tune that HLS does when buffering
before play takes too long, and seeks before the first frame of a stream.

### HlsTrack

The producer in front of `MediaTrack`: which fragment the collector asks for
next. A fragment is its media sequence number and lasts two units, so that a
position or target may lie in the middle of one. `server` is what is published
(a window that grows and slides until the stream ends), `playlist` the copy
that was parsed last, `at` the place of the parser in it: `fragmentURI`,
`playlistPosition`, `playTarget`, `nextMediaSequenceNumber` and the init
fragment. `pc` walks through `RunFetchLoop`: init fragment, fragment, the check
for another profile, the two refreshes, the refresh after the inner loop. The
three searches are operators, each a translation of one function:
`NextFragmentUri` (`GetNextFragmentUriFromPlaylist`), `FindMedia`
(`FindMediaForSequenceNumber`, used by the refresh of a live playlist) and
`IndexedFragment` (`GetFragmentUriFromIndex`, for trick play). The other track
answers the question for its discontinuity from a table of the stream
(`disc`), the bandwidth estimate may ask for any profile at any check, and each
kind of download (init, fragment, playlist) may fail with an error that leads
to a lower profile, one that lets the buffer decide, or one that does neither.
Left out: keys, byte ranges, subtitles, the time shift buffer of Fog, waits
between refreshes, and the first choice of position for two tracks.

### MpdTrack

The other producer. A DASH stream has one collector thread for both tracks
(`FetcherLoop`), so the module has both: `track[m]` is the `MediaStreamContext` of
track `m` (its place in the segment timeline, `lastSegmentTime` as `last`, init and
discontinuity flags, `eos` and `eosReached`, the ring as a sequence of durations). A segment is its index in `stream.segs`, with a period, an `S` element and
a media time; `server` and `mpd` are the first and last segment published and
parsed. `pc` walks through the loop: the choice of a period (`SkipEmptyPeriod`,
`EnterPeriod`, `PeriodsEnd`), the init fragments (`FetchInit`), a round of one
fragment per track (`FetchTrack`, with `PushNextFragment`, `FetchFragment` and
the ramp-down that re-reads the timeline from its beginning), the end of a
period (`CheckEos`), a refresh (`UpdateMPD`, `UpdateMPDFails`) with the culled
seconds and the period list it is computed from. After a refresh
a track finds its place again by the time of its last segment (`FromLastSegment`),
in a new period by the offset of that period (`FromOffset`).
The injectors only empty the rings, audio not more than a segment ahead.
Left out: trick play, Fog, subtitles, streams described by a template without a
timeline or by a list, and segments listed past the end of their period.

### AdBreaks

The application (`SetAlternateContents`), the thread that resolves an ad
(`FulFillAdObject`, `FulFillFails`), and the collector. `mAdBreaks`, `mPeriodMap` and
`mPlacementObj` are the maps of the code. `FindTimedMetadata`, `PrunePeriodMaps`
and `PlaceAds` are operators from the maps to the maps, applied in the one step of
`Refresh`. The function `onAdEvent` is split by the state it is called in
(`AdNotPlaying`, `AdFinished`, `AdFailed` and others); each returns the
next state, the ad given up and the events sent; the collector's steps apply it
where the loop calls it. `source` is what the track reads: the content or an ad,
the next fragment, and the time since the beginning of the period.
`mBasePeriodOffset` is the place in the content that the ads stand over; a
negative value converted to an unsigned one compares as either. `history` keeps
the last segment of content and the time filled by ads since, from which
`ContentKept` tells a gap from a replacement. Both tracks are fetched alike, so one
stands for both. Left out: seeks, trick play, Fog, failing content.

### SegmentProcessors

`TSProcessor` and `IsoBmffProcessor` implement one interface, so one module has both: a
stream has a `format`, and `processor[t]` is the record of the fields that the class of
that format has. The injectors (`injectPc`) walk through `sendSegment`; a section
under the mutex of a processor is a step, and so is each call in between (`BmffFlush`,
`BmffTellPeer`, `BmffInit`, the sends). `sink` is what each track has given the pipeline
since its last flush, which is done by the player for transport streams and by the injector of
video for fragmented MP4. A base time stamp is named by the period in whose video it was
found, so that a wrong base is a wrong number. The player (`ctl`) starts the tracks
one after the other, stops them at a discontinuity that both have reached, or in
`Stop` at any moment. `wiped` remembers that a reset came after the base it erased. Left out: trick play,
throttling, muxed and queued audio, detach, fragments without the time stamps they
should carry, condition variables that wake on their own.

## 3. The runs

| Run | Question | Bounds | Result |
|---|---|---|---|
| `track_play` | Are ring and order right when the ring wraps, downloads fail, injection is stopped and restarted, and can a live or a VOD track be stopped at any moment? | 2 slots, 3 fragments with a discontinuity at the second, an empty body, 1 restart, live and VOD, spurious wakeups of `mStateCond` | holds |
| `track_vod_stop` | Does `Stop` of a VOD track always end? | 2 slots, 3 fragments, no discontinuity | violated, finding 1 |
| `sync_play` | Do tracks whose discontinuities pair or do not pair play on? | three streams of 6 and 7 fragments, rings of 3, one stopped at any moment | holds |
| `drm_shared` | Do two license threads share the cache rightly, while the player stops and tunes? | 2 tracks, 3 keys, 2 slots, 2 tunes, 3 requests | holds |
| `player` | Do calls, re-tunes, discontinuities and ends of stream keep out of each other's way? | 7 applications, 3 calls, 2 discontinuities, 1 underflow or internal error | holds |
| `sink_play` | Does every pause end but the user's, and is the end reported? | 6 streams with calls of the user, 3 fragments, 2 calls of the user, 1 underflow | holds |
| `sink_starving` | A decoder that starves just before the end | 3 fragments, 1 underflow | violated, finding 2 |
| `hls_play` | Does a collector ask for every fragment once, after its init fragment, to the end? | 11 streams, 5 fragments, 2 profiles, 2 faults | holds |
| `mpd_play` | The same of both tracks of a DASH stream, over periods and refreshes | 8 streams of 3 or 4 segments in up to 3 periods, rings of 2, 2 profiles, 0 to 3 faults | holds |
| `ads_play` | Is exactly the content of a break replaced, and does the player come back from each? | 11 live streams of up to 5 periods, 3 ads, up to 2 faults | holds |
| `ads_fails` | An ad that fails at its very end | two ads, 2 failing fragments | violated, finding 3 |
| `segment_play` | Are the tracks of a period timed from one base, and nothing of it flushed away, while they can be stopped? | 3 streams of 2 or 3 periods of up to 5 fragments, one for transport streams | holds |

Why the bounds are enough. Two slots and three fragments make the ring full,
empty and wrapped while a fragment is still in flight on either side. Three
slots in `AVSync` let audio reach its lead over video and let a discontinuity
be cached before the other track has it. Three keys, one for both tracks and two that
follow each other on one of them, make the tracks meet on one slot and, with two slots and
three requests, evict the session of the other track while it is in use; two tunes let a slow thread of the first
tune meet the second. Three calls to the player are a stop, a tune and a call in between;
two discontinuities are one that a task works on and one that the tracks report meanwhile;
the flags of the player hold one error; ends of the stream need no bound, the sink reports one
per configuration. In the sink,
three fragments against a source of one and a decoder of two leave one fragment
in the collector when the user or an underflow interferes. Five fragments let
a window of two slide twice past a collector that waits, with a period in the
middle and fragments on either side of it; two profiles have a lowest one,
which cannot be left downwards, and one above it; two faults are a failure and
the failure of its retry. The DASH
streams need a segment on either side of a period boundary, of a change of `S`
element and of the edge of the window, and a fault at each: four segments and
at most three periods have them all, in streams of their own rather than in one long one.
An ad break is a period of three segments or two of two, so that ads may end with
it, before it or in the middle of a segment. `MaxTime` stands for `UINT64_MAX`. `MAX_SEG_DOWNLOAD_FAIL_COUNT` and
`MAX_MANIFEST_DOWNLOAD_RETRY` are set so low that both limits are reached
within them. Two periods show what one leaves to the next (a base, an init fragment, an
abort), three that nothing builds up; audio and video each have a period in which they
have fewer fragments or begin with one that is discarded. `ads_play` publishes at most `stream.lag` segments between two refreshes,
and has the ads resolved before the content of their break where the stream says
`prompt`. `MCHlsTrack`, `MCMpdTrack` and `MCAdBreaks` list the streams and what may fail in each: faults
whose consequences are known weaknesses (section 7) are left out of the
streams they affect. Bounds are guards of
the actions that count (`MaxRestarts`, `MaxRequests`, `MaxTunes`, `MaxCalls`,
`MaxDiscs`, `MaxUnderflows`, `MaxFragments`, `MaxFaults`, `stream.budget`); the state where a bound
is reached is otherwise like any other, which is why the configurations switch
deadlock checking off: the threads of a stopped player have really ended. `mpd_play`
and `ads_play` keep it on.

The less obvious limits of single properties are part of what they say:
`DiscontinuityIdLive` speaks of calls made on the main loop and of an application's own thread that
neither stops nor zaps (`IdKept`), `StopAwaitsRetune` of the first error of the sink and
`TeardownAwaitsDiscontinuity` of the first discontinuity, and no application of `player` reports
both underflows and ends of a live stream from a thread of its own (section 7 says what happens
beyond each); `UnderflowEnds` speaks of a pipeline that the
re-tune has already paused; `EosReported` speaks of tracks whose source was
given its end; `PauseKept` names three cases in which the code does end a pause (section 3); calls that the player skips as duplicates do not count as asked; `StopsEnd`, `AudioReleased` and `StopEnds`
each name the two states that the code does not get out of by itself (section 7). `RingOK` and `StopsEnd`
conjoin formulas that are each a theorem or a question of their own.

## 4. Fairness

Safety properties need none. Liveness is checked under weak fairness of each
thread's next step: a thread that can run does run, condition variables that
were signalled return, and a timed wait times out. Nothing is assumed of the
network beyond that a request ends (the code sets curl timeouts), of the
application (its calls are never fair), or of the order in which threads are
scheduled. A mutex that another thread takes and releases again and again is
left to the scheduler, and the properties checked do not depend on it. One
condition is strong: `HlsTrack` assumes that the bandwidth estimate does not ask
for another profile at every single check, since a collector that changes its
playlist for ever fetches nothing.

* `MediaTrack`: `RunFetchLoop`, `RunInjectLoop`, `Teardown`.
* `AVSync`: both injectors, `BufferMonitor`, `DiscontinuityStall`, `MainLoop`, `Retune`.
* `DrmSessionManager`: every `LicenseThread(t)` and `Stop` once it has begun.
* `Player`: the work of every context, the main loop, the sink's schedule.
* `Sink`: the steps of each thread.
* `HlsTrack`: the collector thread, the server (`Publish`, `End`), and `ProfileKept`.
* `MpdTrack`: the collector, both injectors, the first frame and the server; and
  strongly `RefreshDue`, the clock of the refresh, which is reached again and again
  by a collector that waits for new segments. The weak fairness of the collector is
  written as a formula over the variables that each of its steps changes
  (`CollectorReady`, `CollectorMoves`), which says the same and is cheaper to check.
* `AdBreaks`: the collector in the same form, the server, the application that
  answers the announcement of a break, and the thread that resolves an ad. That the
  application answers is part of its contract; what happens when it is late is in
  the stream `LateAd`, where it answers at any moment.
* `SegmentProcessors`: both injectors and the player once it has begun something. The
  application need not call `Stop`.

## 5. What is proved

All theorems hold for every value of the constants that satisfies the named
assumptions of the module: `CapacityAssumption` and its neighbours, `DrmAssumption`,
`StreamsAssumption` and `SyncAssumption` (any playlists, any size of the rings),
`ConstantsAssumption` (any application and sink, any number of calls, discontinuities and
errors), `StreamAssumption` (any periods and fragments, with media in the video of each period
and an init fragment first in fragmented MP4), `MpdAssumption` (any periods, `S` elements and
times, any faults and number of them), `AdAssumption` (any periods, breaks, ads and faults,
a window of any size or none). Those about `MediaTrack` assume besides that `fragmentInjected` wakes
nobody without a signal (`"fragmentInjected" \notin SpuriousWakeups`), `EosCorrect` also
the same of `fragmentFetched`.

| Module | Theorem | States |
|---|---|---|
| `MediaTrackProofs` | `TypeCorrect` | `Spec => []TypeOK` |
| | `CountCorrect` | `Spec => []CountInRange` |
| | `RingCorrect` | `Spec => []RingConsistent` |
| | `RingOKCorrect` | `Spec => []RingOK`, the three above together |
| | `FetchSlotCorrect` | `Spec => []FetchSlotFree` |
| | `EosCorrect` | `Spec => EosAfterLastFragment` |
| | `NothingLostCorrect` | `Spec => []NothingLost` |
| | `FifoImplemented` | `Spec => ImplementsFifo` |
| `AVSyncProofs` | `SyncTypeCorrect` | `Spec => []TypeOK` |
| | `InjectorsNeverBothWait` | `Spec => []NeverBothWaiting` |
| | `AudioLeadIsBounded` | `Spec => []AudioLeadBounded` |
| | `FlushedOnlyAtDiscontinuity` | `Spec => FlushedAtDiscontinuity` |
| `PlayerProofs` | `PlayerTypeCorrect` | `Spec => []TypeOK` |
| | `DiscontinuityIdIsLive` | `Spec => []DiscontinuityIdLive` |
| | `StopAwaitsTheRetune` | `Spec => StopAwaitsRetune` |
| | `TeardownAwaitsTheDiscontinuity` | `Spec => TeardownAwaitsDiscontinuity` |
| `SinkProofs` | `SinkTypeCorrect` | `Spec => []TypeOK` |
| | `PauseIsKept` | `Spec => PauseKept` |
| `SegmentProcessorsProofs` | `SegmentTypeCorrect` | `Spec => []TypeOK` |
| | `PeriodsStayIntact` | `Spec => []PeriodIntact` |
| `MpdTrackProofs` | `MpdTypeCorrect` | `Spec => []TypeOK` |
| | `MpdInitFirst` | `SharedInitServed` implies `Spec => []InitFirst` |
| | `MpdCulledBounded` | `GapFree` implies `Spec => []CulledBounded` |
| | `MpdInOrder` | `TimesAscend` implies `Spec => []InOrder` |
| `AdBreaksProofs` | `PlacementsArePaired` | `Spec => []PlacementsPaired`, a part of `EventsPaired` |
| | `TheBreakIsKept` | `Spec => []BreakKept`, the half of `PlayingAdAlive` that is about the break |
| | `FailuresCostNeighbours` | `Spec /\ []PlayingAdAlive => []FailureCostsNeighbour` |
| `DrmSessionManagerProofs` | `OneSlotPerKeyCorrect` | `Spec => []OneSlotPerKey` |
| | `FailedKeyNotRetriedCorrect` | `Spec => []FailedKeyNotRetried` |
| | `NothingAfterStopCorrect` | `Spec => NothingAfterStop` |
| | `InUseEvictedLastCorrect` | `Spec => []InUseEvictedLast` |

### The ring

`CountInRange` is not inductive. The collector increments the count in a
different critical section from the one that found a free slot, so what must
be carried along is *who holds a slot*: between `WaitForFreeFragmentAvailable`
and `UpdateTSAfterFetch` the count is below the capacity (`HoldsFreeSlot`),
and symmetrically a fragment is cached while the injector works on it
(`HoldsFragment`). `RingInv` conjoins these with `TypeOK`, `CountInRange` and
`RingConsistent`. There is a lemma for each conjunct, with a step for each
action that can disturb it; the arithmetic of the wrapping indices is in lemmas
of its own (`IncrementInSlots` and those after it).

The assumption on `fragmentInjected` is needed. The wait is an `if`, so a
wakeup without a signal lets the collector fetch into a full ring, and TLC
finds `CountInRange` violated at once when the constant has it: POSIX allows
such wakeups, and the assertion at `streamabstraction.cpp:225` is what they
would hit. A wakeup of `fragmentFetched` leaves the ring as it is, but the injector
takes it for the end of its fragments, and ends; a collector that finds the end of
the playlist in that moment lets it announce the end of the stream over a full ring.

### What becomes of a fragment

`NothingLost` says where each fragment asked for is. It depends on a moment at
which a fragment is in two places: injected (or given up) and still in its slot,
until `UpdateTSAfterInject` empties it. `HeadAccounted` says that a slot about to be
emptied is one of these; with `RingInv` it makes `DataInv` inductive.

The queue of the refinement is not the ring. Its content (`QueueOfRing`) leaves
out the slot that is about to be emptied (`LeavingSlot`), and the fragment that
is in its slot while the count does not have it yet is put in by
`UpdateTSAfterFetch`. `QueueIsRing` gives the queue element by element as slots from
the inject index on; each step of the track then appends one, takes the head, or
leaves the queue as it is. That the numbers put in rise is `FifoInv`: the fragment in
flight is `nextFragment - 1` (`PendingIsLast`), everything skipped or seen comes before it,
and the newest of those seen exists (`NewestNamed`), which lets the abstract
variable be the `CHOOSE` of it.

### The end of the stream

`EosAfterLastFragment` is an action property. `WokenForReason` carries the argument: an
injector that was woken, or gives up, with nothing in the ring was aborted or has
a collector that adds nothing more. That a collector at its end has asked for
everything is `CollectorAtEnd`. An empty body at the head, which the injector takes for
the end as well, is the case that the property leaves out.

### The cache of DRM sessions

`CacheInv` conjoins `OneSlotPerKey` with what the lock gives: a thread that requests a
license holds `mDrmSessionLock` (`LockInv`), its slot is not marked as failed in between
(`NotFailedInv`), and when `Stop` has ended no thread and no decryptor is left (`JoinedInv`).

The code does delete a session that a track decrypts with, when it is the oldest one
(section 7). `InUseEvictedLast` says when it cannot: not before as many other keys were
asked for as the cache has slots. `RequestInv` and `DecryptorInv` say what a thread knows of
its slot during the request, and that a slot decrypted with holds a ready session of its
key; `AgeInv` that no two keys are equally old, and `AskedInv` that every key used after the
one a track decrypts with was asked for since. So when the oldest slot goes to a new key
(`EvictedIsOldest`), the other slots hold keys that were asked for since, all different, and
the new key is one more: a pigeonhole argument on cardinalities (`EvictedAfterOthers`). It
needs no relation between the number of keys and the size of the cache.

### Two tracks at a discontinuity

That the injectors never both wait in `ProcessDiscontinuity` is a statement about a set of
bits, `mTrackState`, that each injector copies outside the lock and writes back under it
(`readState`, `writeState`): a stale copy can erase the bit of a track that waits.
So "who waits has its bit set" is false. `WaitInv` says what is true: the bit is set, or the
other track has just written and stands at `signalOther`, where it will wake the waiting one.
`RestartInv` keeps this across the player's restart, which starts video while audio is still off.

`FlushedAtDiscontinuity` rests on `EosInv` and `PendingInv`: a source was given its end only by an
injector that stands at a tagged fragment and will not go on by itself, and a track marked as
pending has such a source, up to the step in which the player clears the marks.
Hence a flush finds both tracks between two periods.

`AudioLeadBounded` holds until the first tagged fragment has been processed: the injectors may
run apart at a discontinuity, and do. `QuietInv` says that until then nothing of the protocol
above has begun, `AudioPaced` that audio passes `WaitForVideoTrackCatchup` before each fragment, with
one fragment of slack at each of the places the lead is tested and used.

### The tasks of the player

`IInv` of `PlayerProofs` says first what the program counters mean together: the source that
the main loop runs decides where the loop is (`LoopInv`), the call and its progress decide why a
stream is torn down (`CallInv`).

`DiscontinuityIdLive` needs that an id belongs to one source for ever (`IdsInv`): the id the sink is
about to give out is new, and a task marked as removed has lost its id. The step that could
break it is the end of a teardown that takes the branch of its own task: on the main loop that
is right, for the thread that tears down *is* in that task; `GivenUpInv` carries it over the
report, during which a zap (`Zapping`) may leave the id of the task until its second teardown.
On another thread that branch is reached only by a stop or a zap, which is why `IdKept` leaves them out;
`IdleInv` shows that the other calls find the player in a state in which they do not take it.

The two gates are waited at once, with an `if`. What they promise is true once: until the second
error there is at most one re-tune, decided, queued or running, so a `Stop` that was woken finds
none (`StopInv`); until the second discontinuity a task whose id was taken away, and one a
teardown has waited for, find the flags of the tracks cleared and do nothing (`MoveInv`). Neither
is true beyond, and section 7 has the traces.

### The fragments of a period

`PeriodIntact` speaks of an injector between two fragments. The invariant says what is true
wherever a call is, and in three parts that do not depend on each other's detail.
`HaltInv`: a processor is aborted only after its injector, and starts anew with it; a call that
gives a fragment up therefore belongs to a track that is being stopped. `TSBaseInv` and
`BmffBaseInv`: the base a running track sends with is that of the period being injected. For
transport streams the base of the period before is still there after the reset, and what
keeps audio from it is that it is at `demux` only when it was told a base since. For fragmented MP4 the
order of `sendSegment` is what counts: while video has found the base but not handed it over, audio has
sent nothing, so that the flush in between (`BmffFlush`) discards nothing. `TSSentInv` and
`BmffSentInv`: what the sink has of the period is exactly what the track took, or all of it is kept for later.

`Whole` says what "in order, without loss, from one base" means for the sequence in the sink; it is kept by one
more fragment (`WholeAppends`), by a fragment that is none (`WholeSkips`), and established by
a push of all that was kept (`WholePushes`).

### A pause of the user

`PauseKept` is an action property, and every un-pausing of the pipeline is a step that has
to be shown harmless while the user wants a pause, in any stream. The three states that the property excepts
stop the end of a caching (`pendingPlay`) and of a buffering (`Stops`: who un-pauses for one finds
`underflow` set, since it holds `mBufferingLock` from the look at it to the reset). `Seeks` says that
the sink is configured anew only when no pipeline is left. What remains is the timer of the buffering before
play, which sets `buffering_target_state`, chosen earlier. `PausedTarget` says that the target is not PLAYING
by then, and is not inductive: a seek in pause leaves the target to the display of its
first frame (`DisplayedTask`), which pauses only if it still finds the state SEEKING. So `FrameTarget`
says that only a reported end gets in between, and either its report came after the display or a track had
ended without data (`Bogus`, which lasts as long as the stream, `BogusStays`). That rests on the order of the
idle tasks: but for such an end, the display of
a frame is queued before the end of the stream (`TaskOrder`), and an end signalled before a
first frame comes after all frames (`EndBeforeFrame`).

The theorem has no hypothesis on streams or users. TLC shows that each of the three exceptions is needed: without
one, the pause is lost in the way that section 7 lists for the sink.

### The collector of a DASH stream

`TypeOK` says of `MpdTrack` that no index leaves its timeline, so it cannot stand alone: where a
track is depends on the manifest parsed and on the period the collector is in. `TypeInv` adds
what is published and parsed (`Windows`: the manifest is never ahead of the server), and that
the period whose fragments are asked for is one of the manifest (`InPeriods`). The
timelines behind it follow from `InSequence` alone: the periods and the rows of a window are
intervals, and a period has one `S` element for each row (`TimelineOK`); every move of a track
(`FromOffset`, `FromLastSegment`, `Advance`) ends at such an element or just behind the last one.

`InitFirst` speaks of what a ring was given, and the code of what a track asked for. `InitKnown`
relates the two: they are equal unless the download of the last init fragment failed and left a lower profile
behind (`NotDelivered`; the URL kept is then not the one needed, so `FetchedBefore` asks again), or
an error ended the stream. A track with nothing to ask for was given the init fragment of its
period and profile, and one that still owes a discontinuity has `profileChanged` set. The theorem
assumes `SharedInitServed`: when all periods share one init fragment its download does not fail, for
otherwise the URL looks fetched already (section 7, `fragmentcollector_mpd.cpp:1490`).

`CulledBounded`: `CulledInv` says that the period list `GetCulledSeconds` compares with is that of a
manifest `w` that was parsed earlier, and that no more is counted than the segments before it. One
call counts the periods that are gone (`DurationsBefore`: they last as long as the segments
of `w` in them) and the part of the first one that is left by the difference of start times
(`CulledSince`). The difference is at most that of the segments in between when the period has no gap,
which is what `GapFree` says of live streams; with a gap the code counts time that no segment
took, and the comparison with segments means nothing. The difference is unsigned, and wraps when
the first start time goes back within a period: `CulledBounded` stops to hold there (`StartWentBack`),
which `LiveReset` reaches, and `StaysBack` shows that the exception is for good.

`InOrder` compares a segment with the last one its ring was given; a track only remembers times,
and forgets where it was with every refresh. `Orderly` says what is left: `Known` that
`lastSegmentTime`, when it is set, is the time of that last segment, and `Ahead` that while a
period is fetched the place of the track is `Beyond` it where `lastSegmentTime` cannot tell (it is 0
after a new period, and also after a segment at time 0, which a live stream finds again by
`lastSegmentDuration`). Where it can tell, `IsNew` skips what is old, and every move of a track
(`PositionIs`, `AdvanceAhead`) keeps `Known` and `Ahead`, whether its download is cached, fails,
ramps down or is skipped. `Onward` says that the periods are entered one after the other, and that only a
live stream looks its period up again (`ReselectOnward`: never one before it, even when it was culled).

The theorem names one condition. `TimesAscend`: the times of a period ascend, over no more than
`TIMELINE_START_RESET_DIFF` (`fragmentcollector_mpd.cpp:62`); times that start again make an older
segment look new, or a newer one old. `VodReset` and `LiveReset` of `MCMpdTrack` do not meet it, and
there TLC alone checks `InOrder`, within their bounds. Playback may start anywhere in a period,
live or not: a ring was given nothing then, so nothing can be out of order. That it also begins
where it was asked to is a part of `NothingLeftOut`, with one exception: a download that fails
before the first segment leaves `lastSegmentTime` at 0 (the comment at
`fragmentcollector_mpd.cpp:1858` tells of it), and a refresh then restarts at the beginning of the
period. `delivered[m].lost` remembers such a failure as 0; `LiveSeek` reaches the restart, and TLC
reports it when the exception is dropped.

### Ad breaks

`PlacementsPaired` follows from what each event tells (`Tells`): it reports a placement as started
or ended exactly when it enters or leaves `IN_ADBREAK_AD_PLAYING`, and ends a reservation
only outside that state. The report is open while an ad is played (`Paired`), and nothing else is needed: the
theorem has no hypothesis.

`BreakKept` says what `PrunePeriodMaps` keeps: the break that `mCurPlayingBreakId` names is in
`mAdBreaks`, and so is the break of the ad that is played or waited behind, unless its period has left
the manifest. It is inductive once the breaks of the map begin in periods that have been
published and the manifest does not go back (`KeptInv`); the rest is that no event names a break that is not
there (`StartOfAd`, `PeriodChangeKept`) and that `PlaceAds` and `FulFillAdObject` add ads and
erase nothing. The theorem has no hypothesis. The stronger statement, that the ad played is always there, is false
of the code for two breaks in a row (`MCOvertaken`, section 7) and not proved for the others: that the
index is one of the ads follows from what `PlaceAds` writes into `offset2Ad` over several manifests.
`PlayingAdAlive` as a whole is therefore model-checked, on streams in which it holds.

`FailureCostsNeighbour` bounds what a failure costs. An initialization that fails is acted on at once; the
failure of fragments is noted in `mAdFailed` and acted on when the next period is entered. `Flagged` says
what the flag means until then: an ad is played or waited behind, and it is the one that failed. The flag is raised
for the ad that is played only (`BlameAtFetch`) and survives its end. The step that enters the next period
first lets the event of the change leave the index or add one to it (`PeriodChangeBlames`), then gives up the ad at
the new index and clears the flag (`BlameAtEnter`). `Blamed` is the property itself.
The hypothesis `[]PlayingAdAlive` is needed because without it `mCurAds->at(mCurAdIdx)` is
no element of the vector, and what the code marks there is undefined. It is a property of the run, not a
condition on the streams, and no stream is left out: `FragmentsFail`, on which the
stronger `OnlyFailedAdsInvalid` fails (finding 3), is one of `ads_play`.

### Numbers

Sums and minima over segments are defined by folds. Facts about them that other proofs would take by
induction are shown by a least counterexample: a non-empty set of naturals has a least
element (`MinIn`), at which the step from its predecessor fails.

### What is not

* Liveness (`CallsReturn`, `AudioReleased`, `StopEnds`, `ReachesEnd` and the others) is model-checked
  only: it needs fairness and `ENABLED`, which this prover does not handle.
* `ContentKept`, `EventsPaired` and `PlayingAdAlive` of `AdBreaks`. `ContentKept` adds up durations of segments and of
  ads and compares them within `Slack`: it says what the loops of `PlaceAds` compute over several
  manifests together, which is induction over data. Of `EventsPaired` the placements are proved; of `PlayingAdAlive` the break; that a
  reservation ends once for each start depends on which offset each ad was placed at, and so does the index of the ad: the same computation.
* `HlsTrack`: the searches in a playlist are recursive over the playlist, and their results for every
  input need induction over data, which the library's theorems cannot be instantiated for.
* `NothingLeftOut` of `MpdTrack` is model-checked. It says that the segment a ring is given is the
  next one, and the first one that to start from, so a proof has to carry that each way of finding a place again ends exactly behind
  the last segment, or behind those that were lost or withdrawn; `Beyond` bounds the
  place from one side only.

## 6. Findings

1. **Stop can hang on a VOD track** (`streamabstraction.cpp:348`). The
   collector reads `abort` before it takes the mutex and waits without a
   timeout; an abort in between is lost.
2. **The end of a starving stream can deadlock** (`aampgstplayer.cpp:3725`):
   `mLock` and `mBufferingLock` are taken in both orders.
3. **A failed ad costs the next one** (`fragmentcollector_mpd.cpp:1531`): the failure is
   noted when a fragment fails and acted on when the next period is entered; an ad that fails at its
   end stays valid, and the one behind it is given up.

Each is the counterexample of a run in section 3; `PROJECT.json` quotes the line
of the repository that promises otherwise.

## 7. Known weaknesses outside the properties

Seen while modelling, with no property of their own; where a module contains
the interleaving, the scenarios of the runs keep it out and say so.

### Player, tracks, sink, DRM

* `priv_aamp.cpp:6378`: the wait of `Stop` for a re-tune is an `if`; when a second
  re-tune has begun before `Stop` gets the lock, the stream it works on is deleted.
  With `MaxUnderflows = 2`, and without the condition on the first error, TLC finds `StopAwaitsRetune` violated.
* `priv_aamp.cpp:4545`: the wait of a teardown for the discontinuity task is an `if`, and the task
  looks once whether it was removed (line 339). With a second discontinuity, a task that was
  past that look moves the sink though its teardown went on.
* `priv_aamp.cpp:4549`: a teardown that takes a queued discontinuity task out of the main loop
  signals nobody. On a live stream whose sink reports underflows and ends of stream, with an application on a
  thread of its own, a seek can wait for `mCondDiscontinuity` during the discontinuity that
  the end of stream runs; the seek to the live point of a later end then removes the task that would have
  woken it, and the call never returns. `CallsReturn` fails with such an application, and
  none is in the run.
* `drm/AampDRMSessionManager.cpp:215`: `clearFailedKeyIds` leaves the session of a
  failed key in its slot, and the next tune takes its error state for the answer:
  a key that failed stays failed. `DrmSessionManager` has it.

* `streamabstraction.cpp:2171`: an injector waits for `mStateCond` without a
  look at the abort flag. A `Stop` or a `StopInjection` that aborts it on its way to that wait
  joins it only if the other track signals. `StopsEnd` names the state
  (`InjectorMissedAbort`) beside that of finding 1, and allows no other.
* `priv_aamp.cpp:4545`: a seek from a progress event on the main loop can wait
  for a discontinuity task that only the waiting thread could run.
* `priv_aamp.cpp:4525`: a first frame shown after `Stop` announced idle sets
  PLAYING again, and the teardown does not wait for the discontinuity task.
* `priv_aamp.cpp:4558`: a stop from a thread of the application whose state was overwritten like that, or a
  tune over an open session (a zap), takes the branch of a task's own teardown while the task
  of the main loop is in a report: the id stays set, and no later discontinuity
  of the stream is handled. `IdKept` keeps both out of `DiscontinuityIdLive`.
* `priv_aamp.cpp:6733`: `ScheduleRetune` reads state and seek flag without a
  lock and can start a stopped player again.
* `priv_aamp.cpp:4921`: `TuneHelper` returns on a failed `Init` before it
  clears the seek flag.
* `priv_aamp.cpp:393`: a re-tune on the main loop and a seek on another thread
  run `TuneHelper` at the same time.
* `priv_aamp.cpp:2855`: the marks of a discontinuity are cleared after the
  injectors run again; with a second one a fragment later that one is forgotten.
* `main_aamp.cpp:683`: `SeekAfterPrepared` returns true after a seek, which
  keeps the idle source alive.
* `main_aamp.cpp:476`: a pause while an underflow has the pipeline paused is
  skipped as a duplicate, and lost when the buffering ends.
* `aampgstplayer.cpp:3507`: a pause of the user during the initial caching, before its first frame
  is displayed, is undone when the caching ends.
* `priv_aamp.cpp:6770`: `ScheduleRetune` announces the buffering and then pauses. A user who
  pauses in between owns the pause, and the end of the buffering un-pauses it.
* `priv_aamp.cpp:9169`: after a seek in pause near the end, to where audio has nothing more, the end is
  reported before the first frame is displayed: the state is COMPLETE, the frame does
  not pause, and the buffering before play ends by playing.
* `aampgstplayer.cpp:2461`: the end of a track that pushed nothing is discarded
  as bogus while the other track plays, and never reported again.
* `aampgstplayer.cpp:690` and `1367`: ids of sources that `Stop` can no longer
  remove.
* `drm/AampDRMSessionManager.cpp:970`: with more keys in use than slots, a
  session in use is evicted, against the comment at 953: no caller marks a session as
  primary. `DrmSessionManager` has it, and `InUseEvictedLast` says which one goes.
* `drm/AampDRMSessionManager.cpp:463`: `IsKeyIdUsable` answers the opposite.

### HLS

* `fragmentcollector_hls.cpp:3255`: a failed playlist undoes a change of profile in part:
  `mPlaylistUrl` and the request for the init fragment are not restored, and
  fragments of the new profile end up behind the init fragment of the old one.
  `hls_play` leaves failing playlists out of the streams with a change of profile.
* `fragmentcollector_hls.cpp:3241`: a live playlist that gets its ENDLIST tag
  after its window has slid is read from its top, against a target that counts
  from the first window: fragments are skipped.
* `fragmentcollector_hls.cpp:1830`: after a gap in the sequence the first
  fragment that is still there is taken for the last one asked for, and passed
  over with the discontinuity and the init fragment of its period. The model
  counts it as lost.
* `fragmentcollector_hls.cpp:1749`: a fragment is omitted for the other track, and
  the download of the next one fails: the rescan of a VOD playlist has no mark
  for it any more. The same for a marked fragment given up at the lowest profile.
* `fragmentcollector_hls.cpp:1732`: a fragment is omitted while an init fragment
  is pending, by an offset that is not a multiple of its duration: one more
  fragment is skipped.
* `fragmentcollector_hls.cpp:1899`: trick play moves its target on although only an
  init fragment was found.
* `fragmentcollector_hls.cpp:6695`: a ramp-down after a failed init fragment does
  not note the profile it leaves, and a playlist that fails next restores an
  older one.
* `fragmentcollector_hls.cpp:6588`: each track may wait for the refresh of the
  other's playlist while it looks for the other's discontinuity.

### DASH

* `fragmentcollector_mpd.cpp:1858`: after a seek, the first fetch of audio fails and
  the manifest is refreshed: audio starts again from the beginning of the period,
  which the comment at that line says was repaired. `NothingLeftOut` names the case,
  and `LiveSeek` reaches it.
* `fragmentcollector_mpd.cpp:1794`: from a first segment at time 0 the next one is asked
  for before it is announced.
* `fragmentcollector_mpd.cpp:7849`: `Start` starts the injectors of the tracks the
  first period has. When that period has no audio, the audio of a later one is
  cached and never injected.
* `fragmentcollector_mpd.cpp:1490`: an init fragment that several periods share is not
  asked for again when its download failed.
* `GlobalConfigAAMP.h:61`: the fail limit is above what a ring holds before playback
  starts: with one profile that fails again and again, collector and player wait
  for each other.
* `fragmentcollector_mpd.cpp:5188`: the mark of a discontinuity is lost with an init
  fragment that fails and is fetched again from a lower profile.
* `fragmentcollector_mpd.cpp:7658`: a stale manifest without the period being played
  makes the collector start again from the first period it lists.
* `fragmentcollector_mpd.cpp`, start times that begin again within a period: without
  the adjustment to live, the next refresh fetches an old segment again; a time of 0
  makes `lastSegmentTime` wrap; audio is not looked at; and when the old rows are
  gone with the boundary, the reset is not seen at all.
* `GetCulledSeconds`: nothing is counted between a seek and the first refresh, nor
  when start times are 0; it is too low when a whole period goes at once, and wraps
  when the first start time goes back (`StartWentBack`, reached by `LiveReset`).
  `CulledBounded` states the side that holds, up to that point.

### Ads

* `fragmentcollector_mpd.cpp:8505`: a break begins where the one before ends, and that one was left in
  `IN_ADBREAK_AD_NOT_PLAYING`, its ad having failed. The ads of the second are played while
  `mCurPlayingBreakId` names the first. `PrunePeriodMaps` goes by that name, erases the second break
  when its period has left the manifest and deletes the manifests of its ads while one is played, against
  `admanager_mpd.cpp:108` ("We should not remove the pending/playing adbreakObj"); and behind the ads
  the content goes on where the first break ended. `AdPlay.cfg` with `Streams <- MCOvertaken` finds it
  as a violation of `PlayingAdAlive`.
* `admanager_mpd.cpp:258`: when each refresh brings less than `OFFSET_ALIGN_FACTOR` of new
  content, the last ad is never placed and the player waits behind the ad
  before it for ever. The streams have longer segments.
* `fragmentcollector_mpd.cpp:7238`: of two ads in a row whose manifests have the same
  period id, the second ends at once.
* `fragmentcollector_mpd.cpp:7510` and `7550`: after the offset of the base period was
  changed the loop breaks and `iPeriod` is incremented: the rest of that period is skipped.
* `fragmentcollector_mpd.cpp:8548`: after a failed ad the content begins again at the
  start of the base period.
* `fragmentcollector_mpd.cpp:7505` and `admanager_mpd.cpp:444`: a negative
  `mBasePeriodOffset` is converted to `uint64_t`. The model compares it either way (`Reaches`).
* `fragmentcollector_mpd.cpp`, `onAdEvent`: after the last ad no
  `RESERVATION_END` is sent when the break is left from `IN_ADBREAK_AD_NOT_PLAYING`,
  and a second `RESERVATION_START` when its last ad fails; the break being played is not
  updated for one that follows at once; a break without ads does not reset the offset.
* `admanager_mpd.cpp:750`: the event that rejects an ad carries the id of the one
  before; `ret` is declared twice (lines 731 and 742).
* `admanager_mpd.cpp`: an ad reserved after its break was placed is never placed; the
  first ad of a second break overwrites the placement of a pending one; the maps are
  read by `PlaceAds`, `PrunePeriodMaps` and `SetAlternateContents` without `mDaiMtx`;
  an open period that leaves the manifest before its ads are placed is waited for for ever;
  on VOD nothing is ever placed.
* Seeks into an ad ignore `adStartOffset`; `SeekInPeriod` counts from the first segment
  still available, not from the start of the period.

### Segment processors

* `isobmff/isobmffprocessor.cpp:105`: audio waits for the base of video without a look at
  `abortAll`. An abort between its check and the wait is lost, and `StopInjectLoop`
  never joins it (`AbortLost`; without it `StopEnds` and `AudioReleased` are violated).
* `isobmff/isobmffprocessor.cpp`: `sendSegment` returns true for a fragment given up on
  abort; its interface (`mediaprocessor.h`) says "true if fragment was sent".
* `fragmentcollector_hls.cpp:6912`: `StartInjection` starts the injector of video before it
  resets the processor of audio. A base that video hands over in between is wiped by that reset,
  and audio waits until the next stop (`wiped`; without it `AudioReleased` is violated). `Start` (line 5748)
  has the same order.
* `tsprocessor.cpp:2125`: that the base is still to be handed over is a local variable of `demuxAndSend`. When the
  first segment of video has a PCR but no time stamp of its own, the base is never handed over.
* `isobmff/isobmffprocessor.cpp:231`: a media fragment of video whose time stamp cannot be read is sent ahead of
  its init fragment and of the flush.
* `tsprocessor.cpp:2377`: the wait for the base is an `if`; a wakeup without a signal lets audio go on with
  the base of the period before.
* `isobmff/isobmffprocessor.cpp`: after a detach and a resume the processor has neither init
  fragment nor time scale, and the next media fragment is reported as lacking its init fragment.
* `tsprocessor.cpp`, audio of a muxed stream: one segment is queued while video has not
  begun; a second one overwrites it.

### Playlist cache and pre-cache thread

* `priv_aamp.cpp:8862`: the pre-cache thread waits for `waitforplaystart` without a predicate. When
  the broadcast of `Stop` (line 6441) comes before that wait, `Stop` joins the thread
  (line 6445) for ever.
* `priv_aamp.cpp:8868`: the condition (not released *or* not idle) is always true.
* `fragmentcollector_hls.cpp:5826`: the HLS `Stop` enables downloads again; the pre-cache thread
  may then sleep its whole interval while the player's `Stop` waits for it.
  Its list, `mPreCacheDnldList`, is shared without a lock.
* `AampCacheHandler.cpp`, `AsyncCacheCleanUpTask`: the cache is cleared without its mutex. A
  timed wait that expires as `StartPlaylistCache` signals clears the cache of
  the new tune, for `mCacheActive` is not read again; a signal during the wait
  that is followed by a stop cancels the clearing. The constructor sets
  `mAsyncCacheCleanUpThread` after it has created the thread, which may end at once.
* `AampCacheHandler.cpp`: `InsertToPlaylistCache` overwrites an entry under the effective URL
  (a leak, and `mCacheStoredSize` stays too high); `AllocatePlaylistCacheSlot` refuses an
  entry when what it freed is less than the length asked for, having evicted everything.

### AES-128

* `drm/aes/aamp_aes.cpp:241`: `Stop` wakes a track that waits for a key; the track joins
  the thread that acquires it while it holds the mutex that thread needs. With two
  tracks and rotating keys a waiter that is woken late does the same without a stop.
* `drm/aes/aamp_aes.cpp`: there is one decryptor for all tracks; with different or
  rotating keys one track decrypts with the key of the other.
* `drm/aes/aamp_aes.cpp:297`: a fragment is lost when the other track restarts the
  acquisition while it waits (`if`, not `while`).
* `drm/aes/aamp_aes.cpp:63`: a fetch aborted by a seek may report an error once downloads
  are enabled again.
* `drm/aes/aamp_aes.cpp:363`: `Release` waits 20 s for a thread that has ended.

## 8. What is not modelled

Parsers and formats (playlists, manifests, transport streams, ISO BMFF boxes,
subtitles), challenges and licenses, the wording of events, logging, metrics,
and the services of the platform behind OTA, HDMI and composite inputs, output
protection and shared memory. They have no protocol of their own, or their
protocol is on the other side of an interface that is not in the repository.
What has one and is not modelled yet is in the plan.

## 9. Plan

### Modules, in order

| Step | Modules | What they bring |
|---|---|---|
| 1 done | `FragmentFifo`, `MediaTrack` and their proofs | the ring between a collector and an injector, and its abstract specification |
| 2 done | `AVSync` | two tracks at a discontinuity, and the sink that is flushed between them |
| 3 done | `DrmSessionManager` and its proofs | slots shared by the tracks of two tunes |
| 4 done | `Player` | the calls of the application against the main loop |
| 5 done | `Sink` and its proofs | buffering, pause and end of stream of the pipeline |
| 6 done | `HlsTrack` | what the HLS collector asks the server for: the position in a playlist that slides, ends or changes profile |
| 7 done | `MpdTrack` | the DASH collector: periods, timelines and refreshes for two tracks |
| 8 done | `AdBreaks` and its proofs | ad breaks placed over its content and left again |
| 9 done | `SegmentProcessors` | the base time stamps that the processors of two tracks share |
| 10 | `HlsDiscontinuity` | two collectors that each look for a discontinuity in the other's playlist (`HasDiscontinuityAroundPosition`) and the refresh they wait for; `SubtitleTrack` with it |
| 11 | `Download` | `GetFile`: curl handles, retries, abort by the progress callback, the playlist cache |
| 12 | `Events` | synchronous and pending asynchronous events against `Stop` and the removal of a listener |
| 13 | `AesDecryptor` | the key that one thread acquires while two injectors wait for it, against a stop |

`HlsTrack` and `MpdTrack` are producers for `MediaTrack`: they say which
fragment enters the ring, `MediaTrack` says what becomes of it. `Download` is
the step that both take as one atomic request with a nondeterministic answer.
`SegmentProcessors` belongs between `MediaTrack` and `AVSync`.

### Abstract specifications worth stating

* `FragmentFifo` (done): the ring is a bounded queue.
* A playlist reader: for every track, the sequence of delivered fragments is
  the sequence of published ones without those that were withdrawn or failed.
  `HlsTrack` and `MpdTrack` should both implement it.
* A rendezvous: both tracks leave period `p` before either enters `p + 1`.
  `AVSync` and `SegmentProcessors` should both implement it.
* A session table: at most one session per key, an answer belongs to the key
  it was asked for. `DrmSessionManager` should implement it.

### Theorems worth proving

* `MediaTrack` and `DrmSessionManager` (done): section 5.
* `AVSync`, `Player`, `Sink`, `SegmentProcessors` (done): section 5.
* `MpdTrack`: init fragments, culled seconds, order (done): section 5. Left: `NothingLeftOut`.
* `AdBreaks`: placements, the breaks kept, the ads given up (done): section 5. Left: the index in `PlayingAdAlive`, `ContentKept`
  and the reservations of `EventsPaired`.
* `HlsTrack`: that what was fetched does not come back, for playlists that only slide.

### Runs

A component keeps one run of its normal operation, with all its actions, and a
second one only where the code disagrees with what the repository says. Several
small components share a run when their models are independent.
