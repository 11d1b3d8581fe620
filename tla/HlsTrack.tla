------------------------------ MODULE HlsTrack ------------------------------
(***************************************************************************)
(* The fragment collector of one HLS track (TrackState::RunFetchLoop) and  *)
(* the server it reads from: which fragment it asks for next while its     *)
(* playlist grows, slides, ends, changes profile or cannot be fetched.     *)
(*                                                                         *)
(* A fragment is its media sequence number.  Every fragment lasts D units, *)
(* so that positions and targets are small integers.  The ring behind the  *)
(* collector is module MediaTrack: here it has room, or it has not.  A     *)
(* download is one step.  Not modelled: keys, byte ranges, subtitles, Fog. *)
(*                                                                         *)
(* The stream and what may go wrong with it is chosen by Init:             *)
(*   live    the playlist is not of type VOD                               *)
(*   window  number of fragments a live playlist holds, 0 for all of them  *)
(*   ends    a live playlist gets its ENDLIST tag in the end               *)
(*   lag     fragments by which the top profile is behind                  *)
(*   map     X-MAP tags: "none", "once" (one) or "each" (one per period)   *)
(*   disc    the fragments with a DISCONTINUITY tag, and for each what the *)
(*           other track answers: how much later its own discontinuity is, *)
(*           or NoMatch                                                    *)
(*   video   a video track, with adaptive bitrate                          *)
(*   start   the position to start from                                    *)
(*   delta   0, or the step of trick play over an I-frame playlist         *)
(*   limit   mRampDownLimit, -1 for none                                   *)
(*   faults  what may go wrong: a kind of download, a full ring, a stop    *)
(***************************************************************************)
EXTENDS Integers, FiniteSets, FiniteSetsExt

CONSTANTS Streams,        \* the streams to choose from
          LastFragment,   \* the last fragment of a stream
          TopProfile,     \* profiles are 1 (the lowest) to TopProfile
          MaxSegFail,     \* MAX_SEG_DOWNLOAD_FAIL_COUNT
          MaxRetry,       \* MAX_MANIFEST_DOWNLOAD_RETRY
          MaxFaults       \* bound: failed downloads and times the ring is full

ASSUME HlsAssumption ==
  /\ LastFragment \in Nat \ {0} /\ TopProfile \in Nat \ {0}
  /\ MaxSegFail \in Nat /\ MaxRetry \in Nat /\ MaxFaults \in Nat

D == 2                    \* fragmentDurationSeconds
None == -1                \* no fragment: a null fragmentURI, a null index
NoMatch == -1             \* the other track has no discontinuity around here
NoInit == <<0, 0>>        \* a null mInitFragmentInfo
Profiles == 1..TopProfile

VARIABLES
  stream,
  server,                 \* what is published: [first, last, ended]
  live,                   \* IsLive()
  playlist,               \* the parsed one: [profile, first, last, endlist]
  mPlaylistUrl,           \* the profile whose playlist is fetched next
  playlistCache,          \* profiles in the cache of VOD playlists
  currentProfileIndex, lastSelectedProfileIndex, refreshPlaylist,
  mCheckForRampdown, mRampDownCount, mSkipAbr,
  at,                     \* where the parser is, see TypeOK
  mSkipSegmentOnError, segDLFailCount, manifestDLFailCount,
  eosReached, errorSent,
  pc, mDownloadsEnabled,
  delivered,              \* history: last fragment, last init, mark since
  lost,                   \* history: fragments given up
  faults                  \* budget of failures used

manifests == <<live, playlist, playlistCache, manifestDLFailCount>>
profiles  == <<mPlaylistUrl, currentProfileIndex, refreshPlaylist>>
failures  == <<mSkipSegmentOnError, segDLFailCount>>
history   == <<delivered, lost>>
environ   == <<stream, server, mDownloadsEnabled>>
vars == <<environ, manifests, profiles, lastSelectedProfileIndex,
          mCheckForRampdown, mRampDownCount, mSkipAbr, at, failures,
          eosReached, errorSent, pc, history, faults>>

Kinds == {"http", "timeout", "other"}    \* errors that are told apart

Steps == {"loop", "init", "fetch", "check", "timed", "refresh", "outer", "done"}

TypeOK ==
  /\ stream \in Streams
  /\ server \in [first : 1..LastFragment, last : 1..LastFragment, ended : BOOLEAN]
  /\ live \in BOOLEAN
  /\ playlist \in [profile : Profiles, first : 1..LastFragment,
                   last : 1..LastFragment, endlist : BOOLEAN]
  /\ mPlaylistUrl \in Profiles /\ playlistCache \subseteq Profiles
  /\ currentProfileIndex \in Profiles /\ lastSelectedProfileIndex \in Profiles
  /\ refreshPlaylist \in BOOLEAN /\ mCheckForRampdown \in BOOLEAN
  /\ mRampDownCount \in 0..MaxFaults /\ mSkipAbr \in BOOLEAN
  /\ at \in [uri : None..LastFragment,     \* fragmentURI, 0 for the top of the file
             pos : Int,                    \* playlistPosition, -1 for unset
             target : Int,                 \* playTarget
             next : 1..LastFragment + 1,   \* nextMediaSequenceNumber
             disc : BOOLEAN,               \* discontinuity
             sync : BOOLEAN,               \* mSyncAfterDiscontinuityInProgress
             init : (0..TopProfile) \X (0..LastFragment),  \* mInitFragmentInfo
             inject : BOOLEAN,             \* mInjectInitFragment
             endTag : BOOLEAN,             \* mReachedEndListTag
             idx : None..LastFragment,     \* currentIdx
             iframe : Int]                 \* lastDownloadedIFrameTarget
  /\ mSkipSegmentOnError \in BOOLEAN
  /\ segDLFailCount \in 0..MaxFaults /\ manifestDLFailCount \in 0..MaxFaults
  /\ eosReached \in BOOLEAN /\ errorSent \in BOOLEAN
  /\ pc \in Steps
  /\ mDownloadsEnabled \in BOOLEAN
  /\ delivered \in [media : None..LastFragment + 1,
                    init : (0..TopProfile) \X (0..LastFragment), marked : BOOLEAN]
  /\ lost \subseteq 1..LastFragment
  /\ faults \in 0..MaxFaults

-----------------------------------------------------------------------------
(* The server and its playlists *)

Trick == stream.delta # 0
Tagged(j) == j \in DOMAIN stream.disc

\* A live server publishes fragment after fragment; a window slides.
Publish ==
  /\ server.last < LastFragment
  /\ LET last == server.last + 1 IN
     server' = [server EXCEPT !.last = last,
                  !.first = IF stream.window = 0 THEN @ ELSE Max({@, last + 1 - stream.window})]
  /\ UNCHANGED <<stream, mDownloadsEnabled, manifests, profiles, lastSelectedProfileIndex,
                 mCheckForRampdown, mRampDownCount, mSkipAbr, at, failures, eosReached,
                 errorSent, pc, history, faults>>

End ==
  /\ stream.ends /\ server.last = LastFragment /\ ~server.ended
  /\ server' = [server EXCEPT !.ended = TRUE]
  /\ UNCHANGED <<stream, mDownloadsEnabled, manifests, profiles, lastSelectedProfileIndex,
                 mCheckForRampdown, mRampDownCount, mSkipAbr, at, failures, eosReached,
                 errorSent, pc, history, faults>>

\* The playlist of profile p as the server has it now.
Published(p) ==
  LET behind == IF p = TopProfile /\ ~server.ended THEN stream.lag ELSE 0
  IN [profile |-> p, first |-> server.first,
      last |-> Max({server.first, server.last - behind}), endlist |-> server.ended]

\* The init fragment that goes with fragment j of profile p.
MapOf(p, j) ==
  CASE stream.map = "none" -> NoInit
    [] stream.map = "once" -> <<p, 0>>
    [] stream.map = "each" -> <<p, Max({d \in DOMAIN stream.disc : d <= j} \cup {0})>>

\* A playlist repeats the X-MAP tag in force at its top.
HasMapTag(j) ==
  /\ stream.map # "none"
  /\ j = playlist.first \/ (stream.map = "each" /\ Tagged(j))

-----------------------------------------------------------------------------
(* Finding the next fragment in the playlist *)

\* The X-MAP tags between two fragments: the last one stays, a change is noted.
ReadTags(a, from, to) ==
  LET tags == {j \in from..to : HasMapTag(j)}
  IN IF tags = {} THEN a
     ELSE [a EXCEPT !.init = MapOf(playlist.profile, Max(tags)),
                    !.inject = @ \/ {MapOf(playlist.profile, j) : j \in tags} # {a.init}]

\* From the fragment at a on to the first one that reaches beyond the target.
SeekTarget(a) ==
  LET posOf(j) == a.pos + (j - a.uri) * D
      hits == {j \in a.uri + 1..playlist.last : posOf(j) + D > a.target}
      to == IF hits = {} THEN playlist.last ELSE Min(hits)
  IN [ReadTags(a, a.uri + 1, to) EXCEPT
        !.uri = IF hits = {} THEN None ELSE to, !.pos = posOf(to), !.next = to + 1,
        !.endTag = @ \/ (hits = {} /\ playlist.endlist)]

\* Fault: the mark of a fragment that was skipped is forgotten.
FoundUnsynced(a, discontinuity) ==
  IF a.uri = None THEN a ELSE [a EXCEPT !.disc = discontinuity, !.sync = FALSE]

\* The fragment found starts a period if its tag counts or one was skipped for it.
Found(a, discontinuity) ==
  IF a.uri = None THEN a
  ELSE [a EXCEPT !.disc = discontinuity \/ a.sync, !.sync = FALSE]

\* GetNextFragmentUriFromPlaylist.  A tagged fragment counts if the other track
\* has a discontinuity around it, and is skipped if that one is clearly later.
NextFragmentUri(from, ignoreDiscontinuity) ==
  IF from.pos = from.target \/ from.uri = None THEN from
  ELSE LET a == IF from.pos = -1 THEN [from EXCEPT !.uri = playlist.first - 1, !.pos = -D]
                ELSE from
           b == SeekTarget(a)
           tagged == ~ignoreDiscontinuity /\ Tagged(b.uri)
           c == [b EXCEPT !.inject = @ \/ (tagged /\ b.init # NoInit)]
       IN IF tagged /\ stream.disc[b.uri] > D \div 2
          THEN Found(SeekTarget([c EXCEPT !.target = b.pos + stream.disc[b.uri],
                                          !.sync = TRUE]), FALSE)
          ELSE Found(c, tagged /\ stream.disc[b.uri] # NoMatch)

\* Fault: the next fragment instead of the last one, which the search then skips.
FindNextMedia(a, list) ==
  LET found == {j \in list.first..list.last : j >= a.next}
  IN IF found = {} THEN [a EXCEPT !.uri = None]
     ELSE [a EXCEPT !.uri = Min(found), !.init = MapOf(list.profile, Min(found)),
                    !.next = Min(found) + 1]

\* FindMediaForSequenceNumber: the last fragment asked for, or the first one
\* after it that is still there.
FindMedia(a, list) ==
  LET wanted == a.next - 1
      found == {j \in list.first..list.last : j >= wanted}
      j == Min(found)
  IN IF found = {} THEN [a EXCEPT !.uri = None]
     ELSE [a EXCEPT !.uri = j, !.init = MapOf(list.profile, j),
                    !.next = IF j = wanted THEN @ ELSE j + 1]

\* GetFragmentUriFromIndex: the I-frame at the target, in the direction of play.
IndexedFragment ==
  LET completion(j) == (j - playlist.first + 1) * D
      ahead == {j \in (IF at.idx = None THEN playlist.first ELSE at.idx)..playlist.last :
                  completion(j) >= at.target}
      behind == {j \in playlist.first..(IF at.idx = None THEN playlist.last ELSE at.idx) :
                   completion(j) <= at.target}
      hits == IF stream.delta > 0 THEN ahead ELSE behind
      j == IF stream.delta > 0 THEN Min(hits) ELSE Max(hits)
      init == MapOf(playlist.profile, j)
  IN IF hits = {} THEN [at EXCEPT !.uri = None]
     ELSE [at EXCEPT !.uri = j, !.idx = j, !.iframe = completion(j),
                     !.init = IF init = NoInit THEN @ ELSE init,
                     !.inject = @ \/ init \notin {NoInit, at.init}]

-----------------------------------------------------------------------------
(* Profiles *)

\* Fault: a live track keeps the init fragment of the profile it leaves.
KeepsInit(a) == IF live THEN a ELSE [a EXCEPT !.inject = TRUE]

\* The next fragment needs its init fragment first.
NeedsInit(a) == [a EXCEPT !.inject = TRUE]

\* ABRProfileChanged, after the index was changed to p.
ProfileChanged(p) ==
  /\ currentProfileIndex' = p
  /\ mPlaylistUrl' = p
  /\ refreshPlaylist' = TRUE

\* CheckForRampDownProfile: the profiles a failed download may lead to.  After a
\* timeout the buffer decides, and the next lower one is taken if it does not.
RampDownTargets(kind) ==
  IF currentProfileIndex = 1 THEN {}
  ELSE CASE kind = "http" -> {IF Trick THEN 1 ELSE currentProfileIndex - 1}
         [] kind = "timeout" -> Profiles \ {currentProfileIndex}
         [] kind = "other" -> {}

\* CheckForRampDownLimitReached
LimitReached == stream.limit >= 0 /\ mRampDownCount >= stream.limit

Ramp(p) ==
  /\ ProfileChanged(p)
  /\ mCheckForRampdown' = TRUE
  /\ mRampDownCount' = IF stream.limit > 0 THEN mRampDownCount + 1 ELSE mRampDownCount

NoRamp ==
  /\ mRampDownCount' = 0
  /\ UNCHANGED profiles

\* A download of this kind fails now, within the budget.
Fault(what) ==
  /\ what \in stream.faults /\ faults < MaxFaults
  /\ faults' = faults + 1

-----------------------------------------------------------------------------
(* RunFetchLoop *)

\* The head of the inner loop.  Without an init fragment there is none to inject.
Loop ==
  /\ pc = "loop"
  /\ IF at.uri = None \/ ~mDownloadsEnabled
     THEN pc' = "outer" /\ UNCHANGED at
     ELSE /\ pc' = IF at.inject /\ at.init # NoInit THEN "init" ELSE "fetch"
          /\ at' = [at EXCEPT !.inject = @ /\ at.init # NoInit]
  /\ UNCHANGED <<environ, manifests, profiles, lastSelectedProfileIndex, mCheckForRampdown,
                 mRampDownCount, mSkipAbr, failures, eosReached, errorSent, history, faults>>

\* WaitForFreeFragmentAvailable gave up: a live track's timeout, or a stop.
RingFull ==
  /\ pc \in {"init", "fetch"}
  /\ \/ ~mDownloadsEnabled /\ UNCHANGED faults
     \/ live /\ Fault("ring")
  /\ pc' = "check"
  /\ UNCHANGED <<environ, manifests, profiles, lastSelectedProfileIndex, mCheckForRampdown,
                 mRampDownCount, mSkipAbr, at, failures, eosReached, errorSent, history>>

\* FetchInitFragment
InitPushed ==
  /\ pc = "init" /\ mDownloadsEnabled
  /\ delivered' = [delivered EXCEPT !.init = at.init, !.marked = @ \/ at.disc]
  /\ at' = [at EXCEPT !.inject = FALSE, !.disc = FALSE]
  /\ mSkipAbr' = TRUE
  /\ pc' = "fetch"
  /\ UNCHANGED <<environ, manifests, profiles, lastSelectedProfileIndex, mCheckForRampdown,
                 mRampDownCount, failures, eosReached, errorSent, lost, faults>>

InitFails(kind) ==
  /\ pc = "init" /\ mDownloadsEnabled /\ Fault("init")
  /\ pc' = "check"
  /\ \/ /\ stream.video /\ ~LimitReached
        /\ \E p \in RampDownTargets(kind) : Ramp(p)
        /\ UNCHANGED errorSent
     \/ /\ stream.video => LimitReached \/ RampDownTargets(kind) = {}
        /\ errorSent' = TRUE
        /\ IF stream.video THEN NoRamp ELSE UNCHANGED <<profiles, mRampDownCount>>
        /\ UNCHANGED mCheckForRampdown
  /\ UNCHANGED <<environ, manifests, lastSelectedProfileIndex, mSkipAbr, at, failures,
                 eosReached, history>>

\* FetchFragmentHelper up to the download: the parser at the next fragment, with
\* the target of the one after it.
Ahead ==
  IF Trick
  THEN LET a == IndexedFragment
           back == IF a.uri = None \/ a.target = 0 THEN a.target
                   ELSE Max({0, a.target + stream.delta})
       IN [a EXCEPT !.target = IF stream.delta > 0 THEN @ + stream.delta ELSE back]
  ELSE LET a == NextFragmentUri(at, FALSE)
       IN [a EXCEPT !.target = IF a.uri # None /\ ~a.inject THEN a.pos + D ELSE @]

\* The end was reached: no more fragments, or a rewind at the beginning.
AtEnd(a) ==
  IF Trick THEN a.uri = None \/ (stream.delta < 0 /\ at.target = 0)
  ELSE a.uri = None /\ (~live \/ a.endTag) /\ a.pos # -1

\* An init fragment goes first, and an I-frame that was the last one too is not
\* fetched again.
Downloads(a) ==
  a.uri # None /\ ~a.inject /\ ~(Trick /\ at.iframe # -1 /\ a.iframe = at.iframe)

\* FetchFragment, with nothing to download: the end, a live playlist that has to
\* grow, an init fragment that goes first, or the same I-frame again.
FetchNothing ==
  /\ pc = "fetch" /\ mDownloadsEnabled
  /\ LET a == Ahead IN
     /\ ~Downloads(a)
     /\ at' = a
     /\ eosReached' = (eosReached \/ AtEnd(a))
  /\ mCheckForRampdown' = FALSE
  /\ pc' = "check"
  /\ UNCHANGED <<environ, manifests, profiles, lastSelectedProfileIndex, mRampDownCount,
                 mSkipAbr, failures, errorSent, history, faults>>

\* FetchFragment, with a fragment that enters the ring.
FragmentPushed ==
  /\ pc = "fetch" /\ mDownloadsEnabled
  /\ LET a == Ahead IN
     /\ Downloads(a)
     /\ at' = a
     /\ eosReached' = (eosReached \/ AtEnd(a))
     /\ delivered' = [delivered EXCEPT !.media = a.uri, !.marked = FALSE]
  /\ mCheckForRampdown' = FALSE
  /\ mRampDownCount' = IF stream.video THEN 0 ELSE mRampDownCount
  /\ segDLFailCount' = 0
  /\ mSkipAbr' = FALSE
  /\ pc' = "check"
  /\ UNCHANGED <<environ, manifests, profiles, lastSelectedProfileIndex, mSkipSegmentOnError,
                 errorSent, lost, faults>>

\* FetchFragment, with a download that fails.  A video track steps down and asks
\* for the same fragment there; otherwise the fragment is given up.
FragmentFails(kind) ==
  LET a == Ahead
      count == IF mSkipSegmentOnError THEN segDLFailCount + 1 ELSE segDLFailCount
      step == IF Trick THEN stream.delta ELSE D
  IN
  /\ pc = "fetch" /\ mDownloadsEnabled /\ Fault("fragment") /\ Downloads(a)
  /\ pc' = "check"
  /\ eosReached' = (eosReached \/ AtEnd(a))
  /\ segDLFailCount' = count
  /\ errorSent' = (errorSent \/ MaxSegFail <= count)
  /\ lastSelectedProfileIndex' = IF stream.video THEN currentProfileIndex
                                 ELSE lastSelectedProfileIndex
  /\ \/ /\ stream.video /\ ~LimitReached
        /\ \E p \in RampDownTargets(kind) : Ramp(p)
        /\ at' = NeedsInit([a EXCEPT !.target = @ - step, !.iframe = -1])
        /\ mSkipSegmentOnError' = FALSE
        /\ UNCHANGED lost
     \/ /\ stream.video => LimitReached \/ RampDownTargets(kind) = {}
        /\ IF stream.video THEN NoRamp ELSE UNCHANGED <<profiles, mRampDownCount>>
        /\ mCheckForRampdown' = FALSE
        /\ at' = [a EXCEPT !.iframe = -1]
        /\ mSkipSegmentOnError' = TRUE
        /\ lost' = lost \cup {a.uri}
  /\ UNCHANGED <<environ, manifests, mSkipAbr, delivered>>

\* After the fetch: a stopped collector leaves the loop; a video track looks
\* for another profile, unless an init fragment is or was under way.
Check ==
  /\ pc = "check"
  /\ IF ~mDownloadsEnabled
     THEN pc' = "outer" /\ UNCHANGED <<profiles, lastSelectedProfileIndex, at>>
     ELSE /\ pc' = "timed"
          /\ IF stream.video /\ ~Trick /\ ~at.inject /\ ~mSkipAbr
             THEN /\ lastSelectedProfileIndex' = currentProfileIndex
                  /\ \/ UNCHANGED <<profiles, at>>
                     \/ /\ ~mCheckForRampdown
                        /\ \E p \in Profiles \ {currentProfileIndex} : ProfileChanged(p)
                        /\ at' = NeedsInit(at)
             ELSE UNCHANGED <<profiles, lastSelectedProfileIndex, at>>
  /\ UNCHANGED <<environ, manifests, mCheckForRampdown, mRampDownCount, mSkipAbr, failures,
                 eosReached, errorSent, history, faults>>

FlushIndex(a) == [a EXCEPT !.init = NoInit, !.idx = None]

\* An ENDLIST tag makes the track VOD, and a VOD playlist is kept in the cache.
IndexPlaylist(list) ==
  /\ playlist' = list
  /\ live' = (live /\ ~list.endlist)
  /\ playlistCache' = IF live' THEN playlistCache ELSE playlistCache \cup {list.profile}

\* RefreshPlaylist with an answer, from the server or the cache.  A live
\* track goes on at its sequence number, a VOD playlist is read from the top.
RefreshOk(list) ==
  LET a == FlushIndex(at)
      found == FindMedia(a, list)
  IN
  /\ IndexPlaylist(list)
  /\ manifestDLFailCount' = 0
  /\ at' = IF live' THEN found ELSE [a EXCEPT !.uri = 0, !.pos = -1]
  /\ lost' = IF live' /\ found.next # a.next /\ found.pos # found.target
             THEN lost \cup {found.uri}    \* taken for the last one, and passed over
             ELSE lost
  /\ UNCHANGED <<mPlaylistUrl, currentProfileIndex, errorSent, faults>>

\* RefreshPlaylist with an error: the old playlist stays, and after a change of
\* profile its index; timeouts are not counted.
RefreshFails(kind) ==
  /\ Fault("playlist")
  /\ live \/ mPlaylistUrl \notin playlistCache
  /\ currentProfileIndex' = IF refreshPlaylist THEN lastSelectedProfileIndex
                            ELSE currentProfileIndex
  /\ IF kind = "timeout"
     THEN UNCHANGED <<manifestDLFailCount, errorSent>>
     ELSE /\ manifestDLFailCount' = manifestDLFailCount + 1
          /\ errorSent' = (errorSent \/ (at.uri = None /\ manifestDLFailCount' > MaxRetry))
  /\ UNCHANGED <<live, playlist, playlistCache, mPlaylistUrl, at, lost>>

RefreshPlaylist ==
  /\ \/ RefreshOk(Published(mPlaylistUrl))
     \/ \E kind \in Kinds : RefreshFails(kind)
  /\ refreshPlaylist' = FALSE
  /\ UNCHANGED <<environ, lastSelectedProfileIndex, mCheckForRampdown, mRampDownCount,
                 mSkipAbr, failures, eosReached, delivered>>

Keep == UNCHANGED <<environ, manifests, profiles, lastSelectedProfileIndex, mCheckForRampdown,
                    mRampDownCount, mSkipAbr, at, failures, eosReached, errorSent, history,
                    faults>>

\* A live playlist is refreshed when its interval has passed ...
TimedRefresh == pc = "timed" /\ live /\ pc' = "refresh" /\ RefreshPlaylist
NoTimedRefresh == pc = "timed" /\ pc' = "refresh" /\ Keep

\* ... and every playlist when the profile was changed.
ProfileRefresh == pc = "refresh" /\ refreshPlaylist /\ pc' = "loop" /\ RefreshPlaylist
NoProfileRefresh == pc = "refresh" /\ ~refreshPlaylist /\ pc' = "loop" /\ Keep

\* Out of fragments: the end, or a live playlist that has to grow.
Finish == eosReached \/ at.endTag \/ ~mDownloadsEnabled

\* Fault: a playlist that is used up is left to the timed refresh.
OuterWaits == pc = "outer" /\ ~Finish /\ pc' = "loop" /\ Keep

OuterRefresh == pc = "outer" /\ ~Finish /\ pc' = "loop" /\ RefreshPlaylist
CollectorDone == pc = "outer" /\ Finish /\ pc' = "done" /\ Keep

\* The application stops the player.
Stop ==
  /\ mDownloadsEnabled /\ "stop" \in stream.faults
  /\ mDownloadsEnabled' = FALSE
  /\ UNCHANGED <<stream, server, manifests, profiles, lastSelectedProfileIndex,
                 mCheckForRampdown, mRampDownCount, mSkipAbr, at, failures, eosReached,
                 errorSent, pc, history, faults>>

-----------------------------------------------------------------------------
\* StreamAbstractionAAMP_HLS::Init: the playlist of the first profile, and for
\* normal play the fragment to start from, whose position is the new target.
TopOfFile(s) ==
  [uri |-> 0, pos |-> -1, target |-> s.start, next |-> 1, disc |-> FALSE, sync |-> FALSE,
   init |-> NoInit, inject |-> FALSE, endTag |-> FALSE, idx |-> None, iframe |-> -1]

Init ==
  /\ stream \in Streams
  /\ server = [first |-> 1, ended |-> ~stream.live,
               last |-> IF stream.live THEN Min({2, LastFragment}) ELSE LastFragment]
  /\ live = stream.live
  /\ currentProfileIndex \in Profiles
  /\ lastSelectedProfileIndex = currentProfileIndex
  /\ mPlaylistUrl = currentProfileIndex
  /\ playlist = Published(currentProfileIndex)
  /\ playlistCache = IF live THEN {} ELSE {currentProfileIndex}
  /\ refreshPlaylist = FALSE /\ mCheckForRampdown = FALSE
  /\ mRampDownCount = 0 /\ mSkipAbr = FALSE
  /\ LET first == NextFragmentUri(TopOfFile(stream), TRUE)
     IN at = IF Trick THEN TopOfFile(stream) ELSE [first EXCEPT !.target = first.pos]
  /\ mSkipSegmentOnError = TRUE /\ segDLFailCount = 0 /\ manifestDLFailCount = 0
  /\ eosReached = FALSE /\ errorSent = FALSE
  /\ pc = "loop" /\ mDownloadsEnabled = TRUE
  /\ delivered = [init |-> NoInit, marked |-> FALSE,
                  media |-> CASE stream.delta = 0 -> at.uri - 1
                              [] stream.delta > 0 -> 0
                              [] stream.delta < 0 -> LastFragment + 1]
  /\ lost = {} /\ faults = 0

Collector ==
  \/ Loop \/ RingFull \/ InitPushed \/ FetchNothing \/ FragmentPushed \/ Check
  \/ \E kind \in Kinds : InitFails(kind) \/ FragmentFails(kind)
  \/ TimedRefresh \/ NoTimedRefresh \/ ProfileRefresh \/ NoProfileRefresh
  \/ OuterRefresh \/ CollectorDone

Next == Collector \/ Publish \/ End \/ Stop

\* The collector thread runs: only its steps change pc, and each does.  The
\* server publishes.  The bandwidth estimate does not ask for another profile at
\* every single check.
CollectorStep == pc' \in Steps /\ pc' # pc
ProfileKept == pc = "check" /\ pc' = "timed" /\ UNCHANGED profiles

Fairness ==
  /\ WF_pc(pc # "done" /\ CollectorStep)
  /\ SF_<<pc, profiles>>(ProfileKept)
  /\ WF_vars(Publish) /\ WF_vars(End)

Spec == Init /\ [][Next]_vars /\ Fairness

-----------------------------------------------------------------------------
(* Properties *)

\* The other track's discontinuity is later: this fragment is left out.
Omitted(j) == Tagged(j) /\ stream.disc[j] > D \div 2

\* This step puts a fragment into the ring, that is, FragmentPushed.
Pushes ==
  /\ pc = "fetch" /\ at' # at /\ at'.uri # None /\ ~at'.inject /\ faults' = faults
  /\ Trick => at'.iframe # at.iframe

\* Fragments enter the ring in the order of play, none twice.  In normal play none
\* is left out but those given up after an error, those that left the window
\* before they were fetched, and those omitted to meet the other track.
NextFragmentOnly ==
  /\ []TypeOK
  /\ [][Pushes =>
          IF stream.delta < 0 THEN at'.uri < delivered.media
          ELSE /\ at'.uri > delivered.media
               /\ \A k \in delivered.media + 1..at'.uri - 1 :
                    Trick \/ k \in lost \/ k < playlist.first \/ Omitted(k)]_vars

\* A fragment of a stream with X-MAP tags follows the init fragment of its own
\* profile and period: the demuxer cannot read it with another one.
InitMatches ==
  [][Pushes =>
       stream.map = "none" \/ delivered.init = MapOf(playlist.profile, at'.uri)]_vars

\* The first fragment of a new period, or the init fragment before it, carries the
\* discontinuity, unless a download failed there, the collector fell behind the
\* window or the other track has none around; and no other fragment carries one,
\* or the pipeline would be flushed within a period.
PeriodsMarked ==
  [][Pushes /\ ~Trick =>
       LET marked == at'.disc \/ delivered.marked
           crossed == {d \in DOMAIN stream.disc :
                         /\ delivered.media < d /\ d <= at'.uri
                         /\ d > stream.start \div D + 1 /\ stream.disc[d] # NoMatch}
           entry(d) == IF Omitted(d) THEN d + 1 ELSE d
       IN /\ marked => crossed # {}
          /\ (\E d \in crossed : entry(d) \notin lost)
                /\ playlist.first <= delivered.media + 1 => marked]_vars

\* A stream that ends is played to its end: the collector finishes, and nothing is
\* missing after the last fragment but what was given up.
PlayedToTheEnd ==
  (stream.live => stream.ends) =>
    <>(\/ ~mDownloadsEnabled
       \/ /\ pc = "done"
          /\ Trick \/ \A k \in delivered.media + 1..LastFragment : k \in lost \/ Omitted(k))

=============================================================================
