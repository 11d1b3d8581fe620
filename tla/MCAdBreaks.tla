---------------------------- MODULE MCAdBreaks ----------------------------
EXTENDS AdBreaks

S(p, ds) == [i \in 1..Len(ds) |-> [p |-> p, d |-> ds[i]]]
Ad(b, fs, id) == [brk |-> b, frags |-> fs, pid |-> id]

\* Two ads fill the period of the break; the manifest of one may fail.
TwoAds ==
  [segs |-> S(1, <<2, 2>>) \o S(2, <<2, 2, 2>>) \o S(3, <<2, 2>>), breaks |-> (2 :> 6),
   ads |-> <<Ad(2, <<2, 2>>, 11), Ad(2, <<2>>, 12)>>, initial |-> 2, start |-> 2, keep |-> 0,
   lag |-> 9, prompt |-> TRUE, faults |-> {"manifest"}, budget |-> 1]

\* One ad, which may come late.
LateAd == [TwoAds EXCEPT !.prompt = FALSE, !.ads = <<Ad(2, <<2, 2, 2>>, 11)>>, !.budget = 0]

\* Another one, the fragments of which may fail.
FailsOne == [LateAd EXCEPT !.prompt = TRUE, !.faults = {"fragment", "init"}, !.budget = 2]

\* Three, any two of which may fail at their beginning.
InitFails ==
  [TwoAds EXCEPT !.ads = <<Ad(2, <<2>>, 11), Ad(2, <<2>>, 12), Ad(2, <<2>>, 13)>>,
                 !.faults = {"init"}, !.budget = 2]

\* The break ends within a period.
Within ==
  [TwoAds EXCEPT !.segs = S(1, <<2>>) \o S(2, <<2, 2, 2, 2, 2>>) \o S(3, <<2>>),
                 !.initial = 1, !.start = 1, !.ads = <<Ad(2, <<2, 2>>, 11)>>,
                 !.breaks = (2 :> 4)]

\* It covers two periods, and the ads do not end where the segments do.
Across ==
  [TwoAds EXCEPT !.segs = S(1, <<2>>) \o S(2, <<3, 3>>) \o S(3, <<3, 3>>) \o S(4, <<2, 2>>),
                 !.initial = 1, !.start = 1, !.breaks = (2 :> 12),
                 !.ads = <<Ad(2, <<2, 3, 2>>, 11), Ad(2, <<3, 2>>, 12)>>]

\* The player is behind, and the break is there when its ads are.
Behind == [Across EXCEPT !.initial = 5]

\* The beginning of the break leaves the manifest.
Culled ==
  [Across EXCEPT !.segs = @ \o S(5, <<2>>), !.keep = 3, !.lag = 2, !.budget = 0]

\* The last ad is longer than what is left of the break.
Trimmed == [TwoAds EXCEPT !.ads = <<Ad(2, <<2, 2>>, 11), Ad(2, <<3, 3, 3>>, 12)>>]

\* A break follows the other.
TwoBreaks ==
  [TwoAds EXCEPT !.breaks = (2 :> 6) @@ (3 :> 4),
                 !.segs = S(1, <<2>>) \o S(2, <<2, 2, 2>>) \o S(3, <<2, 2>>) \o S(4, <<2>>),
                 !.initial = 1, !.start = 1, !.ads = <<Ad(2, <<2, 2, 2>>, 11), Ad(3, <<2, 2>>, 12)>>]

\* Fragments of two ads may fail.
FragmentsFail == [TwoAds EXCEPT !.faults = {"fragment"}, !.budget = 2]

MCStreams ==
  {TwoAds, LateAd, FailsOne, InitFails, FragmentsFail, Within, Across, Behind, Culled, Trimmed,
   TwoBreaks}
MCFails == {FragmentsFail}

\* The ad of the first break fails, and the second begins at once and leaves the manifest.
MCOvertaken ==
  {[TwoBreaks EXCEPT
      !.segs = S(1, <<2>>) \o S(2, <<2, 2, 2>>) \o S(3, <<2, 2>>) \o S(4, <<2>>) \o S(5, <<2>>)
                 \o S(6, <<2>>),
      !.breaks = (2 :> 6) @@ (3 :> 8),
      !.ads = <<Ad(2, <<2, 2, 2>>, 11), Ad(3, <<1, 1, 1, 1, 1, 1, 1, 1>>, 12)>>,
      !.keep = 3, !.lag = 3, !.faults = {"init"}]}
=============================================================================
