----------------------- MODULE MCSegmentProcessors -----------------------
EXTENDS SegmentProcessors

Period(v, a) == [t \in Tracks |-> IF t = "video" THEN v ELSE a]
TSStream(ps) == [format |-> "TS", periods |-> ps]
BmffStream(ps) == [format |-> "BMFF", periods |-> ps]

IM  == <<"init", "media">>
IMM == <<"init", "media", "media">>
MM  == <<"media", "media">>

MCStreams == {
  \* Three periods; video begins late, or audio does.
  TSStream(<<Period(<<"bad", "media">>, MM), Period(MM, <<"bad", "media">>),
             Period(<<"media">>, <<"media">>)>>),
  BmffStream(<<Period(IMM, IM), Period(IM, IMM), Period(IM, IM)>>),
  \* An encrypted init fragment ahead of the one in use, and a change of profile.
  BmffStream(<<Period(<<"init", "init", "media">>, <<"init", "init", "media">>),
               Period(IMM \o IM, IM \o IM)>>)}
=============================================================================
