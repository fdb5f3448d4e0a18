------------------------- MODULE MCCommunityReports -------------------------
EXTENDS CommunityReports

CONSTANTS s1, s2, tube, blog, post, d1, d2, d3, d4

(* The first strategy reads a channel and a blog that links the channel's  *)
(* first video; the second reads one account.  d1 leaves the window after  *)
(* the first day, d4 enters it on the second.                              *)
OneStrategy == <<s1>>
TwoStrategies == <<s1, s2>>
ManifestSources == (s1 :> <<tube, blog>>) @@ (s2 :> <<post>>)
SourceTypes == (tube :> "youtube") @@ (blog :> "blog") @@ (post :> "x")
Published == (d1 :> -1) @@ (d2 :> 0) @@ (d3 :> 0) @@ (d4 :> 1)
Urls == (d1 :> "u1") @@ (d2 :> "u1") @@ (d3 :> "u3") @@ (d4 :> "u4")

Limits == (tube :> 2) @@ (blog :> 1) @@ (post :> 1)

Listings == (tube :> <<d4, d1>>) @@ (blog :> <<d2>>) @@ (post :> <<d3>>)
ShortListings == (tube :> <<d2>>) @@ (blog :> <<>>) @@ (post :> <<d3>>)
=============================================================================
