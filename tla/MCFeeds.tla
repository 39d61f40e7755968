------------------------------- MODULE MCFeeds -------------------------------
(* Instances of the two streams for TLC; see the README for the bounds.    *)
EXTENDS FeedsProperties
=============================================================================
