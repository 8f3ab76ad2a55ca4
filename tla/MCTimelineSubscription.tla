----------------------- MODULE MCTimelineSubscription -----------------------
(* Small instances of TimelineSubscription for TLC.                        *)
EXTENDS TimelineSubscription

CONSTANTS s1, s2, d1, d2

SubscriptionSymmetry == Permutations({s1, s2}) \cup Permutations({d1, d2})
=============================================================================
