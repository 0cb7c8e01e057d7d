-------------------------- MODULE MCFollowupQueue --------------------------
(* Model values of FollowupQueue for TLC.                                    *)
EXTENDS FollowupQueue

CONSTANTS c1, c2, m1, m2
=============================================================================
