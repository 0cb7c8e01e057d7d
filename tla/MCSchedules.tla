---------------------------- MODULE MCSchedules ----------------------------
(* Model values of Schedules for TLC.                                        *)
EXTENDS Schedules

CONSTANTS w1, w2, th1, c1, c2

\* Every wait wakes the one conversation.
OneThread == [w \in Waits |-> th1]

\* w2 wakes the conversation, every fire of w1 gets its own.
Mixed == [w \in Waits |-> IF w = w2 THEN th1 ELSE Nil]
=============================================================================
