---------------------------- MODULE MCPublishing ----------------------------
(* Small instances of Publishing for TLC.                                  *)
EXTENDS Publishing, TLC

CONSTANTS ch1, ch2, b1, b2, t1, t2, e1, e2

OneChannel == {ch1}
TwoChannels == {ch1, ch2}
NoBatch == {}
OneBatch == {b1}
TwoBatches == {b1, b2}
OneTick == {t1}
TwoTicks == {t1, t2}
OneEntry == {e1}
TwoEntries == {e1, e2}

\* Every entry is for the first channel ...
SameChannel == [e \in Entries |-> ch1]
\* ... or the second entry for the second one.
OwnChannel == [e \in Entries |-> IF e = e2 THEN ch2 ELSE ch1]
=============================================================================
