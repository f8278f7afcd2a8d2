------------------------ MODULE GroupIndexRefreshMC ------------------------
(* Instances of GroupIndexRefresh for TLC: f1 and f2 are versions of one     *)
(* document, f3 is another.                                                  *)
EXTENDS GroupIndexRefresh

CONSTANTS f1, f2, f3

GroupKey == [f \in Files |-> IF f = f3 THEN "budget" ELSE "report"]

\* Nothing disturbs the refreshes, or everything but overlapping changes does.
CalmOrRough == {{}, {"stop", "relocate", "slow", "fail"}}
Overlapping == {{"overlap"}}
=============================================================================
