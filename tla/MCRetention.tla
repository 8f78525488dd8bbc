---------------------------- MODULE MCRetention ----------------------------
(* Two tenants of one segment; the days of the month are a payday and one    *)
(* long after it.                                                            *)
EXTENDS DateChange

CONSTANTS m1, m2, t1, t2

TenantOf == m1 :> t1 @@ m2 :> t2
SegmentOf == [m \in Mandates |-> CHOOSE s \in Segments : TRUE]
Roster == <<t1, t2>>
Due == m1 :> {2} @@ m2 :> {1}
Presence == <<60, 20>>
Cycles2 == m1 :> 2 @@ m2 :> 1
Events2 == m1 :> 2 @@ m2 :> 1
=============================================================================
