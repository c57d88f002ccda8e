------------------------------ MODULE MCPortScan ------------------------------
(* Instances of PortScan and PortDisplay for TLC.                          *)
EXTENDS PortDisplay

\* Three TCP ports through a window of two, two UDP ports with a gap, one of each.
OnePlan == {[TCP |-> {1, 2, 3}, UDP |-> {}], [TCP |-> {}, UDP |-> {1, 3}],
            [TCP |-> {2}, UDP |-> {1}]}
OneFamily == {{}, {"v4"}}

\* One TCP port, scanned again and again over both families.
RescanPlan == {[TCP |-> {1}, UDP |-> {}]}
BothFamilies == {{"v4", "v6"}, {"v6"}}

\* One port, over TCP or over UDP and of either family, scanned again while the clock is
\* set back.
DisplayPlan == {[TCP |-> {1}, UDP |-> {}], [TCP |-> {}, UDP |-> {1}]}
EitherFamily == {{"v4"}, {"v6"}}

\* The monotonic clock goes on by one from batch to batch.
OneTick == {1}
===============================================================================
