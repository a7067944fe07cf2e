--------------------------- MODULE MCLauncherRace ----------------------------
(* Instances of LauncherRace. *)
EXTENDS LauncherRace, TLC

CONSTANTS l1, l2, l3

Trio(some) == [comes |-> {l1, l2, l3}, budget |-> 2, faults |-> some]
Pair(most, some) == [comes |-> {l1, l2}, budget |-> most, faults |-> some]

\* Three launchers over masters which die or do not answer in time, and two over everything
\* which may fail.
Races == {Trio({"crash"}), Trio({"slow"}), Pair(3, RaceFaults)}

TrioWithGap == {Trio({"gap"})}
PlainPair   == {Pair(1, {})}
=============================================================================
