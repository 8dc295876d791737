------------------------------- MODULE MCHost -------------------------------
(***************************************************************************)
(* Two names of instances, with three indices.  Of five versions the third *)
(* compiles and does not start, the fourth does not compile, the others    *)
(* are good.  As commits all but the first are of interest; a page has     *)
(* three, and an alert two lines.                                          *)
(***************************************************************************)
EXTENDS Host

CONSTANTS alice, bob

MCInstances == {alice, bob}
MCCompiles == {1, 2, 3, 5}
MCStarts == {1, 2, 5}
MCInteresting == 2 .. 5

\* Bounds of the search: the watch runs, and a third index is held, beside an
\* updater that has not run: with the watch it shares nothing but the commits, and
\* it does not look at indices.  The first states beyond the bounds are still
\* checked.
WatchUntouched == stateFile = NoSha /\ ~torn /\ watch = Asleep /\ excused = {}
UpdaterUntouched == pc = "idle" /\ goMod = 1 /\ incidents = 0 /\ mishaps = {}
NoThirdIndex == \A i \in Instances : index[i] # 2
Bounds == (WatchUntouched /\ NoThirdIndex) \/ UpdaterUntouched

=============================================================================
