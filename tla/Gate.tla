-------------------------------- MODULE Gate --------------------------------
(***************************************************************************)
(* What of the configuration decides whether a tick may photograph:        *)
(* within_work_hours (capture/scheduler.rs) and the blocklist's patterns   *)
(* (capture/blocklist.rs).  Pause and idleness are in CaptureTick.         *)
(*                                                                         *)
(* A time is an instant of the day, on a coarse clock that has the bounds  *)
(* of the hours among its instants.  Names and titles are sequences of     *)
(* letters after to_lowercase, "*" is the wildcard.                        *)
(***************************************************************************)
EXTENDS Integers, Sequences, FiniteSets, SequencesExt

CONSTANTS Days, LastMinute

Minutes == 0..LastMinute

\* The days of a week, numbered.
ASSUME GateAssumption ==
    /\ LastMinute \in Nat
    /\ IsFiniteSet(Days) /\ Days # {}
    /\ Days = 0..Cardinality(Days) - 1

\* Fault: the end itself is out.
WithinWorkHoursShort(h, now) ==
    /\ now.day \in h.days
    /\ {h.start, h.end} \subseteq Minutes =>
        IF h.start <= h.end
        THEN now.minute >= h.start /\ now.minute < h.end
        ELSE now.minute >= h.start \/ now.minute < h.end

\* The weekday is tested first, and a bound that does not parse lets pass.
WithinWorkHours(h, now) ==
    /\ now.day \in h.days
    /\ {h.start, h.end} \subseteq Minutes =>
        IF h.start <= h.end
        THEN now.minute >= h.start /\ now.minute <= h.end
        ELSE now.minute >= h.start \/ now.minute <= h.end

-----------------------------------------------------------------------------
IsWildcard(part) == part = <<"*">>

\* One turn of the loop of Pattern::new: a letter goes on with the literal under
\* way, a wildcard is not put behind another.
Parted(parts, ch) ==
    LET wild == parts # <<>> /\ IsWildcard(Last(parts)) IN
    IF ch = "*" THEN IF wild THEN parts ELSE Append(parts, <<ch>>)
    ELSE IF parts = <<>> \/ wild THEN Append(parts, <<ch>>)
    ELSE Append(Front(parts), Append(Last(parts), ch))

\* Pattern::new: literals, and wildcards of which no two are neighbours.
Parts(raw) ==
    LET Upto[n \in 0..Len(raw)] == IF n = 0 THEN <<>> ELSE Parted(Upto[n - 1], raw[n])
    IN  Upto[Len(raw)]

\* matches_parts: Fits[n] are the j for which the last n parts match what is left
\* of the name behind its first j letters; `whole` says whether a last literal
\* has to be all that is left or its beginning.
MatchesParts(parts, name, whole) ==
    LET Left(j) == SubSeq(name, j + 1, Len(name))
        Fits[n \in 0..Len(parts)] ==
            IF n = 0 THEN {Len(name)}
            ELSE LET part == parts[Len(parts) - n + 1]
                 IN  {j \in 0..Len(name) :
                        IF IsWildcard(part) THEN n = 1 \/ \E k \in Fits[n - 1] : j <= k
                        ELSE IF n = 1
                        THEN IF whole THEN part = Left(j) ELSE IsPrefix(part, Left(j))
                        ELSE IsPrefix(part, Left(j)) /\ j + Len(part) \in Fits[n - 1]}
    IN  0 \in Fits[Len(parts)]

\* Fault: a pattern without a last wildcard matches every longer name.
MatchesOpenEnd(parts, name) == MatchesParts(parts, name, FALSE)

Matches(parts, name) == MatchesParts(parts, name, TRUE)

\* Blocklist::is_blocked, the titles; the apps are matched the same way.
Blocked(patterns, title) == \E raw \in patterns : Matches(Parts(raw), title)
=============================================================================
