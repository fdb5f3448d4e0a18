---------------------------- MODULE MatchWindows ----------------------------
(***************************************************************************)
(* build_match_windows (application/jobs.py): the polling windows of the   *)
(* fixtures that are not over, overlapping ones merged per gameweek.  Times *)
(* are naturals.                                                           *)
(***************************************************************************)
EXTENDS Integers, SequencesExt

CONSTANTS
    Null,            \* an unknown event or kickoff time
    BeforeKickoff,   \* WINDOW_BEFORE_KICKOFF
    AfterKickoff,    \* LIVE_WINDOW_AFTER_KICKOFF
    CatchUp          \* WINDOW_CATCHUP_DELAY

ASSUME WindowAssumption == {BeforeKickoff, AfterKickoff, CatchUp} \subseteq Nat \ {0}

Scheduled(fixture) == fixture.event # Null /\ fixture.kickoff # Null

Window(fixture) ==
    [event |-> fixture.event,
     start |-> fixture.kickoff - BeforeKickoff,
     end |-> fixture.kickoff + AfterKickoff]

(* Candidates: fixtures with an event and a kickoff time whose window has  *)
(* not ended.  Two fixtures of one window give one candidate.              *)
Candidates(fixtures, now) ==
    {Window(fixtures[f]) : f \in {g \in DOMAIN fixtures :
        /\ Scheduled(fixtures[g])
        /\ fixtures[g].kickoff + AfterKickoff > now}}

Earlier(v, w) ==
    \/ v.event < w.event
    \/ v.event = w.event /\ v.start < w.start
    \/ v.event = w.event /\ v.start = w.start /\ v.end < w.end

(* Mutant: windows that touch stay apart.                                  *)
MergesStrictly(merged, window) ==
    /\ merged # <<>>
    /\ Last(merged).event = window.event
    /\ window.start < Last(merged).end

Merges(merged, window) ==
    /\ merged # <<>>
    /\ Last(merged).event = window.event
    /\ window.start <= Last(merged).end

LaterOf(s, t) == IF s < t THEN t ELSE s

MergeInto(merged, window) ==
    IF Merges(merged, window)
    THEN [merged EXCEPT ![Len(merged)].end = LaterOf(@, window.end)]
    ELSE Append(merged, window)

Sorted(windows) ==
    CHOOSE s \in SetToSeqs(windows) :
        \A i, k \in DOMAIN s : i < k => Earlier(s[i], s[k])

BuildMatchWindows(fixtures, now) ==
    FoldLeft(MergeInto, <<>>, Sorted(Candidates(fixtures, now)))

(* schedule_name: season, event and start.                                 *)
ScheduleName(window) == <<window.event, window.start>>

(* schedule_at: never before the window, never in the past.                *)
ScheduleAt(window, now) == LaterOf(window.start, now + CatchUp)

-----------------------------------------------------------------------------
(* What merging is: the connected components of the candidates of one      *)
(* gameweek, two candidates being connected when they share an instant.    *)

Overlap(v, w) == v.event = w.event /\ v.start <= w.end /\ w.start <= v.end

(* No instant inside the window is left without a candidate.               *)
Covered(window, parts) ==
    \A v \in parts :
        v.end < window.end =>
            \E w \in parts : w.start <= v.end /\ v.end < w.end

IsComponent(window, candidates) ==
    LET parts == {v \in candidates : Overlap(v, window)}
    IN  /\ \E v \in parts : v.start = window.start
        /\ \E v \in parts : v.end = window.end
        /\ \A v \in parts : window.start <= v.start /\ v.end <= window.end
        /\ Covered(window, parts)

IsMergeOf(windows, candidates) ==
    /\ \A i \in DOMAIN windows : IsComponent(windows[i], candidates)
    /\ \A v \in candidates : \E i \in DOMAIN windows : Overlap(v, windows[i])
    /\ \A i, k \in DOMAIN windows : Overlap(windows[i], windows[k]) => i = k
=============================================================================
