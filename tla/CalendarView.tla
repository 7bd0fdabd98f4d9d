----------------------------- MODULE CalendarView -----------------------------
(***************************************************************************)
(* The calendar page: events of the planner, deadlines of tickets and      *)
(* invites and leaves, which of them a day shows, and the columns in which *)
(* the week and the day draw them.  Time is counted in quarters of an hour *)
(* of a short day.                                                         *)
(***************************************************************************)
EXTENDS Integers, Sequences, FiniteSets

CONSTANTS
    MaxEvents,  \* bound on the events at a time
    LastDay,    \* bound on the days
    DayLength,  \* quarters of a day
    Ahead       \* the local midnight is still yesterday in UTC

ASSUME CalendarAssumption ==
    MaxEvents \in Nat /\ LastDay \in Nat /\ DayLength \in Nat \ {0} /\ Ahead \in BOOLEAN

VARIABLES
    events,  \* what the four lists hold
    cursor   \* the day that is shown

calendarVars == <<events, cursor>>

EventIds == 1..MaxEvents
Days == 0..LastDay
NoEnd == -1    \* the event has no date_end
Kinds == {"planner", "ticket", "invite", "leave"}
EventRecords == [kind : Kinds, day : Days, from : 0..(DayLength - 1), until : Days \cup {NoEnd}]
NoEvent == [kind |-> "none", day |-> 0, from |-> 0, until |-> NoEnd]

CalendarTypeOK == events \in [EventIds -> EventRecords \cup {NoEvent}] /\ cursor \in Days

-----------------------------------------------------------------------------
(* Which events a day shows *)

\* A planner event that ends on another day has the length the server computes; without
\* date_end every event is taken for an hour, a deadline for 45 minutes.
LengthOf(e) ==
    IF e.kind \in {"ticket", "invite"} THEN 3
    ELSE IF e.kind = "planner" /\ e.until # NoEnd THEN (e.until - e.day) * DayLength + 4
    ELSE 4

\* The page asks for the UTC date of the local midnight.
DayKey(day) == IF Ahead THEN day - 1 ELSE day

\* An event without an end occurs on every day after its start.
OccursOn(e, key) == key >= e.day /\ (e.until = NoEnd \/ key <= e.until)

Begin(e) == e.day * DayLength + e.from
End(e) == Begin(e) + LengthOf(e)

Shown(day) == {i \in EventIds : events[i] # NoEvent /\ OccursOn(events[i], DayKey(day))}

\* The sort is stable: events of the same moment stay in the order of the lists.
Before(i, j) ==
    \/ Begin(events[i]) < Begin(events[j])
    \/ Begin(events[i]) = Begin(events[j]) /\ i < j

Sorted(s) == \A m, n \in DOMAIN s : m < n => Before(s[m], s[n])

EventsForDay(day) == CHOOSE s \in [1..Cardinality(Shown(day)) -> Shown(day)] : Sorted(s)

-----------------------------------------------------------------------------
(* Columns *)

\* Mutant: the end of the last event, not of the longest.
LastEnd(end, e) == End(e)

\* A group goes on as long as an event starts before all of it has ended.
GroupEnd(end, e) == IF End(e) > end THEN End(e) ELSE end

\* The first column whose last event has ended, or a new one.
ColumnFor(cols, start) ==
    CHOOSE c \in 1..(Len(cols) + 1) :
        /\ c <= Len(cols) => cols[c] <= start
        /\ \A b \in 1..(c - 1) : cols[b] > start

Place(group, i) ==
    LET c == ColumnFor(group.cols, Begin(events[i]))
    IN  [cols |-> IF c <= Len(group.cols) THEN [group.cols EXCEPT ![c] = End(events[i])]
                  ELSE Append(group.cols, End(events[i])),
         at |-> group.at \cup {<<i, c>>}]

NoGroup == [cols |-> <<>>, at |-> {}]
Flush(group) == {[event |-> p[1], col |-> p[2], total |-> Len(group.cols)] : p \in group.at}

LayoutStep(acc, i) ==
    IF Begin(events[i]) < acc.end
    THEN [acc EXCEPT !.group = Place(acc.group, i), !.end = GroupEnd(acc.end, events[i])]
    ELSE [slots |-> acc.slots \cup Flush(acc.group), group |-> Place(NoGroup, i), end |-> End(events[i])]

NoLayout == [slots |-> {}, group |-> NoGroup, end |-> 0]

\* What the two loops hold after the first n events of s.
LayoutAfter(s) ==
    LET after[n \in 0..Len(s)] == IF n = 0 THEN NoLayout ELSE LayoutStep(after[n - 1], s[n])
    IN  after

LayoutOverlap(day) ==
    LET s == EventsForDay(day)
        acc == LayoutAfter(s)[Len(s)]
    IN  acc.slots \cup Flush(acc.group)

\* A block is drawn at the hour its event starts, on whichever day that was.
TopOf(s) == events[s.event].from
BottomOf(s) == TopOf(s) + LengthOf(events[s.event])
Covers(s, t) ==
    /\ TopOf(s) < BottomOf(t) /\ TopOf(t) < BottomOf(s)
    /\ (s.col - 1) * t.total < t.col * s.total
    /\ (t.col - 1) * s.total < s.col * t.total

-----------------------------------------------------------------------------
(* The page *)

AddEvent(i, e) ==
    /\ events[i] = NoEvent
    /\ e.kind \in {"ticket", "invite"} => e.until = NoEnd
    /\ e.kind = "planner" => e.until = NoEnd \/ e.until > e.day
    /\ e.kind = "leave" => e.until >= e.day
    /\ events' = [events EXCEPT ![i] = e]
    /\ UNCHANGED cursor

\* The drawer removes an event of the planner; a deadline goes when the ticket is done,
\* the invite is signed, expired or revoked, a leave when it is rejected.
DropEvent(i) ==
    /\ events[i] # NoEvent
    /\ events' = [events EXCEPT ![i] = NoEvent]
    /\ UNCHANGED cursor

Navigate(delta) ==
    /\ cursor + delta \in Days
    /\ cursor' = cursor + delta
    /\ UNCHANGED events

CalendarInit == events = [i \in EventIds |-> NoEvent] /\ cursor = 0

CalendarNext ==
    \/ \E i \in EventIds : DropEvent(i) \/ \E e \in EventRecords : AddEvent(i, e)
    \/ \E delta \in {-1, 1} : Navigate(delta)

CalendarSpec == CalendarInit /\ [][CalendarNext]_calendarVars

-----------------------------------------------------------------------------
\* No block covers another one of an event that starts on the same day, however the
\* events of that day and of earlier ones overlap (CalendarPage.tsx:150-183).
BlocksOfADayApart ==
    \A s, t \in LayoutOverlap(cursor) :
        s # t /\ events[s.event].day = DayKey(cursor) /\ events[t.event].day = DayKey(cursor)
            => ~Covers(s, t)

\* CalendarPage.tsx:150: "overlapping events render side-by-side".  A block of an earlier
\* day is drawn over them.
OverlapsSideBySide ==
    \A s, t \in LayoutOverlap(cursor) : s # t => ~Covers(s, t)
=============================================================================
