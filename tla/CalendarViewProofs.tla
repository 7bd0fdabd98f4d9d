-------------------------- MODULE CalendarViewProofs --------------------------
(***************************************************************************)
(* Proofs about the calendar: what the filter and the sort of a day        *)
(* return, what the two loops of layoutOverlap hold after every event, and *)
(* that the columns keep the blocks of a day apart.                        *)
(***************************************************************************)
EXTENDS CalendarView, FiniteSetTheorems, TLAPS

-----------------------------------------------------------------------------
(* Least elements, and induction from them *)

\* A set of natural numbers with an element has a least one.
LEMMA LeastElement ==
    ASSUME NEW T \in SUBSET Nat, T # {}
    PROVE  \E x \in T : \A y \in T : x <= y
<1> DEFINE R == OpToRel(<, Nat)
<1>1. IsWellFoundedOn(R, Nat)
    BY NatLessThanWellFounded
<1>2. PICK x \in T : \A y \in T : <<y, x>> \notin R
    BY <1>1, WFMin, Zenon
<1>3. \A y \in T : ~(y < x)
    BY <1>2 DEF OpToRel
<1>4. QED
    BY <1>3

\* Induction over the numbers up to a bound: the least one outside a set has its
\* predecessor inside.
LEMMA UpTo ==
    ASSUME NEW N \in Nat, NEW Good,
           0 \in Good, \A n \in 1..N : n - 1 \in Good => n \in Good
    PROVE  \A n \in 0..N : n \in Good
<1>1. SUFFICES ASSUME NEW m \in 0..N, m \notin Good
               PROVE  FALSE
    OBVIOUS
<1> DEFINE Bad == {n \in 0..N : n \notin Good}
<1>2. Bad \in SUBSET Nat /\ Bad # {}
    BY <1>1
<1>3. PICK x \in Bad : \A y \in Bad : x <= y
    BY <1>2, LeastElement, Zenon
<1>4. x \in 1..N /\ x - 1 \in 0..N /\ x - 1 < x
    BY <1>3
<1>5. x - 1 \in Good
    BY <1>3, <1>4
<1>6. QED
    BY <1>3, <1>4, <1>5
-----------------------------------------------------------------------------
(* What the lists hold *)

\* An event of the planner with an end does not end before it starts: addPlanner refuses
\* it.  Without this a block could have a negative length and end before it begins.
EndsLater ==
    \A i \in EventIds :
        events[i].kind = "planner" /\ events[i].until # NoEnd => events[i].until > events[i].day

CalendarInv == CalendarTypeOK /\ EndsLater

LEMMA EventTypes ==
    ASSUME CalendarTypeOK, NEW i \in EventIds
    PROVE  /\ events[i] \in EventRecords \cup {NoEvent}
           /\ events[i].kind \in Kinds \cup {"none"}
           /\ events[i].day \in Nat
           /\ events[i].from \in Nat
           /\ events[i].until \in Int
<1>1. events[i] \in EventRecords \cup {NoEvent}
    BY DEF CalendarTypeOK
<1>2. CASE events[i] = NoEvent
    BY <1>2 DEF NoEvent, NoEnd
<1>3. CASE events[i] \in EventRecords
    <2>1. /\ events[i].kind \in Kinds
          /\ events[i].day \in Days
          /\ events[i].from \in 0..(DayLength - 1)
          /\ events[i].until \in Days \cup {NoEnd}
        BY <1>3 DEF EventRecords
    <2>2. QED
        BY <1>3, <2>1, CalendarAssumption DEF Days, NoEnd
<1>4. QED
    BY <1>1, <1>2, <1>3

LEMMA CalendarInitial == CalendarInit => CalendarInv
<1> SUFFICES ASSUME CalendarInit
             PROVE  CalendarInv
    OBVIOUS
<1>1. CalendarTypeOK
    BY CalendarAssumption DEF CalendarInit, CalendarTypeOK, Days
<1>2. EndsLater
    BY DEF CalendarInit, EndsLater, NoEvent
<1>3. QED
    BY <1>1, <1>2 DEF CalendarInv

LEMMA CalendarStep == CalendarInv /\ [CalendarNext]_calendarVars => CalendarInv'
<1> SUFFICES ASSUME CalendarInv, [CalendarNext]_calendarVars
             PROVE  CalendarInv'
    OBVIOUS
<1> USE DEF CalendarInv
<1>1. ASSUME NEW i \in EventIds, DropEvent(i)
      PROVE  CalendarInv'
    <2>1. CalendarTypeOK'
        BY <1>1 DEF DropEvent, CalendarTypeOK
    <2>2. EndsLater'
        BY <1>1 DEF DropEvent, CalendarTypeOK, EndsLater, NoEvent
    <2>3. QED
        BY <2>1, <2>2
<1>2. ASSUME NEW i \in EventIds, NEW e \in EventRecords, AddEvent(i, e)
      PROVE  CalendarInv'
    <2>1. CalendarTypeOK'
        BY <1>2 DEF AddEvent, CalendarTypeOK
    <2>2. EndsLater'
        BY <1>2 DEF AddEvent, CalendarTypeOK, EndsLater
    <2>3. QED
        BY <2>1, <2>2
<1>3. ASSUME NEW delta \in {-1, 1}, Navigate(delta)
      PROVE  CalendarInv'
    BY <1>3 DEF Navigate, CalendarTypeOK, EndsLater
<1>4. CASE UNCHANGED calendarVars
    BY <1>4 DEF calendarVars, CalendarTypeOK, EndsLater
<1>5. QED
    BY <1>1, <1>2, <1>3, <1>4 DEF CalendarNext

\* The calendar keeps its types, and no event of the planner ends before it starts.
THEOREM CalendarType == CalendarSpec => []CalendarInv
<1>1. QED
    BY CalendarInitial, CalendarStep, PTL DEF CalendarSpec

-----------------------------------------------------------------------------
(* Beginnings and ends *)

LEMMA Times ==
    ASSUME CalendarInv, NEW i \in EventIds
    PROVE  /\ LengthOf(events[i]) \in Nat
           /\ Begin(events[i]) \in Nat
           /\ End(events[i]) \in Nat
           /\ Begin(events[i]) < End(events[i])
<1>1. /\ events[i].day \in Nat /\ events[i].from \in Nat /\ events[i].until \in Int
      /\ DayLength \in Nat
    BY EventTypes, CalendarAssumption DEF CalendarInv
<1>2. LengthOf(events[i]) \in Nat \ {0}
    <2>1. CASE events[i].kind = "planner" /\ events[i].until # NoEnd
        <3>1. events[i].until - events[i].day \in Nat
            BY <1>1, <2>1 DEF CalendarInv, EndsLater
        <3>2. (events[i].until - events[i].day) * DayLength \in Nat
            BY <1>1, <3>1
        <3>3. QED
            BY <2>1, <3>2 DEF LengthOf
    <2>2. CASE ~(events[i].kind = "planner" /\ events[i].until # NoEnd)
        BY <2>2 DEF LengthOf
    <2>3. QED
        BY <2>1, <2>2
<1>3. Begin(events[i]) \in Nat
    <2>1. events[i].day * DayLength \in Nat
        BY <1>1
    <2>2. QED
        BY <1>1, <2>1 DEF Begin
<1>4. QED
    BY <1>2, <1>3 DEF End

-----------------------------------------------------------------------------
(* The sort of eventsForDay *)

LEMMA ShownFinite ==
    ASSUME NEW day
    PROVE  Shown(day) \subseteq EventIds /\ IsFiniteSet(Shown(day)) /\ Cardinality(Shown(day)) \in Nat
<1>1. IsFiniteSet(EventIds)
    BY FS_Interval, CalendarAssumption DEF EventIds
<1>2. Shown(day) \in SUBSET EventIds
    BY DEF Shown
<1>3. IsFiniteSet(Shown(day))
    BY <1>1, <1>2, FS_Subset
<1>4. QED
    BY <1>2, <1>3, FS_CardinalityType

\* Before is a strict order in which any two events are related.
LEMMA BeforeOrders ==
    ASSUME CalendarInv, NEW i \in EventIds, NEW j \in EventIds, NEW k \in EventIds
    PROVE  /\ ~Before(i, i)
           /\ i # j => Before(i, j) \/ Before(j, i)
           /\ Before(i, j) => ~Before(j, i)
           /\ Before(i, j) /\ Before(j, k) => Before(i, k)
<1>1. Begin(events[i]) \in Nat /\ Begin(events[j]) \in Nat /\ Begin(events[k]) \in Nat
    BY Times
<1>2. i \in Int /\ j \in Int /\ k \in Int
    BY CalendarAssumption DEF EventIds
<1>3. QED
    BY <1>1, <1>2 DEF Before

\* The place of an event in the sorted list: how many are not after it.
UpToEvent(S, i) == {j \in S : j = i \/ Before(j, i)}
Rank(S, i) == Cardinality(UpToEvent(S, i))

LEMMA Ranks ==
    ASSUME CalendarInv, NEW day, NEW i \in Shown(day), NEW j \in Shown(day)
    PROVE  /\ Rank(Shown(day), i) \in 1..Cardinality(Shown(day))
           /\ Before(i, j) => Rank(Shown(day), i) < Rank(Shown(day), j)
<1> DEFINE S == Shown(day)
<1>1. S \subseteq EventIds /\ IsFiniteSet(S) /\ Cardinality(S) \in Nat
    BY ShownFinite
<1>2. ASSUME NEW k \in S
      PROVE  /\ IsFiniteSet(UpToEvent(S, k)) /\ k \in UpToEvent(S, k)
             /\ Rank(S, k) \in 1..Cardinality(S)
    <2>1. UpToEvent(S, k) \in SUBSET S /\ k \in UpToEvent(S, k)
        BY DEF UpToEvent
    <2>2. IsFiniteSet(UpToEvent(S, k)) /\ Cardinality(UpToEvent(S, k)) <= Cardinality(S)
        BY <1>1, <2>1, FS_Subset
    <2>3. Cardinality(UpToEvent(S, k)) \in Nat /\ Cardinality(UpToEvent(S, k)) # 0
        BY <2>1, <2>2, FS_CardinalityType, FS_EmptySet
    <2>4. QED
        BY <1>1, <2>1, <2>2, <2>3 DEF Rank
<1>3. ASSUME Before(i, j)
      PROVE  Rank(S, i) < Rank(S, j)
    <2>1. i \in EventIds /\ j \in EventIds /\ i \in S /\ j \in S
        BY <1>1
    <2>2. UpToEvent(S, i) \in SUBSET UpToEvent(S, j)
        BY <1>1, <1>3, <2>1, BeforeOrders DEF UpToEvent
    <2>3. j \notin UpToEvent(S, i)
        BY <1>3, <2>1, BeforeOrders DEF UpToEvent
    <2>4. IsFiniteSet(UpToEvent(S, j)) /\ j \in UpToEvent(S, j)
        BY <1>2, <2>1
    <2>5. /\ Cardinality(UpToEvent(S, i)) <= Cardinality(UpToEvent(S, j))
          /\ Cardinality(UpToEvent(S, i)) # Cardinality(UpToEvent(S, j))
        BY <2>2, <2>3, <2>4, FS_Subset
    <2>6. Rank(S, i) \in Int /\ Rank(S, j) \in Int
        BY <1>2, <2>1
    <2>7. QED
        BY <2>5, <2>6 DEF Rank
<1>4. QED
    BY <1>2, <1>3

\* What a day shows can be put in order, so eventsForDay returns each of its events, sorted.
LEMMA DayIsSorted ==
    ASSUME CalendarInv, NEW day
    PROVE  /\ EventsForDay(day) \in [1..Cardinality(Shown(day)) -> Shown(day)]
           /\ Sorted(EventsForDay(day))
<1> DEFINE S == Shown(day)
           N == Cardinality(S)
           rank == [i \in S |-> Rank(S, i)]
<1>1. S \subseteq EventIds /\ IsFiniteSet(S) /\ N \in Nat
    BY ShownFinite
<1>2. rank \in [S -> 1..N]
    BY Ranks
<1>3. ASSUME NEW i \in S, NEW j \in S, i # j
      PROVE  rank[i] # rank[j]
    <2>1. Before(i, j) \/ Before(j, i)
        BY <1>1, <1>3, BeforeOrders
    <2>2. rank[i] < rank[j] \/ rank[j] < rank[i]
        BY <2>1, Ranks
    <2>3. QED
        BY <1>2, <2>2
<1>4. rank \in Injection(S, 1..N)
    BY <1>2, <1>3 DEF Injection, IsInjective
<1>5. IsFiniteSet(1..N) /\ Cardinality(1..N) = N
    BY <1>1, FS_Interval
<1>6. rank \in Surjection(S, 1..N)
    BY <1>4, <1>5, FS_Injection
<1>7. \A n \in 1..N : \E i \in S : rank[i] = n
    BY <1>6 DEF Surjection
<1> DEFINE s == [n \in 1..N |-> CHOOSE i \in S : rank[i] = n]
<1>8. \A n \in 1..N : s[n] \in S /\ rank[s[n]] = n
    BY <1>7
<1>9. s \in [1..N -> S]
    BY <1>8
<1>10. Sorted(s)
    <2>1. SUFFICES ASSUME NEW m \in 1..N, NEW n \in 1..N, m < n
                   PROVE  Before(s[m], s[n])
        BY <1>9 DEF Sorted
    <2>2. s[m] \in S /\ s[n] \in S /\ rank[s[m]] = m /\ rank[s[n]] = n
        BY <1>8
    <2>3. s[m] # s[n]
        BY <2>1, <2>2
    <2>4. ~Before(s[n], s[m])
        BY <2>1, <2>2, Ranks
    <2>5. QED
        BY <1>1, <2>2, <2>3, <2>4, BeforeOrders
<1>11. QED
    BY <1>9, <1>10 DEF EventsForDay
-----------------------------------------------------------------------------
(* The loops of layoutOverlap *)

\* The table that LayoutAfter picks exists: it is built one event at a time.
LEMMA LayoutDefined ==
    ASSUME NEW s, Len(s) \in Nat
    PROVE  /\ LayoutAfter(s)[0] = NoLayout
           /\ \A n \in 1..Len(s) : LayoutAfter(s)[n] = LayoutStep(LayoutAfter(s)[n - 1], s[n])
<1> DEFINE N == Len(s)
           Entry(g, n) == IF n = 0 THEN NoLayout ELSE LayoutStep(g[n - 1], s[n])
           Table(g, k) == g = [n \in 0..k |-> Entry(g, n)]
           Good == {k \in 0..N : \E g : Table(g, k)}
<1>1. 0 \in Good
    <2> DEFINE g == [n \in 0..0 |-> NoLayout]
    <2>1. g = [n \in 0..0 |-> Entry(g, n)]
        OBVIOUS
    <2>2. Table(g, 0)
        BY <2>1
    <2> HIDE DEF g
    <2>3. \E x : Table(x, 0)
        BY <2>2
    <2>4. QED
        BY <2>3
<1>2. ASSUME NEW k \in 1..N, k - 1 \in Good
      PROVE  k \in Good
    <2>1. PICK g : Table(g, k - 1)
        BY <1>2
    <2> DEFINE h == [n \in 0..k |-> IF n = k THEN LayoutStep(g[k - 1], s[k]) ELSE g[n]]
    <2>2. ASSUME NEW n \in 0..k
          PROVE  h[n] = Entry(h, n)
        <3>1. CASE n = k
            <4>1. h[n] = LayoutStep(g[k - 1], s[k]) /\ h[k - 1] = g[k - 1] /\ n # 0
                BY <3>1
            <4>2. QED
                BY <3>1, <4>1
        <3>2. CASE n = 0
            <4>1. h[n] = g[0] /\ 0 \in 0..(k - 1)
                BY <3>2
            <4>2. g[0] = Entry(g, 0)
                BY <2>1, <4>1, Zenon
            <4>3. QED
                BY <3>2, <4>1, <4>2
        <3>3. CASE n \in 1..(k - 1)
            <4>1. h[n] = g[n] /\ h[n - 1] = g[n - 1] /\ n \in 0..(k - 1) /\ n # 0
                BY <3>3
            <4>2. g[n] = Entry(g, n)
                BY <2>1, <4>1, Zenon
            <4>3. QED
                BY <4>1, <4>2
        <3>4. QED
            BY <3>1, <3>2, <3>3
    <2>3. Table(h, k)
        <3> DEFINE H == [n \in 0..k |-> Entry(h, n)]
        <3>1. \A n \in 0..k : h[n] = H[n]
            BY <2>2, Zenon
        <3>2. h = H
            BY <3>1
        <3>3. QED
            BY <3>2
    <2> HIDE DEF h
    <2>4. \E x : Table(x, k)
        BY <2>3
    <2>5. QED
        BY <2>4
<1>3. \E g : Table(g, N)
    <2>1. \A n \in 1..N : n - 1 \in Good => n \in Good
        BY <1>2
    <2> HIDE DEF Good
    <2>2. \A n \in 0..N : n \in Good
        BY <1>1, <2>1, UpTo
    <2>3. N \in Good
        BY <2>2
    <2>4. QED
        BY <2>3 DEF Good
<1>4. LayoutAfter(s) = [n \in 0..N |-> Entry(LayoutAfter(s), n)]
    BY <1>3 DEF LayoutAfter
<1>5. QED
    <2>1. \A n \in 0..N : LayoutAfter(s)[n] = Entry(LayoutAfter(s), n)
        BY <1>4, Zenon
    <2>2. 0 \in 0..N /\ \A n \in 1..N : n \in 0..N /\ n # 0
        OBVIOUS
    <2>3. QED
        BY <2>1, <2>2

\* The search for a column ends at one that is free, or at a new one.
LEMMA FirstColumn ==
    ASSUME NEW cols \in Seq(Nat), NEW start \in Nat
    PROVE  /\ ColumnFor(cols, start) \in 1..(Len(cols) + 1)
           /\ ColumnFor(cols, start) <= Len(cols) => cols[ColumnFor(cols, start)] <= start
           /\ \A b \in 1..(ColumnFor(cols, start) - 1) : cols[b] > start
<1> DEFINE Free == {c \in 1..(Len(cols) + 1) : c <= Len(cols) => cols[c] <= start}
<1>1. Free \in SUBSET Nat /\ Len(cols) + 1 \in Free
    OBVIOUS
<1>2. PICK x \in Free : \A y \in Free : x <= y
    BY <1>1, LeastElement
<1>3. \A b \in 1..(x - 1) : cols[b] > start
    <2>1. SUFFICES ASSUME NEW b \in 1..(x - 1)
                   PROVE  cols[b] > start
        OBVIOUS
    <2>2. b \in 1..(Len(cols) + 1) /\ b < x /\ b \in 1..Len(cols)
        BY <1>2
    <2>3. b \notin Free
        BY <1>2, <2>2
    <2>4. QED
        BY <2>2, <2>3
<1>4. QED
    BY <1>2, <1>3 DEF ColumnFor

-----------------------------------------------------------------------------
(* Blocks and groups *)

\* One of the two has ended when the other one starts.
Apart(i, j) ==
    \/ End(events[i]) <= Begin(events[j])
    \/ End(events[j]) <= Begin(events[i])

Groups == [cols : Seq(Nat), at : SUBSET (EventIds \X (Nat \ {0}))]
Slots == [event : EventIds, col : Nat \ {0}, total : Nat \ {0}]
Layouts == [slots : SUBSET Slots, group : Groups, end : Nat]

\* A column remembers the latest end of its events, and they do not overlap.
GroupOK(group, end) ==
    /\ \A p \in group.at :
           /\ p[2] <= Len(group.cols)
           /\ End(events[p[1]]) <= group.cols[p[2]]
           /\ End(events[p[1]]) <= end
    /\ \A p, q \in group.at : p # q /\ p[2] = q[2] => Apart(p[1], q[1])

\* Two blocks that overlap in time are of one group, in two of its columns.
SlotsOK(slots) ==
    \A s, t \in slots :
        s # t =>
            \/ Apart(s.event, t.event)
            \/ s.total = t.total /\ s.col # t.col

\* What the loops have done after n events of s: the groups that are drawn ended before the
\* group in progress and before everything that is still to come.
LayoutOK(acc, s, n) ==
    /\ acc \in Layouts
    /\ GroupOK(acc.group, acc.end)
    /\ SlotsOK(acc.slots)
    /\ \A t \in acc.slots :
           /\ \A p \in acc.group.at : End(events[t.event]) <= Begin(events[p[1]])
           /\ \A m \in (n + 1)..Len(s) : End(events[t.event]) <= Begin(events[s[m]])

\* Where an event goes: the columns before its own are taken, its own has ended or is new.
LEMMA PlacedColumns ==
    ASSUME CalendarInv, NEW group \in Groups, NEW i \in EventIds
    PROVE  LET c == ColumnFor(group.cols, Begin(events[i]))
               placed == Place(group, i)
           IN  /\ c \in 1..(Len(group.cols) + 1)
               /\ c <= Len(group.cols) => group.cols[c] <= Begin(events[i])
               /\ \A b \in 1..(c - 1) : group.cols[b] > Begin(events[i])
               /\ placed = [cols |-> placed.cols, at |-> group.at \cup {<<i, c>>}]
               /\ placed.cols \in Seq(Nat)
               /\ Len(placed.cols) = IF c <= Len(group.cols) THEN Len(group.cols)
                                     ELSE Len(group.cols) + 1
               /\ placed.cols[c] = End(events[i])
               /\ \A b \in 1..Len(group.cols) : b # c => placed.cols[b] = group.cols[b]
<1> DEFINE cols == group.cols
           c == ColumnFor(cols, Begin(events[i]))
           placed == Place(group, i)
<1>1. Begin(events[i]) \in Nat /\ End(events[i]) \in Nat
    BY Times
<1>2. cols \in Seq(Nat)
    BY DEF Groups
<1>3. /\ c \in 1..(Len(cols) + 1) /\ (c <= Len(cols) => cols[c] <= Begin(events[i]))
      /\ \A b \in 1..(c - 1) : cols[b] > Begin(events[i])
    BY <1>1, <1>2, FirstColumn
<1>4. /\ placed = [cols |-> placed.cols, at |-> group.at \cup {<<i, c>>}]
      /\ placed.cols = IF c <= Len(cols) THEN [cols EXCEPT ![c] = End(events[i])]
                       ELSE Append(cols, End(events[i]))
    BY DEF Place
<1> HIDE DEF c, placed
<1>5. /\ placed.cols \in Seq(Nat)
      /\ Len(placed.cols) = IF c <= Len(cols) THEN Len(cols) ELSE Len(cols) + 1
      /\ placed.cols[c] = End(events[i])
      /\ \A b \in 1..Len(cols) : b # c => placed.cols[b] = cols[b]
    <2>1. CASE c <= Len(cols)
        <3>1. placed.cols = [cols EXCEPT ![c] = End(events[i])] /\ c \in 1..Len(cols)
            BY <1>2, <1>3, <1>4, <2>1
        <3>2. QED
            BY <1>1, <1>2, <2>1, <3>1
    <2>2. CASE c > Len(cols)
        <3>1. placed.cols = Append(cols, End(events[i])) /\ c = Len(cols) + 1
            BY <1>2, <1>3, <1>4, <2>2
        <3>2. QED
            BY <1>1, <1>2, <2>2, <3>1
    <2>3. QED
        BY <1>2, <1>3, <2>1, <2>2
<1>6. QED
    BY <1>3, <1>4, <1>5 DEF c, placed

LEMMA Placed ==
    ASSUME CalendarInv, NEW group \in Groups, NEW end \in Nat, GroupOK(group, end),
           NEW i \in EventIds, NEW later \in Nat, end <= later, End(events[i]) <= later
    PROVE  /\ Place(group, i) \in Groups
           /\ GroupOK(Place(group, i), later)
           /\ \A p \in Place(group, i).at : p \in group.at \/ p[1] = i
<1> DEFINE cols == group.cols
           c == ColumnFor(cols, Begin(events[i]))
           placed == Place(group, i)
<1>1. /\ Begin(events[i]) \in Nat /\ End(events[i]) \in Nat
      /\ Begin(events[i]) <= End(events[i])
    BY Times
<1>2. cols \in Seq(Nat) /\ group.at \subseteq EventIds \X (Nat \ {0})
    BY DEF Groups
<1>3. c \in 1..(Len(cols) + 1) /\ (c <= Len(cols) => cols[c] <= Begin(events[i]))
    BY PlacedColumns
<1>4. /\ placed = [cols |-> placed.cols, at |-> group.at \cup {<<i, c>>}]
      /\ placed.at = group.at \cup {<<i, c>>}
    BY PlacedColumns
<1>5. /\ placed.cols \in Seq(Nat)
      /\ Len(placed.cols) = IF c <= Len(cols) THEN Len(cols) ELSE Len(cols) + 1
      /\ placed.cols[c] = End(events[i])
      /\ \A b \in 1..Len(cols) : b # c => placed.cols[b] = cols[b]
    BY PlacedColumns
<1> HIDE DEF c, placed
<1>6. <<i, c>> \in EventIds \X (Nat \ {0})
    BY <1>3
<1>7. placed \in Groups
    BY <1>2, <1>4, <1>5, <1>6 DEF Groups
<1>8. ASSUME NEW p \in group.at
      PROVE  /\ p[1] \in EventIds /\ p[2] \in 1..Len(cols) /\ cols[p[2]] \in Nat
             /\ End(events[p[1]]) \in Nat /\ Begin(events[p[1]]) \in Nat
             /\ End(events[p[1]]) <= cols[p[2]] /\ End(events[p[1]]) <= end
    <2>1. p[1] \in EventIds /\ p[2] \in Nat \ {0}
        BY <1>2
    <2>2. /\ p[2] <= Len(cols) /\ End(events[p[1]]) <= cols[p[2]]
          /\ End(events[p[1]]) <= end
        BY DEF GroupOK
    <2>3. p[2] \in 1..Len(cols) /\ cols[p[2]] \in Nat
        BY <1>2, <2>1, <2>2
    <2>4. End(events[p[1]]) \in Nat /\ Begin(events[p[1]]) \in Nat
        BY <2>1, Times
    <2>5. QED
        BY <2>1, <2>2, <2>3, <2>4
<1>9. ASSUME NEW p \in group.at, p[2] = c
      PROVE  End(events[p[1]]) <= Begin(events[i])
    BY <1>1, <1>3, <1>8, <1>9
<1>10. ASSUME NEW p \in placed.at
       PROVE  /\ p[2] <= Len(placed.cols)
              /\ End(events[p[1]]) <= placed.cols[p[2]]
              /\ End(events[p[1]]) <= later
    <2>1. CASE p \in group.at
        <3>1. p[2] <= Len(placed.cols)
            BY <1>2, <1>5, <1>8, <2>1
        <3>2. End(events[p[1]]) <= later
            BY <1>8, <2>1
        <3>3. CASE p[2] = c
            BY <1>1, <1>5, <1>8, <1>9, <2>1, <3>1, <3>2, <3>3
        <3>4. CASE p[2] # c
            BY <1>5, <1>8, <2>1, <3>1, <3>2, <3>4
        <3>5. QED
            BY <3>3, <3>4
    <2>2. CASE p = <<i, c>>
        BY <1>1, <1>2, <1>3, <1>5, <2>2
    <2>3. QED
        BY <1>4, <2>1, <2>2
<1>11. ASSUME NEW p \in placed.at, NEW q \in placed.at, p # q, p[2] = q[2]
       PROVE  Apart(p[1], q[1])
    <2>1. CASE p \in group.at /\ q \in group.at
        BY <1>11, <2>1 DEF GroupOK
    <2>2. CASE p = <<i, c>> /\ q \in group.at
        BY <1>9, <1>11, <2>2 DEF Apart
    <2>3. CASE q = <<i, c>> /\ p \in group.at
        BY <1>9, <1>11, <2>3 DEF Apart
    <2>4. QED
        BY <1>4, <1>11, <2>1, <2>2, <2>3
<1>12. GroupOK(placed, later)
    BY <1>10, <1>11 DEF GroupOK
<1>13. QED
    BY <1>4, <1>7, <1>12 DEF placed
LEMMA NothingPlaced ==
    ASSUME NEW end \in Nat
    PROVE  NoGroup \in Groups /\ GroupOK(NoGroup, end)
<1>1. <<>> \in Seq(Nat)
    OBVIOUS
<1>2. QED
    BY <1>1 DEF NoGroup, Groups, GroupOK

\* A group that is drawn: its blocks are apart or side by side, and each is one of its events.
LEMMA Flushed ==
    ASSUME NEW group \in Groups, NEW end \in Nat, GroupOK(group, end)
    PROVE  /\ Flush(group) \subseteq Slots
           /\ SlotsOK(Flush(group))
           /\ \A t \in Flush(group) : \E p \in group.at : t.event = p[1]
<1> DEFINE block(p) == [event |-> p[1], col |-> p[2], total |-> Len(group.cols)]
<1>1. Flush(group) = {block(p) : p \in group.at}
    BY DEF Flush
<1>2. group.cols \in Seq(Nat) /\ group.at \subseteq EventIds \X (Nat \ {0})
    BY DEF Groups
<1>3. ASSUME NEW p \in group.at
      PROVE  /\ p = <<p[1], p[2]>> /\ p[1] \in EventIds /\ p[2] \in Nat \ {0}
             /\ Len(group.cols) \in Nat \ {0}
    BY <1>2 DEF GroupOK
<1>4. \A p \in group.at : block(p) \in Slots
    BY <1>3 DEF Slots
<1>5. ASSUME NEW p \in group.at, NEW q \in group.at, block(p) # block(q)
      PROVE  Apart(block(p).event, block(q).event) \/ block(p).col # block(q).col
    <2>1. p # q
        BY <1>5
    <2>2. p[2] = q[2] => Apart(p[1], q[1])
        BY <2>1 DEF GroupOK
    <2>3. QED
        BY <2>2
<1>6. SlotsOK(Flush(group))
    <2>1. SUFFICES ASSUME NEW p \in group.at, NEW q \in group.at, block(p) # block(q)
                   PROVE  \/ Apart(block(p).event, block(q).event)
                          \/ block(p).total = block(q).total /\ block(p).col # block(q).col
        BY <1>1 DEF SlotsOK
    <2>2. block(p).total = block(q).total
        OBVIOUS
    <2>3. QED
        BY <1>5, <2>1, <2>2
<1>7. QED
    BY <1>1, <1>4, <1>6

\* Two sets of blocks, the first ones over before the second ones start.
LEMMA SlotsJoin ==
    ASSUME NEW S \in SUBSET Slots, NEW T \in SUBSET Slots, SlotsOK(S), SlotsOK(T),
           \A s \in S, t \in T : End(events[s.event]) <= Begin(events[t.event])
    PROVE  S \cup T \in SUBSET Slots /\ SlotsOK(S \cup T)
<1>1. ASSUME NEW s \in S \cup T, NEW t \in S \cup T, s # t
      PROVE  \/ Apart(s.event, t.event)
             \/ s.total = t.total /\ s.col # t.col
    <2>1. CASE s \in S /\ t \in S
        BY <1>1, <2>1 DEF SlotsOK
    <2>2. CASE s \in T /\ t \in T
        BY <1>1, <2>2 DEF SlotsOK
    <2>3. CASE (s \in S /\ t \in T) \/ (s \in T /\ t \in S)
        BY <2>3 DEF Apart
    <2>4. QED
        BY <2>1, <2>2, <2>3
<1>2. QED
    BY <1>1 DEF SlotsOK

LEMMA LayoutStarts ==
    ASSUME NEW s
    PROVE  LayoutOK(NoLayout, s, 0)
<1>1. NoGroup \in Groups /\ GroupOK(NoGroup, 0)
    BY NothingPlaced
<1>2. NoLayout \in Layouts
    BY <1>1 DEF NoLayout, Layouts
<1>3. NoLayout.slots = {} /\ NoLayout.group = NoGroup /\ NoLayout.end = 0
    BY DEF NoLayout
<1>4. QED
    BY <1>1, <1>2, <1>3 DEF LayoutOK, SlotsOK

\* One event more, in the order of the sort.
LEMMA LayoutGoesOn ==
    ASSUME CalendarInv, NEW s \in Seq(EventIds), Sorted(s), NEW n \in 1..Len(s),
           NEW acc, LayoutOK(acc, s, n - 1)
    PROVE  LayoutOK(LayoutStep(acc, s[n]), s, n)
<1> DEFINE i == s[n]
           b == Begin(events[i])
           e == End(events[i])
           next == LayoutStep(acc, i)
<1>1. i \in EventIds /\ b \in Nat /\ e \in Nat /\ b <= e
    BY Times
<1>2. /\ acc \in Layouts /\ acc.slots \in SUBSET Slots /\ acc.group \in Groups
      /\ acc.end \in Nat
      /\ acc = [slots |-> acc.slots, group |-> acc.group, end |-> acc.end]
      /\ GroupOK(acc.group, acc.end) /\ SlotsOK(acc.slots)
    BY DEF LayoutOK, Layouts
<1>3. ASSUME NEW t \in acc.slots
      PROVE  /\ t.event \in EventIds /\ End(events[t.event]) \in Nat
             /\ \A p \in acc.group.at : End(events[t.event]) <= Begin(events[p[1]])
             /\ \A m \in n..Len(s) : End(events[t.event]) <= Begin(events[s[m]])
    <2>1. t.event \in EventIds
        BY <1>2 DEF Slots
    <2>2. (n - 1) + 1 = n
        OBVIOUS
    <2>3. QED
        BY <2>1, <2>2, Times DEF LayoutOK
<1>4. ASSUME NEW m \in (n + 1)..Len(s)
      PROVE  /\ s[m] \in EventIds /\ Begin(events[s[m]]) \in Nat
             /\ b <= Begin(events[s[m]])
    <2>1. m \in 1..Len(s) /\ n < m /\ DOMAIN s = 1..Len(s)
        OBVIOUS
    <2>2. s[m] \in EventIds /\ Begin(events[s[m]]) \in Nat
        BY <2>1, Times
    <2>3. Before(i, s[m])
        BY <2>1 DEF Sorted
    <2>4. QED
        BY <1>1, <2>2, <2>3 DEF Before
<1>5. CASE b < acc.end
    <2> DEFINE end == GroupEnd(acc.end, events[i])
               placed == Place(acc.group, i)
    <2>1. end \in Nat /\ acc.end <= end /\ e <= end
        BY <1>1, <1>2 DEF GroupEnd
    <2> HIDE DEF end
    <2>2. /\ placed \in Groups /\ GroupOK(placed, end)
          /\ \A p \in placed.at : p \in acc.group.at \/ p[1] = i
        BY <1>1, <1>2, <2>1, Placed
    <2>3. next = [slots |-> acc.slots, group |-> placed, end |-> end]
        BY <1>2, <1>5 DEF LayoutStep, end
    <2>4. next \in Layouts
        BY <1>2, <2>1, <2>2, <2>3 DEF Layouts
    <2>5. ASSUME NEW t \in acc.slots
          PROVE  /\ \A p \in placed.at : End(events[t.event]) <= Begin(events[p[1]])
                 /\ \A m \in (n + 1)..Len(s) : End(events[t.event]) <= Begin(events[s[m]])
        BY <1>3, <2>2
    <2>6. next.slots = acc.slots /\ next.group = placed /\ next.end = end
        BY <2>3
    <2> HIDE DEF next, placed
    <2>7. LayoutOK(next, s, n)
        BY <1>2, <2>2, <2>4, <2>5, <2>6 DEF LayoutOK
    <2>8. QED
        BY <2>7 DEF next
<1>6. CASE ~(b < acc.end)
    <2> DEFINE drawn == Flush(acc.group)
               placed == Place(NoGroup, i)
    <2>1. /\ drawn \in SUBSET Slots /\ SlotsOK(drawn)
          /\ \A t \in drawn : \E p \in acc.group.at : t.event = p[1]
        BY <1>2, Flushed
    <2>2. ASSUME NEW t \in drawn
          PROVE  /\ End(events[t.event]) \in Nat
                 /\ End(events[t.event]) <= b
        <3>1. PICK p \in acc.group.at : t.event = p[1]
            BY <2>1
        <3>2. End(events[p[1]]) <= acc.end
            BY <1>2 DEF GroupOK
        <3>3. t.event \in EventIds
            BY <2>1 DEF Slots
        <3>4. End(events[t.event]) \in Nat
            BY <3>3, Times
        <3>5. End(events[t.event]) <= acc.end
            BY <3>1, <3>2
        <3>6. QED
            BY <1>1, <1>2, <1>6, <3>4, <3>5
    <2>3. \A t \in acc.slots, u \in drawn : End(events[t.event]) <= Begin(events[u.event])
        BY <1>3, <2>1
    <2> DEFINE slots == acc.slots \cup drawn
    <2>4. slots \in SUBSET Slots /\ SlotsOK(slots)
        BY <1>2, <2>1, <2>3, SlotsJoin
    <2>5. NoGroup \in Groups /\ GroupOK(NoGroup, 0)
        BY NothingPlaced
    <2>6. /\ placed \in Groups /\ GroupOK(placed, e)
          /\ \A p \in placed.at : p \in NoGroup.at \/ p[1] = i
        BY <1>1, <2>5, Placed
    <2>7. \A p \in placed.at : p[1] = i
        BY <2>6 DEF NoGroup
    <2>8. next = [slots |-> slots, group |-> placed, end |-> e]
        BY <1>6 DEF LayoutStep
    <2>9. next \in Layouts
        BY <1>1, <2>4, <2>6, <2>8 DEF Layouts
    <2>10. ASSUME NEW t \in slots
           PROVE  /\ \A p \in placed.at : End(events[t.event]) <= Begin(events[p[1]])
                  /\ \A m \in (n + 1)..Len(s) : End(events[t.event]) <= Begin(events[s[m]])
        <3>1. End(events[t.event]) \in Nat /\ End(events[t.event]) <= b
            BY <1>3, <2>2
        <3>2. \A m \in (n + 1)..Len(s) : End(events[t.event]) <= Begin(events[s[m]])
            BY <1>1, <1>4, <3>1
        <3>3. QED
            BY <2>7, <3>1, <3>2
    <2>11. next.slots = slots /\ next.group = placed /\ next.end = e
        BY <2>8
    <2> HIDE DEF next, placed, slots
    <2>12. LayoutOK(next, s, n)
        BY <2>4, <2>6, <2>9, <2>10, <2>11 DEF LayoutOK
    <2>13. QED
        BY <2>12 DEF next
<1>7. QED
    BY <1>5, <1>6
\* What the loops have drawn and what the group in progress holds are the first n events
\* of s, each once.
DrawnOK(acc, s, n) ==
    /\ {t.event : t \in acc.slots} \cup {p[1] : p \in acc.group.at} = {s[m] : m \in 1..n}
    /\ \A t \in acc.slots, p \in acc.group.at : t.event # p[1]
    /\ \A t, u \in acc.slots : t.event = u.event => t = u
    /\ \A p, q \in acc.group.at : p[1] = q[1] => p = q

LEMMA DrawingStarts ==
    ASSUME NEW s
    PROVE  DrawnOK(NoLayout, s, 0)
<1>1. NoLayout.slots = {} /\ NoLayout.group.at = {}
    BY DEF NoLayout, NoGroup
<1>2. 1..0 = {}
    OBVIOUS
<1>3. QED
    BY <1>1, <1>2 DEF DrawnOK

LEMMA PlacedAt ==
    ASSUME NEW group, NEW i
    PROVE  \E c : Place(group, i).at = group.at \cup {<<i, c>>}
BY DEF Place

LEMMA FlushedEvents ==
    ASSUME NEW group
    PROVE  /\ \A t \in Flush(group) : \E p \in group.at : t.event = p[1]
           /\ \A p \in group.at : \E t \in Flush(group) : t.event = p[1]
           /\ (\A p, q \in group.at : p[1] = q[1] => p = q)
                  => \A t, u \in Flush(group) : t.event = u.event => t = u
<1> DEFINE block(p) == [event |-> p[1], col |-> p[2], total |-> Len(group.cols)]
<1>1. Flush(group) = {block(p) : p \in group.at}
    BY DEF Flush
<1>2. \A p \in group.at : block(p).event = p[1]
    OBVIOUS
<1> HIDE DEF block
<1>3. \A t \in Flush(group) : \E p \in group.at : t = block(p)
    BY <1>1
<1>4. \A p \in group.at : block(p) \in Flush(group)
    BY <1>1
<1>5. QED
    BY <1>2, <1>3, <1>4

LEMMA DrawingGoesOn ==
    ASSUME CalendarInv, NEW s \in Seq(EventIds), Sorted(s), NEW n \in 1..Len(s),
           NEW acc \in Layouts, DrawnOK(acc, s, n - 1)
    PROVE  DrawnOK(LayoutStep(acc, s[n]), s, n)
<1> DEFINE i == s[n]
           next == LayoutStep(acc, i)
           done == {s[m] : m \in 1..(n - 1)}
<1>1. {s[m] : m \in 1..n} = done \cup {i}
    OBVIOUS
<1>2. i \notin done
    <2>1. SUFFICES ASSUME NEW m \in 1..(n - 1), s[m] = i
                   PROVE  FALSE
        OBVIOUS
    <2>2. m \in DOMAIN s /\ n \in DOMAIN s /\ m < n /\ i \in EventIds
        OBVIOUS
    <2>3. Before(i, i)
        BY <2>1, <2>2 DEF Sorted
    <2>4. QED
        BY <2>2, <2>3, BeforeOrders
<1>3. /\ acc = [slots |-> acc.slots, group |-> acc.group, end |-> acc.end]
      /\ acc.group.at \subseteq EventIds \X (Nat \ {0})
    BY DEF Layouts, Groups
<1>4. /\ {t.event : t \in acc.slots} \cup {p[1] : p \in acc.group.at} = done
      /\ \A t \in acc.slots, p \in acc.group.at : t.event # p[1]
      /\ \A t, u \in acc.slots : t.event = u.event => t = u
      /\ \A p, q \in acc.group.at : p[1] = q[1] => p = q
    BY DEF DrawnOK
<1>5. (\A t \in acc.slots : t.event \in done) /\ (\A p \in acc.group.at : p[1] \in done)
    BY <1>4
<1> HIDE DEF done, i
<1>6. CASE Begin(events[i]) < acc.end
    <2>1. next.slots = acc.slots /\ next.group = Place(acc.group, i)
        BY <1>3, <1>6 DEF LayoutStep
    <2> HIDE DEF next
    <2>2. PICK c : next.group.at = acc.group.at \cup {<<i, c>>}
        <3>1. \E c : Place(acc.group, i).at = acc.group.at \cup {<<i, c>>}
            BY PlacedAt
        <3>2. QED
            BY <2>1, <3>1
    <2>3. {t.event : t \in next.slots} \cup {p[1] : p \in next.group.at} = done \cup {i}
        <3>1. \A t \in next.slots : t.event \in done
            BY <1>5, <2>1
        <3>2. \A p \in next.group.at : p[1] \in done \cup {i}
            BY <1>5, <2>2
        <3>3. \A j \in done : \/ \E t \in next.slots : t.event = j
                            \/ \E p \in next.group.at : p[1] = j
            BY <1>4, <2>1, <2>2
        <3>4. \E p \in next.group.at : p[1] = i
            <4>1. <<i, c>> \in next.group.at /\ <<i, c>>[1] = i
                BY <2>2
            <4>2. QED
                BY <4>1
        <3>5. QED
            BY <3>1, <3>2, <3>3, <3>4
    <2>4. \A t \in next.slots, p \in next.group.at : t.event # p[1]
        BY <1>2, <1>4, <1>5, <2>1, <2>2
    <2>5. \A p, q \in next.group.at : p[1] = q[1] => p = q
        BY <1>2, <1>4, <1>5, <2>2
    <2>6. DrawnOK(next, s, n)
        BY <1>1, <1>4, <2>1, <2>3, <2>4, <2>5 DEF DrawnOK, i
    <2>7. QED
        BY <2>6 DEF next, i
<1>7. CASE ~(Begin(events[i]) < acc.end)
    <2>1. next.slots = acc.slots \cup Flush(acc.group) /\ next.group = Place(NoGroup, i)
        BY <1>7 DEF LayoutStep
    <2> HIDE DEF next
    <2>2. PICK c : next.group.at = {<<i, c>>}
        <3>1. \E c : Place(NoGroup, i).at = NoGroup.at \cup {<<i, c>>}
            BY PlacedAt
        <3>2. NoGroup.at = {}
            BY DEF NoGroup
        <3>3. QED
            BY <2>1, <3>1, <3>2
    <2>3. \A p \in acc.group.at : \E t \in Flush(acc.group) : t.event = p[1]
        BY FlushedEvents
    <2>4. \A t, u \in Flush(acc.group) : t.event = u.event => t = u
        BY <1>4, FlushedEvents
    <2>5. \A t \in Flush(acc.group) : \E p \in acc.group.at : t.event = p[1]
        BY FlushedEvents
    <2>6. {t.event : t \in next.slots} = done
        <3>1. \A t \in next.slots : t.event \in done
            BY <1>5, <2>1, <2>5
        <3>2. \A j \in done : \E t \in next.slots : t.event = j
            BY <1>4, <2>1, <2>3
        <3>3. QED
            BY <3>1, <3>2
    <2>7. \A t \in next.slots, p \in next.group.at : t.event # p[1]
        BY <1>2, <2>2, <2>6
    <2>8. \A t, u \in next.slots : t.event = u.event => t = u
        BY <1>4, <2>1, <2>4, <2>5
    <2>9. {p[1] : p \in next.group.at} = {i} /\ \A p, q \in next.group.at : p = q
        BY <2>2
    <2>10. DrawnOK(next, s, n)
        BY <1>1, <2>6, <2>7, <2>8, <2>9 DEF DrawnOK, i
    <2>11. QED
        BY <2>10 DEF next, i
<1>8. QED
    BY <1>6, <1>7

\* The events of S that go on when event i starts.
Running(S, i) ==
    {j \in S : Begin(events[j]) <= Begin(events[i]) /\ Begin(events[i]) < End(events[j])}

\* Each column of the group in progress ends with one of its events, and no group has more
\* columns than there are events going on at one moment.
GroupNarrow(group, S) ==
    /\ \A c \in 1..Len(group.cols) : \E p \in group.at :
           p[2] = c /\ End(events[p[1]]) = group.cols[c]
    /\ Len(group.cols) > 0 => \E i \in S : Len(group.cols) <= Cardinality(Running(S, i))

NarrowOK(acc, S) ==
    /\ GroupNarrow(acc.group, S)
    /\ \A t \in acc.slots : \E i \in S : t.total <= Cardinality(Running(S, i))

LEMMA PlacedNarrow ==
    ASSUME CalendarInv, NEW S \in SUBSET EventIds, IsFiniteSet(S), NEW i \in S,
           NEW group \in Groups, GroupNarrow(group, S),
           \A p \in group.at :
               p[1] \in S /\ p[1] # i /\ Begin(events[p[1]]) <= Begin(events[i]),
           \A p, q \in group.at : p[1] = q[1] => p = q
    PROVE  GroupNarrow(Place(group, i), S)
<1> DEFINE cols == group.cols
           b == Begin(events[i])
           c == ColumnFor(cols, b)
           placed == Place(group, i)
<1>1. b \in Nat /\ End(events[i]) \in Nat /\ b < End(events[i])
    BY Times
<1>2. cols \in Seq(Nat) /\ Len(cols) \in Nat
    BY DEF Groups
<1>3. /\ c \in 1..(Len(cols) + 1)
      /\ \A d \in 1..(c - 1) : cols[d] > b
    BY PlacedColumns
<1>4. placed = [cols |-> placed.cols, at |-> group.at \cup {<<i, c>>}]
    BY PlacedColumns
<1>5. /\ Len(placed.cols) = IF c <= Len(cols) THEN Len(cols) ELSE Len(cols) + 1
      /\ placed.cols[c] = End(events[i])
      /\ \A d \in 1..Len(cols) : d # c => placed.cols[d] = cols[d]
    BY PlacedColumns
<1>6. placed.at = group.at \cup {<<i, c>>}
    BY <1>4
<1> HIDE DEF c, placed
<1>7. ASSUME NEW d \in 1..Len(cols)
      PROVE  \E p \in group.at : p[2] = d /\ End(events[p[1]]) = cols[d]
    BY DEF GroupNarrow
<1>8. ASSUME NEW d \in 1..Len(placed.cols)
      PROVE  \E p \in placed.at : p[2] = d /\ End(events[p[1]]) = placed.cols[d]
    <2>1. CASE d = c
        <3>1. <<i, c>> \in placed.at /\ <<i, c>>[1] = i /\ <<i, c>>[2] = c
            BY <1>6
        <3>2. QED
            BY <1>5, <2>1, <3>1
    <2>2. CASE d # c
        <3>1. d \in 1..Len(cols)
            BY <1>2, <1>3, <1>5, <2>2
        <3>2. PICK p \in group.at : p[2] = d /\ End(events[p[1]]) = cols[d]
            BY <1>7, <3>1
        <3>3. QED
            BY <1>5, <1>6, <2>2, <3>1, <3>2
    <2>3. QED
        BY <2>1, <2>2
<1>9. \E j \in S : Len(placed.cols) <= Cardinality(Running(S, j))
    <2>1. CASE c <= Len(cols)
        <3>1. Len(placed.cols) = Len(cols) /\ Len(cols) > 0
            BY <1>2, <1>3, <1>5, <2>1
        <3>2. QED
            BY <3>1 DEF GroupNarrow
    <2>2. CASE c = Len(cols) + 1
        <3> DEFINE last(d) == CHOOSE p \in group.at : p[2] = d /\ End(events[p[1]]) = cols[d]
                   f == [d \in 1..c |-> IF d = c THEN i ELSE last(d)[1]]
        <3>1. ASSUME NEW d \in 1..(c - 1)
              PROVE  /\ last(d) \in group.at /\ last(d)[2] = d
                     /\ End(events[last(d)[1]]) = cols[d]
            BY <1>2, <1>7, <2>2
        <3> HIDE DEF last
        <3>2. ASSUME NEW d \in 1..(c - 1)
              PROVE  last(d)[1] \in Running(S, i) /\ last(d)[1] # i
            <4>1. d \in 1..Len(cols) /\ cols[d] > b
                BY <1>2, <1>3, <2>2
            <4>2. cols[d] \in Nat
                BY <1>2, <4>1
            <4>3. b < End(events[last(d)[1]])
                BY <1>1, <3>1, <4>1, <4>2
            <4>4. QED
                BY <3>1, <4>3 DEF Running
        <3>3. i \in Running(S, i)
            BY <1>1 DEF Running
        <3>4. \A d \in 1..c : f[d] \in Running(S, i)
            <4>1. ASSUME NEW d \in 1..c, d # c
                  PROVE  d \in 1..(c - 1) /\ f[d] = last(d)[1]
                BY <1>2, <1>3, <4>1
            <4>2. QED
                BY <1>3, <3>2, <3>3, <4>1
        <3>5. ASSUME NEW d \in 1..c, NEW e \in 1..c, f[d] = f[e]
              PROVE  d = e
            <4>1. CASE d = c /\ e = c
                BY <4>1
            <4>2. CASE d = c /\ e # c
                <5>1. e \in 1..(c - 1) /\ f[e] = last(e)[1] /\ f[d] = i
                    BY <1>2, <1>3, <4>2
                <5>2. QED
                    BY <3>2, <3>5, <5>1
            <4>3. CASE d # c /\ e = c
                <5>1. d \in 1..(c - 1) /\ f[d] = last(d)[1] /\ f[e] = i
                    BY <1>2, <1>3, <4>3
                <5>2. QED
                    BY <3>2, <3>5, <5>1
            <4>4. CASE d # c /\ e # c
                <5>1. /\ d \in 1..(c - 1) /\ f[d] = last(d)[1]
                      /\ e \in 1..(c - 1) /\ f[e] = last(e)[1]
                    BY <1>2, <1>3, <4>4
                <5>2. last(d) = last(e)
                    BY <3>1, <3>5, <5>1
                <5>3. last(d)[2] = d /\ last(e)[2] = e
                    BY <3>1, <5>1
                <5>4. QED
                    BY <5>2, <5>3
            <4>5. QED
                BY <4>1, <4>2, <4>3, <4>4
        <3> HIDE DEF f
        <3>6. f \in Injection(1..c, Running(S, i))
            <4>1. f \in [1..c -> Running(S, i)]
                BY <3>4 DEF f
            <4>2. IsInjective(f)
                BY <3>5, <4>1 DEF IsInjective
            <4>3. QED
                BY <4>1, <4>2 DEF Injection
        <3>7. IsFiniteSet(Running(S, i))
            <4>1. Running(S, i) \in SUBSET S
                BY DEF Running
            <4>2. QED
                BY <4>1, FS_Subset
        <3>8. Cardinality(1..c) <= Cardinality(Running(S, i))
            BY <3>6, <3>7, FS_Injection
        <3>9. Cardinality(1..c) = c
            BY <1>2, <2>2, FS_Interval
        <3>10. Len(placed.cols) = c
            BY <1>2, <1>5, <2>2
        <3>11. QED
            BY <3>8, <3>9, <3>10
    <2>3. QED
        BY <1>2, <1>3, <2>1, <2>2
<1>10. GroupNarrow(placed, S)
    BY <1>8, <1>9 DEF GroupNarrow
<1>11. QED
    BY <1>10 DEF placed

LEMMA NothingNarrow ==
    ASSUME NEW S
    PROVE  NoGroup \in Groups /\ GroupNarrow(NoGroup, S) /\ NarrowOK(NoLayout, S)
<1>1. NoGroup \in Groups
    BY NothingPlaced
<1>2. Len(NoGroup.cols) = 0 /\ NoLayout.group = NoGroup /\ NoLayout.slots = {}
    BY DEF NoGroup, NoLayout
<1>3. QED
    BY <1>1, <1>2 DEF NarrowOK, GroupNarrow

LEMMA FlushedNarrow ==
    ASSUME NEW S, NEW group \in Groups, GroupNarrow(group, S), NEW t \in Flush(group),
           \A p \in group.at : p[2] \in 1..Len(group.cols)
    PROVE  \E j \in S : t.total <= Cardinality(Running(S, j))
<1>1. PICK p \in group.at : t.total = Len(group.cols)
    BY DEF Flush
<1>2. Len(group.cols) > 0
    BY DEF Groups
<1>3. QED
    BY <1>1, <1>2 DEF GroupNarrow

LEMMA NarrowGoesOn ==
    ASSUME CalendarInv, NEW s \in Seq(EventIds), Sorted(s), NEW n \in 1..Len(s),
           NEW S \in SUBSET EventIds, IsFiniteSet(S), {s[m] : m \in 1..Len(s)} = S,
           NEW acc \in Layouts, LayoutOK(acc, s, n - 1), DrawnOK(acc, s, n - 1), NarrowOK(acc, S)
    PROVE  NarrowOK(LayoutStep(acc, s[n]), S)
<1> DEFINE i == s[n]
           next == LayoutStep(acc, i)
<1>1. i \in S /\ i \in EventIds /\ Begin(events[i]) \in Nat
    BY Times
<1>2. /\ acc = [slots |-> acc.slots, group |-> acc.group, end |-> acc.end]
      /\ acc.group \in Groups /\ acc.group.cols \in Seq(Nat)
      /\ GroupNarrow(acc.group, S)
      /\ \A t \in acc.slots : \E j \in S : t.total <= Cardinality(Running(S, j))
    BY DEF Layouts, Groups, NarrowOK
<1>3. \A p \in acc.group.at : p[1] \in S /\ p[1] # i /\ Begin(events[p[1]]) <= Begin(events[i])
    <2>1. SUFFICES ASSUME NEW p \in acc.group.at
                   PROVE  p[1] \in S /\ p[1] # i /\ Begin(events[p[1]]) <= Begin(events[i])
        OBVIOUS
    <2>2. PICK m \in 1..(n - 1) : p[1] = s[m]
        <3>1. p[1] \in {q[1] : q \in acc.group.at}
            OBVIOUS
        <3>2. p[1] \in {s[m] : m \in 1..(n - 1)}
            BY <3>1 DEF DrawnOK
        <3>3. QED
            BY <3>2
    <2>3. m \in DOMAIN s /\ n \in DOMAIN s /\ m < n /\ m \in 1..Len(s)
        OBVIOUS
    <2>4. Before(s[m], i) /\ s[m] \in S /\ s[m] \in EventIds
        BY <2>3 DEF Sorted
    <2>5. s[m] # i
        BY <1>1, <2>4, BeforeOrders
    <2>6. Begin(events[s[m]]) \in Nat
        BY <2>4, Times
    <2>7. Begin(events[s[m]]) <= Begin(events[i])
        BY <1>1, <2>4, <2>6 DEF Before
    <2>8. QED
        BY <2>2, <2>4, <2>5, <2>7
<1>4. \A p, q \in acc.group.at : p[1] = q[1] => p = q
    BY DEF DrawnOK
<1> HIDE DEF i
<1>5. CASE Begin(events[i]) < acc.end
    <2>1. next.slots = acc.slots /\ next.group = Place(acc.group, i)
        BY <1>2, <1>5 DEF LayoutStep
    <2> HIDE DEF next
    <2>2. GroupNarrow(Place(acc.group, i), S)
        BY <1>1, <1>2, <1>3, <1>4, PlacedNarrow
    <2>3. NarrowOK(next, S)
        BY <1>2, <2>1, <2>2 DEF NarrowOK
    <2>4. QED
        BY <2>3 DEF next, i
<1>6. CASE ~(Begin(events[i]) < acc.end)
    <2>1. next.slots = acc.slots \cup Flush(acc.group) /\ next.group = Place(NoGroup, i)
        BY <1>6 DEF LayoutStep
    <2> HIDE DEF next
    <2>2. NoGroup \in Groups /\ GroupNarrow(NoGroup, S) /\ NoGroup.at = {}
        BY NothingNarrow DEF NoGroup
    <2>3. GroupNarrow(Place(NoGroup, i), S)
        BY <1>1, <2>2, PlacedNarrow
    <2>4. \A t \in Flush(acc.group) : \E j \in S : t.total <= Cardinality(Running(S, j))
        <3>1. \A p \in acc.group.at : p[2] \in 1..Len(acc.group.cols)
            BY <1>2 DEF LayoutOK, GroupOK, Groups
        <3>2. QED
            BY <1>2, <3>1, FlushedNarrow
    <2>5. NarrowOK(next, S)
        BY <1>2, <2>1, <2>3, <2>4 DEF NarrowOK
    <2>6. QED
        BY <2>5 DEF next, i
<1>7. QED
    BY <1>5, <1>6

\* The sorted list holds each event that is shown.
LEMMA DayIsComplete ==
    ASSUME CalendarInv, NEW day
    PROVE  /\ EventsForDay(day) \in Seq(EventIds) /\ Sorted(EventsForDay(day))
           /\ Len(EventsForDay(day)) \in Nat
           /\ {EventsForDay(day)[m] : m \in 1..Len(EventsForDay(day))} = Shown(day)
<1> DEFINE S == Shown(day)
           N == Cardinality(S)
           s == EventsForDay(day)
<1>1. S \subseteq EventIds /\ IsFiniteSet(S) /\ N \in Nat
    BY ShownFinite
<1>2. s \in [1..N -> S] /\ Sorted(s)
    BY DayIsSorted
<1> HIDE DEF s, N, S
<1>3. s \in Seq(EventIds) /\ Len(s) = N /\ DOMAIN s = 1..N
    BY <1>1, <1>2
<1>4. ASSUME NEW m \in 1..N, NEW n \in 1..N, m < n
      PROVE  s[m] # s[n]
    <2>1. Before(s[m], s[n]) /\ s[m] \in EventIds
        BY <1>1, <1>2, <1>3, <1>4 DEF Sorted
    <2>2. QED
        BY <2>1, BeforeOrders
<1>5. s \in Injection(1..N, S)
    <2>1. ASSUME NEW m \in 1..N, NEW n \in 1..N, s[m] = s[n]
          PROVE  m = n
        <3>1. m \in Int /\ n \in Int /\ ~(m < n) /\ ~(n < m)
            BY <1>4, <2>1
        <3>2. QED
            BY <3>1
    <2>2. IsInjective(s)
        BY <1>3, <2>1 DEF IsInjective
    <2>3. QED
        BY <1>2, <2>2 DEF Injection
<1>6. IsFiniteSet(1..N) /\ Cardinality(1..N) = Cardinality(S)
    BY <1>1, FS_Interval DEF N
<1>7. s \in Surjection(1..N, S)
    BY <1>1, <1>5, <1>6, FS_Injection
<1>8. {s[m] : m \in 1..N} = S
    BY <1>2, <1>7 DEF Surjection
<1>9. QED
    BY <1>1, <1>2, <1>3, <1>8 DEF s, S

\* What both loops leave behind.
LEMMA LoopsEnd ==
    ASSUME CalendarInv, NEW s \in Seq(EventIds), Sorted(s), Len(s) \in Nat,
           NEW S \in SUBSET EventIds, IsFiniteSet(S), {s[m] : m \in 1..Len(s)} = S
    PROVE  /\ LayoutOK(LayoutAfter(s)[Len(s)], s, Len(s))
           /\ DrawnOK(LayoutAfter(s)[Len(s)], s, Len(s))
           /\ NarrowOK(LayoutAfter(s)[Len(s)], S)
<1> DEFINE N == Len(s)
           LoopsOK(acc, n) == LayoutOK(acc, s, n) /\ DrawnOK(acc, s, n) /\ NarrowOK(acc, S)
           Good == {n \in 0..N : LoopsOK(LayoutAfter(s)[n], n)}
<1>1. /\ LayoutAfter(s)[0] = NoLayout
      /\ \A n \in 1..N : LayoutAfter(s)[n] = LayoutStep(LayoutAfter(s)[n - 1], s[n])
    BY LayoutDefined
<1>2. 0 \in Good
    BY <1>1, LayoutStarts, DrawingStarts, NothingNarrow
<1>3. ASSUME NEW n \in 1..N, n - 1 \in Good
      PROVE  n \in Good
    <2> DEFINE acc == LayoutAfter(s)[n - 1]
    <2>1. LayoutOK(acc, s, n - 1) /\ DrawnOK(acc, s, n - 1) /\ NarrowOK(acc, S)
        BY <1>3
    <2> HIDE DEF acc
    <2>2. acc \in Layouts
        BY <2>1 DEF LayoutOK
    <2>3. LayoutOK(LayoutStep(acc, s[n]), s, n)
        BY <2>1, LayoutGoesOn
    <2>4. DrawnOK(LayoutStep(acc, s[n]), s, n)
        BY <2>1, <2>2, DrawingGoesOn
    <2>5. NarrowOK(LayoutStep(acc, s[n]), S)
        BY <2>1, <2>2, NarrowGoesOn
    <2>6. LayoutAfter(s)[n] = LayoutStep(acc, s[n])
        BY <1>1 DEF acc
    <2>7. QED
        BY <2>3, <2>4, <2>5, <2>6
<1> HIDE DEF Good
<1>4. \A n \in 0..N : n \in Good
    BY <1>2, <1>3, UpTo
<1>5. N \in Good
    BY <1>4
<1>6. QED
    BY <1>5 DEF Good

\* Whatever the day shows, the blocks are apart or side by side, each event has one, and
\* none is narrower than it must be.
LEMMA LayoutIsOK ==
    ASSUME CalendarInv, NEW day
    PROVE  /\ LayoutOverlap(day) \in SUBSET Slots /\ SlotsOK(LayoutOverlap(day))
           /\ {t.event : t \in LayoutOverlap(day)} = Shown(day)
           /\ \A t, u \in LayoutOverlap(day) : t.event = u.event => t = u
           /\ \A t \in LayoutOverlap(day) : \E i \in Shown(day) :
                  t.total <= Cardinality(Running(Shown(day), i))
<1> DEFINE s == EventsForDay(day)
           acc == LayoutAfter(s)[Len(s)]
           flushed == Flush(acc.group)
<1>1. /\ s \in Seq(EventIds) /\ Len(s) \in Nat /\ Sorted(s)
      /\ {s[m] : m \in 1..Len(s)} = Shown(day)
      /\ Shown(day) \in SUBSET EventIds /\ IsFiniteSet(Shown(day))
    BY DayIsComplete, ShownFinite
<1> HIDE DEF s
<1>2. /\ LayoutOK(acc, s, Len(s)) /\ DrawnOK(acc, s, Len(s))
      /\ NarrowOK(acc, Shown(day))
    BY <1>1, LoopsEnd
<1> HIDE DEF acc
<1>3. /\ acc.slots \in SUBSET Slots /\ acc.group \in Groups /\ acc.end \in Nat
      /\ GroupOK(acc.group, acc.end) /\ SlotsOK(acc.slots)
      /\ \A t \in acc.slots, p \in acc.group.at : End(events[t.event]) <= Begin(events[p[1]])
    BY <1>2 DEF LayoutOK, Layouts
<1>4. /\ flushed \in SUBSET Slots /\ SlotsOK(flushed)
      /\ \A t \in flushed : \E p \in acc.group.at : t.event = p[1]
    BY <1>3, Flushed
<1>5. \A t \in acc.slots, u \in flushed : End(events[t.event]) <= Begin(events[u.event])
    BY <1>3, <1>4
<1>6. LayoutOverlap(day) = acc.slots \cup flushed
    BY DEF LayoutOverlap, acc, s
<1>7. /\ {t.event : t \in acc.slots} \cup {p[1] : p \in acc.group.at} = Shown(day)
      /\ \A t \in acc.slots, p \in acc.group.at : t.event # p[1]
      /\ \A t, u \in acc.slots : t.event = u.event => t = u
      /\ \A p, q \in acc.group.at : p[1] = q[1] => p = q
    BY <1>1, <1>2 DEF DrawnOK
<1>8. /\ \A t, u \in flushed : t.event = u.event => t = u
      /\ \A p \in acc.group.at : \E t \in flushed : t.event = p[1]
    BY <1>7, FlushedEvents
<1> DEFINE fits(t) == \E i \in Shown(day) : t.total <= Cardinality(Running(Shown(day), i))
<1>9. (\A t \in acc.slots : fits(t)) /\ (\A t \in flushed : fits(t))
    <2>1. GroupNarrow(acc.group, Shown(day)) /\ \A t \in acc.slots : fits(t)
        BY <1>2 DEF NarrowOK
    <2>2. \A p \in acc.group.at : p[2] \in 1..Len(acc.group.cols)
        BY <1>3 DEF GroupOK, Groups
    <2>3. \A t \in flushed : fits(t)
        BY <1>3, <2>1, <2>2, FlushedNarrow
    <2>4. QED
        BY <2>1, <2>3
<1> HIDE DEF flushed, fits
<1>10. \A t \in LayoutOverlap(day) : fits(t)
    BY <1>6, <1>9
<1>11. {t.event : t \in LayoutOverlap(day)} = Shown(day)
    <2>1. \A t \in LayoutOverlap(day) : t.event \in Shown(day)
        BY <1>4, <1>6, <1>7
    <2>2. \A j \in Shown(day) : \E t \in LayoutOverlap(day) : t.event = j
        BY <1>6, <1>7, <1>8
    <2>3. QED
        BY <2>1, <2>2
<1>12. \A t, u \in LayoutOverlap(day) : t.event = u.event => t = u
    BY <1>4, <1>6, <1>7, <1>8
<1>13. QED
    BY <1>3, <1>4, <1>5, <1>6, <1>11, <1>12, <1>10, SlotsJoin DEF fits

-----------------------------------------------------------------------------
(* The page *)

\* Two columns of as many share no part of the width.
LEMMA ColumnsApart ==
    ASSUME NEW a \in Nat \ {0}, NEW b \in Nat \ {0}, NEW total \in Nat \ {0},
           (a - 1) * total < b * total, (b - 1) * total < a * total
    PROVE  a = b
<1>1. ASSUME NEW x \in Nat \ {0}, NEW y \in Nat \ {0}, (x - 1) * total < y * total
      PROVE  x <= y
    <2>1. SUFFICES ASSUME x - 1 - y \in Nat
                   PROVE  FALSE
        OBVIOUS
    <2>2. (x - 1 - y) * total \in Nat
        BY <2>1
    <2>3. (x - 1 - y) * total = (x - 1) * total - y * total
        OBVIOUS
    <2>4. (x - 1) * total \in Int /\ y * total \in Int
        OBVIOUS
    <2>5. QED
        BY <1>1, <2>2, <2>3, <2>4
<1>2. QED
    BY <1>1

LEMMA DayApart == CalendarInv => BlocksOfADayApart
<1> SUFFICES ASSUME CalendarInv,
                    NEW s \in LayoutOverlap(cursor), NEW t \in LayoutOverlap(cursor), s # t,
                    events[s.event].day = DayKey(cursor), events[t.event].day = DayKey(cursor),
                    Covers(s, t)
             PROVE  FALSE
    BY DEF BlocksOfADayApart
<1>1. LayoutOverlap(cursor) \in SUBSET Slots /\ SlotsOK(LayoutOverlap(cursor))
    BY LayoutIsOK
<1>2. /\ s.event \in EventIds /\ s.col \in Nat \ {0} /\ s.total \in Nat \ {0}
      /\ t.event \in EventIds /\ t.col \in Nat \ {0} /\ t.total \in Nat \ {0}
    BY <1>1 DEF Slots
<1>3. ~Apart(s.event, t.event)
    <2> DEFINE e == events[s.event]
               f == events[t.event]
               start == e.day * DayLength
    <2>1. /\ e.from \in Nat /\ f.from \in Nat /\ e.day \in Nat /\ f.day = e.day
          /\ LengthOf(e) \in Nat /\ LengthOf(f) \in Nat
        BY <1>2, EventTypes, Times DEF CalendarInv
    <2>2. start \in Nat
        BY <2>1, CalendarAssumption
    <2>3. /\ Begin(e) = start + e.from /\ End(e) = start + e.from + LengthOf(e)
          /\ Begin(f) = start + f.from /\ End(f) = start + f.from + LengthOf(f)
        BY <2>1 DEF Begin, End
    <2>4. e.from < f.from + LengthOf(f) /\ f.from < e.from + LengthOf(e)
        BY DEF Covers, TopOf, BottomOf
    <2> HIDE DEF start, e, f
    <2>5. Begin(e) < End(f) /\ Begin(f) < End(e)
        BY <2>1, <2>2, <2>3, <2>4
    <2>6. ~(End(e) <= Begin(f)) /\ ~(End(f) <= Begin(e))
        BY <2>1, <2>2, <2>3, <2>5
    <2>7. QED
        BY <2>6 DEF Apart, e, f
<1>4. s.total = t.total /\ s.col # t.col
    BY <1>1, <1>3 DEF SlotsOK
<1>5. (s.col - 1) * s.total < t.col * s.total /\ (t.col - 1) * s.total < s.col * s.total
    BY <1>4 DEF Covers
<1>6. QED
    BY <1>2, <1>4, <1>5, ColumnsApart

\* However the events of a day overlap, and however long they are, the columns of
\* layoutOverlap keep the blocks of that day apart.
THEOREM CalendarKeepsBlocksApart == CalendarSpec => []BlocksOfADayApart
<1>1. QED
    BY CalendarType, DayApart, PTL

\* Each event that occurs on the day has a block on the page, and only one.
DrawnOnce ==
    \A i \in Shown(cursor) : \E s \in LayoutOverlap(cursor) :
        s.event = i /\ \A t \in LayoutOverlap(cursor) : t.event = i => t = s

\* The two loops neither lose an event nor draw one twice: not the first of the sorted
\* list, nor the last group, which is pushed after the loop.
THEOREM CalendarDrawsOnce == CalendarSpec => []DrawnOnce
<1>1. CalendarInv => DrawnOnce
    <2>1. SUFFICES ASSUME CalendarInv, NEW i \in Shown(cursor)
                   PROVE  \E s \in LayoutOverlap(cursor) :
                              s.event = i /\ \A t \in LayoutOverlap(cursor) : t.event = i => t = s
        BY DEF DrawnOnce
    <2>2. PICK s \in LayoutOverlap(cursor) : s.event = i
        BY <2>1, LayoutIsOK
    <2>3. QED
        BY <2>1, <2>2, LayoutIsOK
<1>2. QED
    BY <1>1, CalendarType, PTL

\* No group is cut into more columns than there are events at one of its moments.
NoColumnWasted ==
    \A t \in LayoutOverlap(cursor) : \E i \in Shown(cursor) :
        t.total <= Cardinality(Running(Shown(cursor), i))

\* A new column is opened only when every other one is taken: a block is as wide as the
\* events that overlap at the busiest moment leave it.
THEOREM CalendarWastesNoColumn == CalendarSpec => []NoColumnWasted
<1>1. CalendarInv => NoColumnWasted
    BY LayoutIsOK DEF NoColumnWasted
<1>2. QED
    BY <1>1, CalendarType, PTL
=============================================================================
