--------------------------- MODULE MockLlmProofs ---------------------------
(***************************************************************************)
(* Which answers of LLM_MODE = mock pass the validation: every plan,       *)
(* whatever the window, and the replans that find all its days free.       *)
(***************************************************************************)
EXTENDS MockLlm, FiniteSetTheorems, TLAPS

\* From three days on the three thirds follow each other and none is empty: the
\* corrections in build_mock_plan for thirds that touch change nothing then.
LEMMA Cuts ==
    ASSUME NEW q, q.first \in Nat, q.requested \in Nat, q.requested - q.first + 1 >= 3
    PROVE  /\ FirstCut(q) \in Nat /\ SecondCut(q) \in Nat
           /\ q.first <= FirstCut(q) /\ FirstCut(q) < SecondCut(q)
           /\ SecondCut(q) < q.requested
  <1> DEFINE n == q.requested - q.first + 1
             third == n \div 3
             two == (2 * n) \div 3
  <1>1. n \in Nat /\ third \in Nat /\ two \in Nat
    OBVIOUS
  <1>2. third >= 1 /\ two > third /\ two < n
    OBVIOUS
  <1>3. Larger(1, third) = third /\ Larger(2, two) = two
    BY <1>1, <1>2 DEF Larger
  <1>4. FirstCut(q) = q.first + third - 1
    BY <1>1, <1>2, <1>3 DEF FirstCut
  <1>5. SecondCut(q) = q.first + two - 1
    BY <1>1, <1>2, <1>3, <1>4 DEF SecondCut
  <1>6. QED
    BY <1>1, <1>2, <1>4, <1>5

\* The parts lie in the window, and each of its days is in exactly one of them.
LEMMA PartsCover ==
    ASSUME NEW q, q.first \in Nat, q.requested \in Nat, q.first <= q.requested
    PROVE  /\ Parts(q) # {}
           /\ \A i \in Parts(q) :
                /\ Part(q, i).start \in Int /\ Part(q, i).end \in Int
                /\ q.first <= Part(q, i).start
                /\ Part(q, i).start <= Part(q, i).end
                /\ Part(q, i).end <= q.requested
           /\ \A d \in Window(q) : \E i \in Parts(q) :
                \A j \in Parts(q) : d \in Part(q, j).start..Part(q, j).end <=> j = i
  <1>1. CASE q.requested - q.first + 1 < 3
    BY <1>1 DEF Parts, Part, Window
  <1>2. CASE q.requested - q.first + 1 >= 3
    <2> DEFINE x == FirstCut(q)
               y == SecondCut(q)
    <2>1. x \in Nat /\ y \in Nat /\ q.first <= x /\ x < y /\ y < q.requested
      BY <1>2, Cuts
    <2> HIDE DEF x, y
    <2>2. /\ Third(q, 1) = [start |-> q.first, end |-> x]
          /\ Third(q, 2) = [start |-> x + 1, end |-> y]
          /\ Third(q, 3) = [start |-> y + 1, end |-> q.requested]
      BY DEF Third, x, y
    <2>3. Parts(q) = 1..3
      BY <1>2, <2>1, <2>2 DEF Parts
    <2>4. \A i \in 1..3 : Part(q, i) = [start |-> Third(q, i).start, end |-> Third(q, i).end]
      BY <1>2, <2>1, <2>2 DEF Part, Larger, Smaller
    <2>5. /\ Part(q, 1) = [start |-> q.first, end |-> x]
          /\ Part(q, 2) = [start |-> x + 1, end |-> y]
          /\ Part(q, 3) = [start |-> y + 1, end |-> q.requested]
      BY <2>2, <2>4
    <2>6. \A d \in Window(q) : \E i \in Parts(q) :
            \A j \in Parts(q) : d \in Part(q, j).start..Part(q, j).end <=> j = i
      <3> TAKE d \in Window(q)
      <3>1. d \in Int /\ q.first <= d /\ d <= q.requested
        BY DEF Window
      <3>2. CASE d <= x
        <4>1. \A j \in Parts(q) : d \in Part(q, j).start..Part(q, j).end <=> j = 1
          BY <2>1, <2>3, <2>5, <3>1, <3>2
        <4>2. QED
          BY <2>3, <4>1
      <3>3. CASE x < d /\ d <= y
        <4>1. \A j \in Parts(q) : d \in Part(q, j).start..Part(q, j).end <=> j = 2
          BY <2>1, <2>3, <2>5, <3>1, <3>3
        <4>2. QED
          BY <2>3, <4>1
      <3>4. CASE y < d
        <4>1. \A j \in Parts(q) : d \in Part(q, j).start..Part(q, j).end <=> j = 3
          BY <2>1, <2>3, <2>5, <3>1, <3>4
        <4>2. QED
          BY <2>3, <4>1
      <3>5. QED
        BY <2>1, <3>1, <3>2, <3>3, <3>4
    <2>7. \A i \in Parts(q) : /\ Part(q, i).start \in Int /\ Part(q, i).end \in Int
                          /\ q.first <= Part(q, i).start
                          /\ Part(q, i).start <= Part(q, i).end
                          /\ Part(q, i).end <= q.requested
      BY <2>1, <2>3, <2>5
    <2>8. Parts(q) # {}
      BY <2>3
    <2>9. QED
      BY <2>6, <2>7, <2>8
  <1>3. QED
    BY <1>1, <1>2

\* A mock plan passes validate_wbs_payload for every window that is not empty,
\* however short or long (mock.py:41 divides it into thirds and mends the ends).
THEOREM MockPlanIsValid ==
    ASSUME NEW q, q.first \in Nat, q.requested \in Nat, q.first <= q.requested
    PROVE  ValidPlan(q, MockPlan(q))
  <1> DEFINE a == MockPlan(q)
             P == Parts(q)
             Days(i) == Part(q, i).start..Part(q, i).end
  <1>1. /\ DOMAIN a.mils = P /\ DOMAIN a.tasks = P
        /\ \A i \in P : /\ a.mils[i] = Part(q, i)
                        /\ a.tasks[i].mil = i
                        /\ a.tasks[i].start = Part(q, i).start
                        /\ a.tasks[i].end = Part(q, i).end
    BY DEF MockPlan
  <1>2. \A r : r \in a.rows <=> \E i \in P : \E d \in Days(i) : r = [day |-> d, code |-> i]
    BY DEF MockPlan
  <1> HIDE DEF a, P, Days
  <1>3. /\ P # {}
        /\ \A i \in P : /\ Part(q, i).start \in Int /\ Part(q, i).end \in Int
                        /\ q.first <= Part(q, i).start
                        /\ Part(q, i).start <= Part(q, i).end
                        /\ Part(q, i).end <= q.requested
        /\ \A d \in Window(q) : \E i \in P : \A j \in P : d \in Days(j) <=> j = i
    BY PartsCover DEF P, Days
  <1>4. OneADay(a.rows, q.first, q.requested)
    <2>1. \A r \in a.rows : r.day \in q.first..q.requested
      BY <1>2, <1>3 DEF Days
    <2>2. ASSUME NEW d \in q.first..q.requested
          PROVE  \E r \in a.rows : {s \in a.rows : s.day = d} = {r}
      <3>1. PICK i \in P : \A j \in P : d \in Days(j) <=> j = i
        BY <1>3 DEF Window
      <3>2. [day |-> d, code |-> i] \in a.rows
        BY <1>2, <3>1
      <3>3. \A s \in a.rows : s.day = d <=> s = [day |-> d, code |-> i]
        BY <1>2, <3>1
      <3>4. QED
        BY <3>2, <3>3
    <2>3. QED
      BY <2>1, <2>2 DEF OneADay
  <1>5. \A r \in a.rows : /\ r.code \in DOMAIN a.tasks
                          /\ a.tasks[r.code].start <= r.day /\ r.day <= a.tasks[r.code].end
    <2> SUFFICES ASSUME NEW i \in P, NEW d \in Days(i)
                 PROVE  /\ i \in DOMAIN a.tasks
                        /\ a.tasks[i].start <= d /\ d <= a.tasks[i].end
      BY <1>2
    <2>1. Part(q, i).start <= d /\ d <= Part(q, i).end
      BY <1>3 DEF Days
    <2>2. QED
      BY <1>1, <2>1
  <1>6. \A c \in DOMAIN a.tasks : ValidTask(q, a, a.tasks[c])
    <2> SUFFICES ASSUME NEW i \in P PROVE ValidTask(q, a, a.tasks[i])
      BY <1>1
    <2>1. a.mils[a.tasks[i].mil] = Part(q, i)
      BY <1>1
    <2>2. /\ a.tasks[i].start = Part(q, i).start /\ a.tasks[i].end = Part(q, i).end
          /\ Part(q, i).start \in Int /\ Part(q, i).end \in Int
          /\ Part(q, i).start <= Part(q, i).end
      BY <1>1, <1>3
    <2>3. QED
      BY <2>1, <2>2 DEF ValidTask
  <1>7. /\ \A m \in DOMAIN a.mils : LET w == a.mils[m] IN
             q.first <= w.start /\ w.start <= w.end /\ w.end <= q.requested
        /\ DOMAIN a.mils # {}
        /\ \A m \in DOMAIN a.mils : \E c \in DOMAIN a.tasks : a.tasks[c].mil = m
    <2>1. \A m \in P : LET w == a.mils[m] IN
            q.first <= w.start /\ w.start <= w.end /\ w.end <= q.requested
      BY <1>1, <1>3
    <2>2. \A m \in P : \E c \in P : a.tasks[c].mil = m
      BY <1>1
    <2>3. QED
      BY <1>1, <1>3, <2>1, <2>2
  <1>8. QED
    BY <1>4, <1>5, <1>6, <1>7 DEF ValidPlan, a

-----------------------------------------------------------------------------
(***************************************************************************)
(* Replans.  The unfinished tasks take turns: Element counts them off.     *)
(***************************************************************************)

\* How many elements of S are below x.
Rank(S, x) == Cardinality({y \in S : y < x})

LEMMA RankIsBelow ==
    ASSUME NEW S \in SUBSET Int, IsFiniteSet(S), NEW x \in S
    PROVE  /\ IsFiniteSet({y \in S : y < x})
           /\ Rank(S, x) \in 0..(Cardinality(S) - 1)
  <1> DEFINE B == {y \in S : y < x}
  <1>1. IsFiniteSet(S \ {x}) /\ Cardinality(S \ {x}) = Cardinality(S) - 1
    BY FS_RemoveElement
  <1>2. B \subseteq S \ {x}
    OBVIOUS
  <1>3. IsFiniteSet(B) /\ Cardinality(B) <= Cardinality(S \ {x})
    <2> HIDE DEF B
    <2>1. QED
      BY <1>1, <1>2, FS_Subset
  <1>4. Cardinality(B) \in Nat /\ Cardinality(S) \in Nat
    BY <1>3, FS_CardinalityType
  <1>5. Cardinality(B) \in 0..(Cardinality(S) - 1)
    BY <1>1, <1>3, <1>4
  <1>6. QED
    BY <1>3, <1>5 DEF Rank

LEMMA RankGrows ==
    ASSUME NEW S \in SUBSET Int, IsFiniteSet(S), NEW x \in S, NEW z \in S, x < z
    PROVE  Rank(S, x) # Rank(S, z)
  <1> DEFINE B == {y \in S : y < x}
             C == {y \in S : y < z}
  <1>1. x \in C /\ x \notin B /\ B \in SUBSET C
    <2>1. \A y \in S : y < x => y < z
      OBVIOUS
    <2>2. x \in C /\ x \notin B
      OBVIOUS
    <2>3. QED
      BY <2>1, <2>2
  <1>2. IsFiniteSet(C)
    BY RankIsBelow
  <1>3. Cardinality(C) # Cardinality(B)
    <2> HIDE DEF B, C
    <2>1. QED
      BY <1>1, <1>2, FS_Subset
  <1>4. QED
    BY <1>3 DEF Rank

\* Every number below the size of a finite set of numbers is the rank of one of
\* them: ranks are an injection into as many numbers as there are elements.
LEMMA ElementIsMember ==
    ASSUME NEW S \in SUBSET Int, IsFiniteSet(S), NEW k \in 0..(Cardinality(S) - 1)
    PROVE  Element(S, k) \in S
  <1> DEFINE T == 0..(Cardinality(S) - 1)
             f == [x \in S |-> Rank(S, x)]
  <1>1. Cardinality(S) \in Nat
    BY FS_CardinalityType
  <1>2. IsFiniteSet(T) /\ Cardinality(T) = Cardinality(S)
    BY <1>1, FS_Interval
  <1>3. f \in [S -> T]
    BY RankIsBelow
  <1>4. \A x, z \in S : f[x] = f[z] => x = z
    <2> SUFFICES ASSUME NEW x \in S, NEW z \in S, x # z PROVE Rank(S, x) # Rank(S, z)
      OBVIOUS
    <2>1. CASE x < z
      BY <2>1, RankGrows
    <2>2. CASE z < x
      BY <2>2, RankGrows
    <2>3. QED
      BY <2>1, <2>2
  <1> HIDE DEF f, T
  <1>5. f \in Injection(S, T)
    BY <1>3, <1>4 DEF Injection, IsInjective
  <1>6. f \in Surjection(S, T)
    BY <1>2, <1>5, FS_Injection
  <1>7. PICK x \in S : f[x] = k
    BY <1>6 DEF Surjection, T
  <1>8. \E y \in S : Cardinality({z \in S : z < y}) = k
    BY <1>7 DEF f, Rank
  <1>9. QED
    BY <1>8 DEF Element

\* On every day some unfinished task has its turn, when there is one.
LEMMA TurnIsUnfinished ==
    ASSUME RepliesAssumption, NEW q, q.first \in Int, q.requested \in Int,
           Incomplete(q) # {}, NEW d \in Int
    PROVE  Turn(q, d) \in Incomplete(q)
  <1> DEFINE I == Incomplete(q)
             before == Cardinality({e \in Free(q) : e < d})
             n == Cardinality(I)
  <1>1. IsFiniteSet(I) /\ I \in SUBSET Int
    <2>1. I \in SUBSET (1..NumTasks)
      BY DEF Incomplete, Tasks
    <2>2. IsFiniteSet(1..NumTasks)
      BY FS_Interval, RepliesAssumption
    <2> HIDE DEF I
    <2>3. IsFiniteSet(I)
      BY <2>1, <2>2, FS_Subset
    <2>4. QED
      BY <2>1, <2>3
  <1>2. n \in Nat /\ n # 0
    BY <1>1, FS_CardinalityType, FS_EmptySet
  <1>3. before \in Nat
    <2>1. {e \in Free(q) : e < d} \in SUBSET (q.first..q.requested)
      BY DEF Free, Window
    <2>2. IsFiniteSet(q.first..q.requested)
      BY FS_Interval
    <2>3. IsFiniteSet({e \in Free(q) : e < d})
      BY <2>1, <2>2, FS_Subset
    <2>4. QED
      BY <2>3, FS_CardinalityType
  <1> HIDE DEF before, n
  <1>4. before % n \in 0..(n - 1)
    BY <1>2, <1>3
  <1>5. Element(I, before % n) \in I
    <2> HIDE DEF I
    <2>1. QED
      BY <1>1, <1>4, ElementIsMember DEF n
  <1>6. QED
    BY <1>5 DEF Turn, before, n

\* One row on each free day.
LEMMA MockRowsByDay ==
    ASSUME NEW q
    PROVE  /\ \A r \in MockRows(q) : r.day \in Free(q) /\ r.code = Turn(q, r.day)
           /\ \A d \in Free(q) : \E r \in MockRows(q) : {s \in MockRows(q) : s.day = d} = {r}
  <1>1. \A r : r \in MockRows(q) <=> \E d \in Free(q) : r = [day |-> d, code |-> Turn(q, d)]
    BY DEF MockRows
  <1>2. ASSUME NEW d \in Free(q)
        PROVE  \E r \in MockRows(q) : {s \in MockRows(q) : s.day = d} = {r}
    <2>1. [day |-> d, code |-> Turn(q, d)] \in MockRows(q)
      BY <1>1
    <2>2. \A s \in MockRows(q) : s.day = d <=> s = [day |-> d, code |-> Turn(q, d)]
      BY <1>1
    <2>3. QED
      BY <2>1, <2>2
  <1>3. QED
    BY <1>1, <1>2

\* A set of numbers that is bounded from above has a greatest one.
LEMMA MaxExists ==
    ASSUME NEW S \in SUBSET Nat, S # {}, NEW b \in Nat, \A x \in S : x <= b
    PROVE  Max(S) \in S
  <1> DEFINE T == {b - x : x \in S}
  <1>1. T \subseteq Nat /\ T # {}
    <2>1. \A x \in S : b - x \in Nat
      OBVIOUS
    <2>2. QED
      BY <2>1
  <1>2. PICK t \in T : \A u \in T : ~(<<u, t>> \in OpToRel(<, Nat))
    BY <1>1, NatLessThanWellFounded, WFMin
  <1>3. \A u \in T : ~(u < t)
    BY <1>1, <1>2 DEF OpToRel
  <1>4. \E x \in S : \A y \in S : x >= y
    <2>1. PICK x \in S : t = b - x
      OBVIOUS
    <2>2. \A y \in S : ~(b - y < b - x)
      BY <1>3, <2>1
    <2>3. ASSUME NEW y \in S PROVE x >= y
      <3>1. x \in Nat /\ y \in Nat /\ b \in Nat
        OBVIOUS
      <3>2. ~(b - y < b - x)
        BY <2>2
      <3>3. QED
        BY <3>1, <3>2
    <2>4. QED
      BY <2>3
  <1>5. QED
    BY <1>4 DEF Max

\* The largest of a set of numbers, when it is known.
LEMMA MaxIs ==
    ASSUME NEW S \in SUBSET Int, NEW x \in S, \A y \in S : y <= x
    PROVE  Max(S) = x
  <1>1. \A z \in S : (\A y \in S : z >= y) => z = x
    <2> SUFFICES ASSUME NEW z \in S, \A y \in S : z >= y PROVE z = x
      OBVIOUS
    <2>1. z >= x /\ z <= x /\ z \in Int /\ x \in Int
      OBVIOUS
    <2>2. QED
      BY <2>1
  <1>2. \A y \in S : x >= y
    <2> SUFFICES ASSUME NEW y \in S PROVE x >= y
      OBVIOUS
    <2>1. y <= x /\ y \in Int /\ x \in Int
      OBVIOUS
    <2>2. QED
      BY <2>1
  <1>3. QED
    BY <1>1, <1>2 DEF Max

\* A question about a replan, as far as the mock looks at it.
ReplanQuestion(q) ==
    /\ q.first \in Nat /\ q.first # Bad /\ q.current \in Nat /\ q.requested \in Nat
    /\ \A c \in Tasks : q.starts[c] \in Int

\* Without a row the answer asks for time if anything is unfinished; it is no plan.
LEMMA MockWithoutRows ==
    ASSUME NEW q, ReplanQuestion(q), MockReplan(q).rows = {}
    PROVE  /\ ~ValidReplan(q, MockReplan(q))
           /\ MockReplan(q).says => SuggestedEnd(q, MockReplan(q)) = q.requested + 1
           /\ ~MockReplan(q).says => SuggestedEnd(q, MockReplan(q)) = q.requested
  <1> DEFINE a == MockReplan(q)
             sug == SuggestedEnd(q, a)
  <1>1. a.end = NoDate /\ a.rows = {}
    BY DEF MockReplan
  <1> HIDE DEF a
  <1>2. (a.says => sug = q.requested + 1) /\ (~a.says => sug = q.requested)
    BY <1>1 DEF SuggestedEnd, AsksVaguely
  <1>3. ~ValidReplan(q, a)
    <2> SUFFICES ASSUME ValidReplan(q, a) PROVE FALSE
      OBVIOUS
    <2>1. q.first \in q.first..Cap(q, a)
      <3>1. Cap(q, a) \in Int
        BY <1>2 DEF Cap, ReplanQuestion
      <3>2. QED
        BY <3>1 DEF ValidReplan, ReplanQuestion
    <2>2. \E r \in a.rows : TRUE
      BY <2>1 DEF ValidReplan, ValidRows, OneADay
    <2>3. QED
      BY <1>1, <2>2
  <1>4. QED
    BY <1>2, <1>3 DEF a

\* With rows it ends on the last day of them.
LEMMA MockWithRows ==
    ASSUME NEW q, ReplanQuestion(q), Incomplete(q) # {}, Free(q) # {}
    PROVE  /\ MockReplan(q).rows = MockRows(q) /\ MockReplan(q).rows # {}
           /\ MockReplan(q).tasks = WindowsOfTasks(q)
           /\ RowDays(MockReplan(q)) = Free(q)
           /\ SuggestedEnd(q, MockReplan(q)) = Max(Free(q))
           /\ Max(Free(q)) \in Free(q)
  <1> DEFINE a == MockReplan(q)
  <1>1. /\ a.rows = MockRows(q) /\ a.end = NoDate
        /\ a.tasks = WindowsOfTasks(q)
    <2>1. q.first <= q.requested
      BY DEF Free, Window, ReplanQuestion
    <2>2. QED
      BY <2>1 DEF MockReplan, ReplanQuestion
  <1> HIDE DEF a
  <1>2. RowDays(a) = Free(q)
    <2>1. \A r \in a.rows : r.day \in Free(q)
      BY <1>1, MockRowsByDay
    <2>2. \A d \in Free(q) : \E r \in a.rows : r.day = d
      BY <1>1, MockRowsByDay
    <2>3. QED
      BY <2>1, <2>2 DEF RowDays
  <1>3. a.rows # {}
    BY <1>2 DEF RowDays
  <1>4. SuggestedEnd(q, a) = Max(Free(q))
    BY <1>1, <1>2, <1>3 DEF SuggestedEnd, AsksVaguely
  <1>5. Max(Free(q)) \in Free(q)
    <2>1. Free(q) \in SUBSET Nat /\ \A d \in Free(q) : d <= q.requested
      BY DEF Free, Window, ReplanQuestion
    <2>2. QED
      BY <2>1, MaxExists DEF ReplanQuestion
  <1>6. QED
    BY <1>1, <1>2, <1>3, <1>4, <1>5 DEF a

\* A day that another goal has is missing, and the tasks end on the last day: both
\* would have to be before the suggested end.
LEMMA BusyDayFails ==
    ASSUME NEW q, ReplanQuestion(q), Incomplete(q) # {}, Free(q) # {}, Free(q) # Window(q)
    PROVE  ~ValidReplan(q, MockReplan(q))
  <1> DEFINE a == MockReplan(q)
             cap == Cap(q, a)
  <1> SUFFICES ASSUME ValidReplan(q, a) PROVE FALSE
    OBVIOUS
  <1>0. /\ a.rows = MockRows(q) /\ a.tasks = WindowsOfTasks(q)
        /\ SuggestedEnd(q, a) \in Window(q)
    BY MockWithRows DEF Free
  <1> HIDE DEF a
  <1>1. cap \in Int /\ q.first \in Int /\ q.requested \in Int
    BY <1>0 DEF Cap, Window, ReplanQuestion
  <1>2. q.requested <= cap
    <2>1. PICK c \in Incomplete(q) : TRUE
      OBVIOUS
    <2>2. c \in DOMAIN a.tasks /\ a.tasks[c].end = q.requested
      BY <1>0 DEF WindowsOfTasks
    <2>3. QED
      BY <2>2 DEF ValidReplan, ValidUpdates
  <1>3. PICK d \in Window(q) : d \notin Free(q)
    BY DEF Free
  <1>4. d \in q.first..cap
    BY <1>1, <1>2, <1>3 DEF Window
  <1>5. \E r \in a.rows : r.day = d
    BY <1>4 DEF ValidReplan, ValidRows, OneADay
  <1>6. QED
    BY <1>0, <1>3, <1>5, MockRowsByDay

\* With every day free all that is left to pass are the tasks' new windows and, for a
\* deadline, that it is a later one.
LEMMA FreeWindowPasses ==
    ASSUME RepliesAssumption, NEW q, ReplanQuestion(q), Incomplete(q) # {},
           Free(q) # {}, Free(q) = Window(q)
    PROVE  /\ SuggestedEnd(q, MockReplan(q)) = q.requested
           /\ ValidReplan(q, MockReplan(q)) <=>
                /\ \A c \in Incomplete(q) : q.starts[c] <= q.requested
                /\ q.kind = "deadline_replan" => q.current < q.requested
  <1> DEFINE a == MockReplan(q)
  <1>1. /\ q.first \in Nat /\ q.requested \in Nat /\ q.first # 0 /\ q.first <= q.requested
        /\ q.current \in Nat
    BY DEF ReplanQuestion, Bad, Window
  <1>2. /\ a.rows = MockRows(q) /\ a.rows # {} /\ a.tasks = WindowsOfTasks(q)
        /\ RowDays(a) = Window(q) /\ SuggestedEnd(q, a) = Max(Window(q))
    BY MockWithRows
  <1>3. /\ a.end = NoDate /\ ~a.says
        /\ a.mils = [m \in OpenMilestones(q) |-> [start |-> NoDate, end |-> q.requested]]
    <2>1. ~(Incomplete(q) = {} \/ q.first > q.requested)
      BY <1>1
    <2> HIDE DEF a
    <2>2. a = [rows |-> MockRows(q), end |-> NoDate, tasks |-> WindowsOfTasks(q),
               mils |-> [m \in OpenMilestones(q) |-> [start |-> NoDate, end |-> q.requested]],
               says |-> FALSE]
      BY <2>1, Zenon DEF MockReplan, a
    <2>3. QED
      BY <2>2
  <1> HIDE DEF a
  <1>4. SuggestedEnd(q, a) = q.requested
    <2>1. /\ Window(q) \in SUBSET Int /\ q.requested \in Window(q)
          /\ \A d \in Window(q) : d <= q.requested
      BY <1>1 DEF Window
    <2>2. QED
      BY <1>2, <2>1, MaxIs
  <1>5. /\ Cap(q, a) = q.requested /\ Adjustment(q, a) = "none" /\ MetaParses(a)
        /\ LaterThanCurrent(q, a) <=> q.current < q.requested
    <2>1. Cap(q, a) = q.requested /\ Adjustment(q, a) = "none"
      BY <1>1, <1>4 DEF Cap, Adjustment
    <2>2. MetaParses(a)
      BY <1>1, <1>2, <1>3 DEF MetaParses, Window, Bad, NoDate
    <2>3. LaterThanCurrent(q, a) <=> q.current < q.requested
      BY <1>1, <1>3, <1>4 DEF LaterThanCurrent, AsksVaguely
    <2>4. QED
      BY <2>1, <2>2, <2>3
  <1>6. ValidRows(q, a)
    <2>1. \A r \in a.rows : r.day \in q.first..q.requested /\ r.code = Turn(q, r.day)
      BY <1>2, MockRowsByDay DEF Window
    <2>2. \A d \in q.first..q.requested : \E r \in a.rows : {s \in a.rows : s.day = d} = {r}
      <3>1. \A d \in Free(q) : \E r \in a.rows : {s \in a.rows : s.day = d} = {r}
        BY <1>2, MockRowsByDay
      <3>2. QED
        BY <3>1 DEF Window
    <2>3. \A r \in a.rows : r.code \in Incomplete(q)
      BY <1>1, <2>1, TurnIsUnfinished
    <2>4. QED
      BY <1>5, <2>1, <2>2, <2>3 DEF ValidRows, OneADay
  <1>7. ValidUpdates(q, a) <=> \A c \in Incomplete(q) : q.starts[c] <= q.requested
    <2>1. \A m \in DOMAIN a.mils :
            m \in Milestones /\ a.mils[m].end = q.requested
      BY <1>3 DEF OpenMilestones
    <2>2. DOMAIN a.tasks = Incomplete(q)
      BY <1>2 DEF WindowsOfTasks
    <2>3. \A c \in Incomplete(q) :
            /\ a.tasks[c].end = q.requested
            /\ a.tasks[c].start = Larger(q.first, q.starts[c])
      BY <1>2 DEF WindowsOfTasks
    <2>4. \A c \in Incomplete(q) :
            /\ Larger(q.first, q.starts[c]) # Bad
            /\ Larger(q.first, q.starts[c]) <= q.requested <=> q.starts[c] <= q.requested
      <3> SUFFICES ASSUME NEW c \in Incomplete(q)
                   PROVE  /\ Larger(q.first, q.starts[c]) # Bad
                          /\ Larger(q.first, q.starts[c]) <= q.requested
                               <=> q.starts[c] <= q.requested
        OBVIOUS
      <3>1. q.starts[c] \in Int
        BY DEF ReplanQuestion, Incomplete
      <3>2. QED
        BY <1>1, <3>1 DEF Larger, Bad
    <2>5. q.requested # Bad /\ q.requested <= q.requested
      BY <1>1 DEF Bad
    <2>6. \A c \in Incomplete(q) : MilestoneOf[c] \in DOMAIN a.mils =>
            a.tasks[c].end <= a.mils[MilestoneOf[c]].end
      BY <2>1, <2>3, <2>5
    <2>7. QED
      BY <1>5, <2>1, <2>2, <2>3, <2>4, <2>5, <2>6 DEF ValidUpdates
  <1>8. ValidReplan(q, a) <=>
          /\ \A c \in Incomplete(q) : q.starts[c] <= q.requested
          /\ q.kind = "deadline_replan" => q.current < q.requested
    BY <1>1, <1>5, <1>6, <1>7 DEF ValidReplan
  <1>9. QED
    BY <1>4, <1>8 DEF a

\* Which mock replans pass validate_replan_payload as plans and which, for a deadline,
\* as answers that ask for time: nothing else about the question matters, in
\* particular not how many days or tasks there are (mock.py:141).
THEOREM MockReplanPassesWhenFree ==
    ASSUME RepliesAssumption, NEW q, ReplanQuestion(q)
    PROVE  /\ ValidReplan(q, MockReplan(q)) <=>
                /\ Incomplete(q) # {} /\ Free(q) # {} /\ Free(q) = Window(q)
                /\ \A c \in Incomplete(q) : q.starts[c] <= q.requested
                /\ q.kind = "deadline_replan" => q.current < q.requested
           /\ AsksForTime(q, MockReplan(q)) <=>
                q.kind = "deadline_replan" /\ Incomplete(q) # {} /\ Free(q) = {}
  <1> DEFINE a == MockReplan(q)
             sug == SuggestedEnd(q, a)
  <1>1. ASSUME sug \in Int, sug <= q.requested PROVE ~AsksForTime(q, a)
    BY <1>1 DEF AsksForTime, Adjustment, ReplanQuestion
  <1>2. CASE Incomplete(q) = {}
    <2>1. a.rows = {} /\ ~a.says
      BY <1>2 DEF MockReplan
    <2>2. ~ValidReplan(q, a) /\ sug = q.requested
      BY <2>1, MockWithoutRows
    <2>3. ~AsksForTime(q, a)
      BY <1>1, <2>2 DEF ReplanQuestion
    <2>4. QED
      BY <1>2, <2>2, <2>3
  <1>3. CASE Incomplete(q) # {} /\ Free(q) = {}
    <2>1. a.rows = {} /\ a.says /\ a.end = NoDate
      <3>1. CASE q.first > q.requested
        BY <1>3, <3>1 DEF MockReplan
      <3>2. CASE ~(q.first > q.requested)
        <4>1. Window(q) # {}
          BY <3>2 DEF Window, ReplanQuestion
        <4>2. MockRows(q) = {}
          BY <1>3 DEF MockRows
        <4>3. QED
          BY <1>3, <3>2, <4>1, <4>2 DEF MockReplan
      <3>3. QED
        BY <3>1, <3>2
    <2>2. ~ValidReplan(q, a) /\ sug = q.requested + 1
      BY <2>1, MockWithoutRows
    <2>3. AsksForTime(q, a) <=> q.kind = "deadline_replan"
      <3>1. MetaParses(a)
        BY <2>1 DEF MetaParses, RowDays, Bad, NoDate
      <3>2. LaterThanCurrent(q, a)
        BY <2>1 DEF LaterThanCurrent, AsksVaguely
      <3>3. Adjustment(q, a) = "longer"
        BY <2>2 DEF Adjustment, ReplanQuestion
      <3> HIDE DEF a
      <3>4. QED
        BY <3>1, <3>2, <3>3 DEF AsksForTime
    <2>4. QED
      BY <1>3, <2>2, <2>3
  <1>4. CASE Incomplete(q) # {} /\ Free(q) # {}
    <2>1. sug \in Int /\ sug <= q.requested
      <3>1. sug \in Free(q)
        BY <1>4, MockWithRows
      <3> HIDE DEF sug
      <3>2. sug \in q.first..q.requested
        BY <3>1 DEF Free, Window
      <3>3. QED
        BY <3>2 DEF ReplanQuestion
    <2>2. ~AsksForTime(q, a)
      BY <1>1, <2>1
    <2>3. CASE Free(q) = Window(q)
      BY <1>4, <2>2, <2>3, FreeWindowPasses
    <2>4. CASE Free(q) # Window(q)
      BY <1>4, <2>2, <2>4, BusyDayFails
    <2>5. QED
      BY <2>3, <2>4
  <1>5. QED
    BY <1>2, <1>3, <1>4

=============================================================================
