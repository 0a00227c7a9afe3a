--------------------------- MODULE AnswersProofs ---------------------------
(***************************************************************************)
(* What Answers keeps to whatever is asked and whatever the LLM answers.   *)
(***************************************************************************)
EXTENDS Answers, MockLlmProofs, ProgressProofs

(***************************************************************************)
(* Rows and answers.                                                       *)
(***************************************************************************)

\* One row a day is a function from days to codes, written as rows.
LEMMA OneADayIsOneEach ==
    ASSUME NEW S, NEW C, NEW first, NEW last, OneADay(S, first, last),
           \A r \in S : r.code \in C /\ r = [day |-> r.day, code |-> r.code]
    PROVE  S \in Contract!OneEach(first, last, C)
  <1> DEFINE s == [d \in first..last |-> (CHOOSE r \in S : r.day = d).code]
             T == {[day |-> d, code |-> s[d]] : d \in first..last}
  <1>1. \A d \in first..last : \E r \in S : r.day = d /\ \A t \in S : t.day = d => t = r
    <2> SUFFICES ASSUME NEW d \in first..last
                 PROVE  \E r \in S : r.day = d /\ \A t \in S : t.day = d => t = r
      OBVIOUS
    <2>1. PICK r \in S : {t \in S : t.day = d} = {r}
      BY DEF OneADay
    <2>2. QED
      BY <2>1
  <1>2. \A r \in S : r.day \in first..last /\ s[r.day] = r.code
    <2> SUFFICES ASSUME NEW r \in S PROVE r.day \in first..last /\ s[r.day] = r.code
      OBVIOUS
    <2>1. r.day \in first..last
      BY DEF OneADay
    <2>2. (CHOOSE t \in S : t.day = r.day) = r
      BY <1>1, <2>1
    <2>3. QED
      BY <2>1, <2>2
  <1>3. s \in [first..last -> C]
    <2>1. \A d \in first..last : s[d] \in C
      BY <1>1, <1>2
    <2>2. QED
      BY <2>1
  <1>4. S = T
    <2>1. \A r \in S : r \in T
      <3> SUFFICES ASSUME NEW r \in S PROVE r \in T
        OBVIOUS
      <3>1. r.day \in first..last /\ r = [day |-> r.day, code |-> s[r.day]]
        BY <1>2
      <3> HIDE DEF s
      <3>2. QED
        BY <3>1
    <2>2. \A d \in first..last : [day |-> d, code |-> s[d]] \in S
      BY <1>1, <1>2
    <2>3. QED
      BY <2>1, <2>2
  <1>5. QED
    <2> HIDE DEF s
    <2>1. \E f \in [first..last -> C] : S = {[day |-> d, code |-> f[d]] : d \in first..last}
      BY <1>3, <1>4
    <2>2. QED
      BY <2>1, Zenon DEF Contract!OneEach

\* Answers to replans, the mock's included, have days and dates that are numbers.
Sound(a) ==
    /\ \A r \in a.rows : r.day \in Int /\ r = [day |-> r.day, code |-> r.code]
    /\ a.end \in Int
    /\ a.rows = {} \/ Max(RowDays(a)) \in Int
    /\ \A m \in DOMAIN a.mils : a.mils[m].start \in Int /\ a.mils[m].end \in Int

LEMMA MockReplanIsSound ==
    ASSUME NEW q, q.first \in Nat, q.requested \in Nat
    PROVE  Sound(MockReplan(q))
  <1> DEFINE a == MockReplan(q)
  <1>1. a.rows = {} \/ a.rows = MockRows(q)
    BY DEF MockReplan
  <1>2. \A r \in a.rows : r.day \in Free(q) /\ r = [day |-> r.day, code |-> r.code]
    BY <1>1 DEF MockRows
  <1>3. \A d \in Free(q) : d \in Nat /\ d <= q.requested
    BY DEF Free, Window
  <1>4. a.rows = {} \/ Max(RowDays(a)) \in Int
    <2> SUFFICES ASSUME a.rows # {} PROVE Max(RowDays(a)) \in Int
      OBVIOUS
    <2>1. RowDays(a) # {} /\ RowDays(a) \in SUBSET Nat /\ \A d \in RowDays(a) : d <= q.requested
      BY <1>2, <1>3 DEF RowDays
    <2>2. QED
      BY <2>1, MaxExists
  <1>5. a.end \in Int
    BY DEF MockReplan, NoDate
  <1>6. \A m \in DOMAIN a.mils : a.mils[m].start \in Int /\ a.mils[m].end \in Int
    BY DEF MockReplan, NoUpdates, NoDate
  <1>7. QED
    BY <1>2, <1>3, <1>4, <1>5, <1>6 DEF Sound

LEMMA ReplansAreSound ==
    ASSUME ask \in Questions, IsReplan, NEW a \in Answer
    PROVE  Sound(a)
  <1>1. CASE mode = "deepseek"
    <2>1. a \in ReplanReplies
      BY <1>1 DEF Answer
    <2>2. QED
      BY <2>1, AnswersAssumption DEF Sound, ReplyRows
  <1>2. CASE mode # "deepseek"
    <2>1. a = MockReplan(ask)
      BY <1>2 DEF Answer
    <2>2. ask.first \in Nat /\ ask.requested \in Nat
      BY AnswersAssumption
    <2>3. QED
      BY <2>1, <2>2, MockReplanIsSound
  <1>3. QED
    BY <1>1, <1>2

\* Answers to wbs_generate have rows of days and codes.
LEMMA PlansAreTyped ==
    ASSUME ask \in Questions, ~IsReplan, NEW a \in Answer
    PROVE  /\ a.rows \subseteq ReplyRows /\ a.says \in BOOLEAN
           /\ mode # "deepseek" => ~a.says
  <1>1. CASE mode = "deepseek"
    <2>1. a \in PlanReplies
      BY <1>1 DEF Answer
    <2>2. QED
      BY <1>1, <2>1, AnswersAssumption
  <1>2. CASE mode # "deepseek"
    <2>1. a = MockPlan(ask)
      BY <1>2 DEF Answer
    <2>2. ask.kind = "wbs_generate" /\ ask.first \in Nat /\ ask.requested \in Nat
      BY AnswersAssumption DEF IsReplan
    <2>3. ask.first <= ask.requested
      BY <2>2, AnswersAssumption
    <2>4. \A r \in a.rows : \E i \in Parts(ask) :
            \E d \in Part(ask, i).start..Part(ask, i).end : r = [day |-> d, code |-> i]
      BY <2>1 DEF MockPlan
    <2>5. \A i \in Parts(ask) : /\ Part(ask, i).start \in Int /\ Part(ask, i).end \in Int
                                /\ i \in 1..3
      BY <2>2, <2>3, PartsCover DEF Parts
    <2>6. a.rows \subseteq ReplyRows
      BY <2>4, <2>5, AnswersAssumption DEF ReplyRows
    <2>7. a.says = FALSE
      BY <2>1 DEF MockPlan
    <2>8. QED
      BY <2>6, <2>7
  <1>3. QED
    BY <1>1, <1>2

LEMMA EndIsNumber ==
    ASSUME NEW q, q.requested \in Nat, NEW a, Sound(a)
    PROVE  SuggestedEnd(q, a) \in Int
  BY DEF Sound, SuggestedEnd

-----------------------------------------------------------------------------
(***************************************************************************)
(* The invariant.  A question without an answer has made nothing yet, and  *)
(* a mock question has no failed calls: its first answer is its last.      *)
(***************************************************************************)
Fresh ==
    ~over => /\ draft = Contract!NoDraft
             /\ mode = "mock" => calls = 0 /\ logs = <<>>

IInv == TypeOK /\ Fresh /\ MockPlansPass /\ MockReplansPass

LEMMA Question ==
    ASSUME ask \in Questions
    PROVE  /\ ask.kind \in {"wbs_generate", "deadline_replan", "sunday_replan"}
           /\ ask.first \in Nat /\ ask.current \in Nat /\ ask.requested \in Nat
           /\ ask.kind = "wbs_generate" => ask.first <= ask.requested
           /\ IsReplan <=> ask.kind # "wbs_generate"
  BY AnswersAssumption DEF IsReplan

\* The mock's answer to a replan passes, as a plan or as one that asks for time, under
\* the condition of MockReplansPass.
LEMMA MockAnswer ==
    ASSUME ask \in Questions, IsReplan
    PROVE  ValidReplan(ask, MockReplan(ask)) \/ AsksForTime(ask, MockReplan(ask)) <=>
             /\ Incomplete(ask) # {}
             /\ IF Free(ask) = {} THEN ask.kind = "deadline_replan"
                ELSE /\ Free(ask) = Window(ask)
                     /\ \A c \in Incomplete(ask) : ask.starts[c] <= ask.requested
                     /\ ask.kind = "deadline_replan" => ask.current < ask.requested
  <1>1. ReplanQuestion(ask)
    BY AnswersAssumption DEF ReplanQuestion
  <1> DEFINE a == MockReplan(ask)
  <1>2. /\ ValidReplan(ask, a) <=>
             /\ Incomplete(ask) # {} /\ Free(ask) # {} /\ Free(ask) = Window(ask)
             /\ \A c \in Incomplete(ask) : ask.starts[c] <= ask.requested
             /\ ask.kind = "deadline_replan" => ask.current < ask.requested
        /\ AsksForTime(ask, a) <=>
             ask.kind = "deadline_replan" /\ Incomplete(ask) # {} /\ Free(ask) = {}
    BY <1>1, RepliesAssumption, MockReplanPassesWhenFree
  <1> HIDE DEF a
  <1>3. QED
    BY <1>2 DEF a

\* It has no date that cannot be parsed.
LEMMA MockAnswerIsStored ==
    ASSUME ask \in Questions
    PROVE  Stored(MockReplan(ask))
  <1> DEFINE a == MockReplan(ask)
  <1>1. /\ ask.first \in Nat /\ ask.first # Bad /\ ask.requested \in Nat
        /\ \A c \in Tasks : ask.starts[c] \in Int
    BY AnswersAssumption
  <1>2. CASE Incomplete(ask) = {} \/ ask.first > ask.requested
    <2>1. a.tasks = NoUpdates /\ a.mils = NoUpdates
      BY <1>2 DEF MockReplan
    <2>2. QED
      BY <2>1 DEF Stored, BadMilestones, BadTasks, NoUpdates
  <1>3. CASE ~(Incomplete(ask) = {} \/ ask.first > ask.requested)
    <2>1. /\ a.tasks = WindowsOfTasks(ask)
          /\ a.mils \in {NoUpdates,
                [m \in OpenMilestones(ask) |-> [start |-> NoDate, end |-> ask.requested]]}
      BY <1>3 DEF MockReplan
    <2> HIDE DEF a
    <2>2. ask.requested # Bad
      BY <1>1, <1>3 DEF Bad
    <2>3. \A m \in DOMAIN a.mils : a.mils[m].start # Bad /\ a.mils[m].end # Bad
      BY <2>1, <2>2 DEF NoUpdates, NoDate, Bad
    <2>4. \A c \in DOMAIN a.tasks : a.tasks[c].start # Bad /\ a.tasks[c].end # Bad
      <3>1. \A c \in DOMAIN a.tasks : c \in Tasks /\ a.tasks[c].end = ask.requested
              /\ a.tasks[c].start = Larger(ask.first, ask.starts[c])
        BY <2>1 DEF WindowsOfTasks, Incomplete
      <3>2. \A c \in Tasks : Larger(ask.first, ask.starts[c]) # Bad
        BY <1>1 DEF Larger, Bad
      <3>3. QED
        BY <2>2, <3>1, <3>2
    <2>5. QED
      BY <2>3, <2>4 DEF Stored, BadMilestones, BadTasks, a
  <1>4. QED
    BY <1>2, <1>3

\* The mode and the question say which answer comes.
LEMMA MockReplanComes ==
    ASSUME ask \in Questions, IsReplan, mode = "mock", NEW a \in Answer
    PROVE  a = MockReplan(ask)
  BY DEF Answer

\* A question that a replan answers well has a log, and only such a one.
LEMMA MockPassed ==
    ASSUME ask \in Questions, IsReplan, NEW a \in Answer, ask' = ask, mode' = mode,
           ValidReplan(ask, a) \/ AsksForTime(ask, a), logs' # <<>>
    PROVE  MockReplansPass'
  <1> SUFFICES ASSUME mode = "mock" PROVE MockReplansPass'
    BY DEF MockReplansPass
  <1>1. ValidReplan(ask, MockReplan(ask)) \/ AsksForTime(ask, MockReplan(ask))
    BY MockReplanComes
  <1>2. QED
    BY <1>1, MockAnswer DEF MockReplansPass, IsReplan, Incomplete, Completed, PctOf, Free,
       Window

LEMMA InitInv == Init => IInv
  <1> SUFFICES ASSUME Init PROVE IInv
    OBVIOUS
  <1>1. rows \subseteq ReplyRows
    BY AnswersAssumption DEF Init
  <1>2. windows \in [Milestones -> [start : Int, end : Int]]
    <2>1. ask.current \in Int
      BY Question DEF Init
    <2>2. QED
      BY <2>1 DEF Init
  <1>3. TypeOK
    <2>1. draft \in [rows : SUBSET ReplyRows, sug : Int, confirmable : BOOLEAN]
      BY DEF Init, Contract!NoDraft
    <2>2. logs \in Seq({"failed", "succeeded"}) /\ Len(logs) <= calls /\ calls \in 0..MaxCalls
      BY DEF Init, MaxCalls
    <2>3. QED
      BY <1>1, <1>2, <2>1, <2>2 DEF Init, TypeOK
  <1>4. Fresh /\ MockPlansPass /\ MockReplansPass
    BY DEF Init, Fresh, MockPlansPass, MockReplansPass
  <1>5. QED
    BY <1>3, <1>4 DEF IInv

\* A call is counted and logged.
LEMMA CalledOnce ==
    ASSUME TypeOK, NEW s \in {"failed", "succeeded"}, Called(s)
    PROVE  /\ ask' \in Questions /\ mode' \in {"mock", "deepseek"} /\ calls' \in 0..MaxCalls
           /\ logs' \in Seq({"failed", "succeeded"}) /\ Len(logs') <= calls'
           /\ logs' # <<>>
  BY DEF TypeOK, Called, MaxCalls

LEMMA AnswerFailsInv == ASSUME IInv, AnswerFails PROVE IInv'
  <1> USE DEF IInv
  <1>1. Called("failed") /\ ~over /\ ~over' /\ mode' # "mock"
    BY DEF AnswerFails, Called, TypeOK
  <1>2. TypeOK'
    BY <1>1, CalledOnce DEF TypeOK, AnswerFails
  <1>3. Fresh' /\ MockPlansPass' /\ MockReplansPass'
    BY <1>1 DEF AnswerFails, Fresh, MockPlansPass, MockReplansPass
  <1>4. QED
    BY <1>2, <1>3

LEMMA MakePlanInv == ASSUME IInv, NEW a \in Answer, MakePlan(a) PROVE IInv'
  <1> USE DEF IInv
  <1>1. /\ Called("succeeded") /\ over' = TRUE /\ UNCHANGED <<ask, mode, rows, windows>>
        /\ draft' = [rows |-> a.rows, confirmable |-> ~a.says,
                     sug |-> IF a.says THEN ask.requested + 1 ELSE ask.requested]
    BY DEF MakePlan, Called
  <1>2. /\ a.rows \subseteq ReplyRows /\ ask.requested \in Int
        /\ a.says \in BOOLEAN /\ (mode = "mock" => ~a.says)
    BY PlansAreTyped, Question DEF MakePlan, TypeOK
  <1>3. draft' \in [rows : SUBSET ReplyRows, sug : Int, confirmable : BOOLEAN]
    BY <1>1, <1>2
  <1>4. TypeOK'
    BY <1>1, <1>3, CalledOnce DEF TypeOK
  <1>5. draft' # Contract!NoDraft
    <2>1. CASE a.says
      <3>1. draft'.sug = ask.requested + 1 /\ ask.requested \in Nat
        BY <1>1, <2>1, Question DEF TypeOK
      <3>2. draft'.sug # 0
        BY <3>1
      <3>3. QED
        BY <3>2 DEF Contract!NoDraft
    <2>2. CASE ~a.says
      <3>1. draft'.confirmable
        BY <1>1, <2>2
      <3>2. QED
        BY <3>1 DEF Contract!NoDraft
    <2>3. QED
      BY <2>1, <2>2
  <1>6. MockPlansPass' /\ Fresh' /\ MockReplansPass'
    <2>1. logs' # <<>> /\ ask'.kind = "wbs_generate"
      BY <1>1, CalledOnce DEF MakePlan
    <2>2. MockReplansPass'
      BY <2>1 DEF MockReplansPass, IsReplan
    <2>3. QED
      BY <1>1, <1>2, <1>5, <2>1, <2>2 DEF MockPlansPass, Fresh
  <1>7. QED
    BY <1>4, <1>6

LEMMA MakeDraftInv == ASSUME IInv, NEW a \in Answer, MakeDraft(a) PROVE IInv'
  <1> USE DEF IInv
  <1>1. /\ Called("succeeded") /\ over' = TRUE /\ UNCHANGED <<ask, mode, rows, windows>>
        /\ ask.kind = "deadline_replan" /\ ask \in Questions /\ IsReplan
        /\ ValidReplan(ask, a) \/ AsksForTime(ask, a)
    BY DEF MakeDraft, Called, IsReplan, TypeOK
  <1>2. Sound(a) /\ SuggestedEnd(ask, a) \in Int
    <2>1. Sound(a)
      BY <1>1, ReplansAreSound
    <2>2. QED
      BY <1>1, <2>1, Question, EndIsNumber
  <1> MockReplansPass'
    BY <1>1, CalledOnce, MockPassed
  <1>3. CASE /\ ValidReplan(ask, a)
             /\ draft' = [rows |-> a.rows, sug |-> SuggestedEnd(ask, a), confirmable |-> TRUE]
    <2>1. a.rows \subseteq ReplyRows
      <3>1. \A r \in a.rows : r.code \in Tasks
        BY <1>3 DEF ValidReplan, ValidRows, Incomplete
      <3>2. QED
        BY <1>2, <3>1, AnswersAssumption DEF Sound, ReplyRows
    <2>2. draft' \in [rows : SUBSET ReplyRows, sug : Int, confirmable : BOOLEAN]
      BY <1>2, <1>3, <2>1
    <2>3. draft' # Contract!NoDraft
      BY <1>3 DEF Contract!NoDraft
    <2>4. QED
      <3>1. TypeOK'
        BY <1>1, <2>2, CalledOnce DEF TypeOK
      <3>2. MockPlansPass' /\ Fresh'
        BY <1>1, <2>3, CalledOnce DEF MockPlansPass, Fresh
      <3>3. QED
        BY <3>1, <3>2
  <1>4. CASE /\ AsksForTime(ask, a)
             /\ draft' = [rows |-> rows, sug |-> SuggestedEnd(ask, a), confirmable |-> FALSE]
    <2>1. draft' \in [rows : SUBSET ReplyRows, sug : Int, confirmable : BOOLEAN]
      BY <1>2, <1>4 DEF TypeOK
    <2>2. draft' # Contract!NoDraft
      <3>1. SuggestedEnd(ask, a) > ask.requested
        BY <1>4 DEF AsksForTime, Adjustment
      <3>2. SuggestedEnd(ask, a) # 0
        BY <1>1, <1>2, <3>1, Question
      <3>3. QED
        BY <1>4, <3>2 DEF Contract!NoDraft
    <2>3. TypeOK'
      BY <1>1, <2>1, CalledOnce DEF TypeOK
    <2>4. MockPlansPass' /\ Fresh'
      BY <1>1, <2>2, CalledOnce DEF MockPlansPass, Fresh
    <2>5. QED
      BY <2>3, <2>4
  <1>5. QED
    BY <1>3, <1>4 DEF MakeDraft

\* On a Sunday only rows and windows change.
LEMMA SundayInv ==
    ASSUME IInv, ask.kind = "sunday_replan", Called("succeeded"), over' = TRUE,
           NEW a \in Answer, ValidReplan(ask, a),
           rows' \subseteq ReplyRows, draft' = draft,
           windows' \in [Milestones -> [start : Int, end : Int]]
    PROVE  IInv'
  <1> USE DEF IInv
  <1>1. TypeOK'
    BY CalledOnce DEF TypeOK
  <1>2. MockPlansPass' /\ Fresh'
    BY DEF Called, MockPlansPass, Fresh
  <1>3. MockReplansPass'
    <2>1. ask \in Questions /\ IsReplan /\ ask' = ask /\ mode' = mode /\ logs' # <<>>
      BY CalledOnce DEF Called, TypeOK, IsReplan
    <2>2. QED
      BY <2>1, MockPassed
  <1>4. QED
    BY <1>1, <1>2, <1>3

LEMMA UpdatedIsWindow ==
    ASSUME NEW w \in [start : Int, end : Int], NEW u, u.start \in Int, u.end \in Int
    PROVE  Updated(w, u) \in [start : Int, end : Int]
  BY DEF Updated

LEMMA RewritePlanInv == ASSUME IInv, NEW a \in Answer, RewritePlan(a) PROVE IInv'
  <1> USE DEF IInv
  <1>1. /\ ask.kind = "sunday_replan" /\ ValidReplan(ask, a)
        /\ Called("succeeded") /\ over' = TRUE /\ rows' = a.rows /\ draft' = draft
    BY DEF RewritePlan
  <1>2. Sound(a)
    BY <1>1, ReplansAreSound DEF IsReplan, TypeOK
  <1>3. rows' \subseteq ReplyRows
    <2>1. \A r \in a.rows : r.code \in Tasks
      BY <1>1 DEF ValidReplan, ValidRows, Incomplete
    <2>2. QED
      BY <1>1, <1>2, <2>1, AnswersAssumption DEF Sound, ReplyRows
  <1>4. windows' \in [Milestones -> [start : Int, end : Int]]
    <2>1. \A m \in Milestones :
            (IF m \in DOMAIN a.mils THEN Updated(windows[m], a.mils[m]) ELSE windows[m])
              \in [start : Int, end : Int]
      BY <1>2, UpdatedIsWindow DEF Sound, TypeOK
    <2>2. QED
      BY <2>1 DEF RewritePlan
  <1>5. QED
    BY <1>1, <1>3, <1>4, SundayInv

LEMMA RewriteBreaksInv == ASSUME IInv, NEW a \in Answer, RewriteBreaks(a) PROVE IInv'
  <1> USE DEF IInv
  <1>1. /\ ask.kind = "sunday_replan" /\ Called("succeeded") /\ over' = TRUE
        /\ UNCHANGED <<rows, draft>> /\ ValidReplan(ask, a)
    BY DEF RewriteBreaks
  <1>2. Sound(a)
    BY <1>1, ReplansAreSound DEF IsReplan, TypeOK
  <1>3. PICK m \in BadMilestones(a), before \in SUBSET (DOMAIN a.mils \ BadMilestones(a)) :
          windows' = [n \in Milestones |->
              CASE n \in before -> Updated(windows[n], a.mils[n])
                [] n = m -> [windows[n] EXCEPT !.end = a.mils[n].end]
                [] OTHER -> windows[n]]
    BY DEF RewriteBreaks
  <1>4. \A n \in Milestones : windows'[n] \in [start : Int, end : Int]
    <2> SUFFICES ASSUME NEW n \in Milestones PROVE windows'[n] \in [start : Int, end : Int]
      OBVIOUS
    <2>1. windows[n] \in [start : Int, end : Int]
      BY DEF TypeOK
    <2>2. CASE n \in before
      BY <1>2, <1>3, <2>1, <2>2, UpdatedIsWindow DEF Sound
    <2>3. CASE n \notin before /\ n = m
      <3>1. a.mils[n].end \in Int
        BY <1>2, <2>3 DEF Sound, BadMilestones
      <3>2. windows'[n] = [windows[n] EXCEPT !.end = a.mils[n].end]
        BY <1>3, <2>3
      <3>3. QED
        BY <2>1, <3>1, <3>2
    <2>4. CASE n \notin before /\ n # m
      BY <1>3, <2>1, <2>4
    <2>5. QED
      BY <2>2, <2>3, <2>4
  <1>5. windows' \in [Milestones -> [start : Int, end : Int]]
    BY <1>3, <1>4
  <1>6. QED
    BY <1>1, <1>5, SundayInv DEF TypeOK

\* A question that comes to nothing leaves no draft, and in mock mode no log.
LEMMA DropsInv ==
    ASSUME IInv, ~over, Drops, ask' = ask, mode' = mode, calls' \in {calls, calls + 1},
           calls' \in 0..MaxCalls, ask.kind = "wbs_generate" => mode # "mock",
           mode = "mock" /\ IsReplan =>
             ~ (\/ ValidReplan(ask, MockReplan(ask))
                \/ AsksForTime(ask, MockReplan(ask)))
    PROVE  IInv'
  <1> USE DEF IInv
  <1>1. /\ over' = TRUE /\ UNCHANGED <<rows, windows, draft>>
        /\ logs' = IF ask.kind = "sunday_replan" THEN logs ELSE <<>>
    BY DEF Drops
  <1>2. logs' \in Seq({"failed", "succeeded"}) /\ Len(logs') <= calls'
    BY <1>1 DEF TypeOK
  <1>3. TypeOK'
    BY <1>1, <1>2 DEF TypeOK
  <1>4. MockPlansPass' /\ Fresh'
    BY <1>1 DEF MockPlansPass, Fresh
  <1>5. MockReplansPass'
    <2> SUFFICES ASSUME mode = "mock", IsReplan PROVE MockReplansPass'
      BY DEF MockReplansPass, IsReplan
    <2>1. logs' = <<>>
      BY <1>1 DEF Fresh
    <2>2. ask \in Questions
      BY DEF TypeOK
    <2>3. ~ (ValidReplan(ask, MockReplan(ask)) \/ AsksForTime(ask, MockReplan(ask)))
      OBVIOUS
    <2>4. QED
      BY <2>1, <2>2, <2>3, MockAnswer DEF MockReplansPass, IsReplan, Incomplete, Completed,
         PctOf, Free, Window
  <1>6. QED
    BY <1>3, <1>4, <1>5

\* A mock answer can be stored, so that it is another one that breaks.
LEMMA DraftBreaksInv == ASSUME IInv, NEW a \in Answer, DraftBreaks(a) PROVE IInv'
  <1>1. /\ ~over /\ Drops /\ ask' = ask /\ mode' = mode /\ calls' = calls + 1
        /\ ask.kind = "deadline_replan" /\ ~Stored(a) /\ ask \in Questions /\ IsReplan
    BY DEF DraftBreaks, IInv, TypeOK, IsReplan
  <1>2. calls' \in 0..MaxCalls
    BY <1>1 DEF DraftBreaks, IInv, TypeOK, MaxCalls
  <1>3. mode # "mock"
    BY <1>1, MockReplanComes, MockAnswerIsStored
  <1>4. QED
    BY <1>1, <1>2, <1>3, DropsInv

\* A mock plan is never refused.
LEMMA MockFailsInv == ASSUME IInv, NEW a \in Answer, MockFails(a) PROVE IInv'
  <1>1. /\ ~over /\ Drops /\ UNCHANGED <<ask, mode, calls>> /\ mode = "mock"
        /\ ask \in Questions
    BY DEF MockFails, IInv, TypeOK
  <1>2. ask.kind # "wbs_generate"
    <2> SUFFICES ASSUME ask.kind = "wbs_generate" PROVE FALSE
      OBVIOUS
    <2>1. ask \in Questions /\ ~IsReplan
      BY DEF IInv, TypeOK, IsReplan
    <2>2. a = MockPlan(ask)
      BY <1>1, <2>1 DEF Answer
    <2>3. ValidPlan(ask, a)
      BY <2>1, <2>2, Question, MockPlanIsValid
    <2>4. QED
      BY <2>1, <2>3 DEF MockFails
  <1>3. calls' \in 0..MaxCalls
    BY <1>1 DEF IInv, TypeOK
  <1>4. IsReplan => ~ (\/ ValidReplan(ask, MockReplan(ask))
                      \/ AsksForTime(ask, MockReplan(ask)))
    BY <1>1, MockReplanComes DEF MockFails
  <1>5. QED
    BY <1>1, <1>2, <1>3, <1>4, DropsInv

\* In mock mode one gives up only what need not be asked.
LEMMA GiveUpInv == ASSUME IInv, GiveUp PROVE IInv'
  <1>1. ~over /\ Drops /\ UNCHANGED <<ask, mode, calls>> /\ ask \in Questions
    BY DEF GiveUp, IInv, TypeOK
  <1>2. calls' \in 0..MaxCalls
    BY <1>1 DEF IInv, TypeOK
  <1>3. mode = "mock" => NothingToAsk
    BY <1>1 DEF GiveUp, IInv, Fresh, MaxCalls
  <1>4. ask.kind = "wbs_generate" => mode # "mock"
    BY <1>3 DEF NothingToAsk, IsReplan
  <1>5. mode = "mock" /\ IsReplan => ~ (\/ ValidReplan(ask, MockReplan(ask))
                                       \/ AsksForTime(ask, MockReplan(ask)))
    BY <1>1, <1>3, MockAnswer DEF NothingToAsk
  <1>6. QED
    BY <1>1, <1>2, <1>4, <1>5, DropsInv

LEMMA NextInv == IInv /\ [Next]_vars => IInv'
  <1> SUFFICES ASSUME IInv, [Next]_vars PROVE IInv'
    OBVIOUS
  <1>1. CASE UNCHANGED vars
    <2>1. TypeOK' /\ Fresh' /\ MockPlansPass'
      BY <1>1 DEF vars, IInv, TypeOK, Fresh, MockPlansPass
    <2>2. MockReplansPass'
      BY <1>1 DEF vars, IInv, MockReplansPass, IsReplan, Incomplete, Completed, PctOf, Free,
         Window
    <2>3. QED
      BY <2>1, <2>2 DEF IInv
  <1>2. CASE Next
    BY <1>2, AnswerFailsInv, GiveUpInv, MakePlanInv, MakeDraftInv, RewritePlanInv,
       RewriteBreaksInv, DraftBreaksInv, MockFailsInv DEF Next
  <1>3. QED
    BY <1>1, <1>2

LEMMA Invariance == Spec => []IInv
  BY InitInv, NextInv, PTL DEF Spec

\* Two calls at most, each with its log row, whatever is asked and answered.
THEOREM TypeCorrect == Spec => []TypeOK
  BY Invariance, PTL DEF IInv

\* In mock mode every goal gets its plan, for windows of every length.
THEOREM MockPlansAlwaysPass == Spec => []MockPlansPass
  BY Invariance, PTL DEF IInv

\* In mock mode a replan passes exactly when every day of its window is free and no
\* unfinished task starts after it, or when none is and it is for a deadline: on one
\* busy day the goal gets no new plan (mock.py:152).
THEOREM MockReplansPassWhenFree == Spec => []MockReplansPass
  BY Invariance, PTL DEF IInv

\* A task of fewer than 200 planned days stays among those a replan may plan
\* until all its days are done.
THEOREM UnfinishedStaysOpen == Spec => []UnfinishedCanBePlanned
  <1>1. IInv => UnfinishedCanBePlanned
    <2> SUFFICES ASSUME ask \in Questions, NEW c \in Tasks,
                        ask.worked[c].planned < 200,
                        ask.worked[c].done < ask.worked[c].planned
                 PROVE  c \in Incomplete(ask)
      BY DEF UnfinishedCanBePlanned, IInv, TypeOK
    <2> DEFINE n == ask.worked[c].planned
               d == ask.worked[c].done
    <2>1. n \in 1..199 /\ d \in Nat /\ d < n
      BY AnswersAssumption
    <2>2. PctOf(ask, c) = Pct(d, n)
      BY DEF PctOf
    <2> HIDE DEF n, d
    <2>3. PctOf(ask, c) \in Nat /\ PctOf(ask, c) < 100
      BY <2>1, <2>2, UnfinishedIsBelowFull
    <2>4. c \notin Completed(ask)
      BY <2>3 DEF Completed
    <2>5. QED
      BY <2>4 DEF Incomplete
  <1>2. QED
    BY <1>1, Invariance, PTL

-----------------------------------------------------------------------------
(***************************************************************************)
(* Answers implements AnswerContract.                                      *)
(***************************************************************************)

LEMMA InitContract == ASSUME Init PROVE Contract!Init
  BY DEF Init, Contract!Init

\* A question that is over keeps what was asked.
LEMMA ContractStep ==
    ASSUME ~over, over' = TRUE, ask' = ask,
           Contract!NewPlan \/ Contract!Shift \/ Contract!Hold \/ Contract!Rewrite
             \/ Contract!Refuse
    PROVE  Contract!Next
  BY DEF Contract!Next, IsReplan, Incomplete, Completed, PctOf

LEMMA MakePlanStep == ASSUME IInv, NEW a \in Answer, MakePlan(a) PROVE Contract!Next
  <1>1. /\ ~over /\ over' = TRUE /\ ask' = ask /\ rows' = rows
        /\ ask.kind = "wbs_generate" /\ ValidPlan(ask, a) /\ ~IsReplan
        /\ draft' = [rows |-> a.rows, confirmable |-> ~a.says,
                     sug |-> IF a.says THEN ask.requested + 1 ELSE ask.requested]
    BY DEF MakePlan, Called, IsReplan
  <1>2. a.rows \subseteq ReplyRows /\ a.says \in BOOLEAN /\ ask.requested \in Nat
    BY <1>1, PlansAreTyped, Question DEF IInv, TypeOK
  <1>3. a.rows \in Contract!OneEach(ask.first, ask.requested, Codes)
    <2>1. \A r \in a.rows : r.code \in Codes /\ r = [day |-> r.day, code |-> r.code]
      BY <1>2 DEF ReplyRows
    <2>2. OneADay(a.rows, ask.first, ask.requested)
      BY <1>1 DEF ValidPlan
    <2>3. QED
      BY <2>1, <2>2, OneADayIsOneEach
  <1>4. draft'.sug >= ask.requested /\ (draft'.confirmable <=> draft'.sug = ask.requested)
    <2>1. CASE a.says
      <3>1. draft'.sug = ask.requested + 1 /\ ~draft'.confirmable
        BY <1>1, <2>1
      <3>2. QED
        BY <1>2, <3>1
    <2>2. CASE ~a.says
      <3>1. draft'.sug = ask.requested /\ draft'.confirmable
        BY <1>1, <2>2
      <3>2. QED
        BY <1>2, <3>1
    <2>3. QED
      BY <2>1, <2>2
  <1>5. Contract!NewPlan
    BY <1>1, <1>3, <1>4 DEF Contract!NewPlan
  <1>6. QED
    BY <1>1, <1>5, ContractStep

\* Rows that pass are one unfinished task a day.
LEMMA RowsThatPass ==
    ASSUME ask \in Questions, IsReplan, NEW a \in Answer, ValidReplan(ask, a)
    PROVE  a.rows \in Contract!OneEach(ask.first, Cap(ask, a), Incomplete(ask))
  <1>1. Sound(a)
    BY ReplansAreSound
  <1>2. OneADay(a.rows, ask.first, Cap(ask, a))
    BY DEF ValidReplan, ValidRows
  <1>3. \A r \in a.rows : r.code \in Incomplete(ask) /\ r = [day |-> r.day, code |-> r.code]
    BY <1>1 DEF ValidReplan, ValidRows, Sound
  <1>4. QED
    BY <1>2, <1>3, OneADayIsOneEach

LEMMA MakeDraftStep == ASSUME IInv, NEW a \in Answer, MakeDraft(a) PROVE Contract!Next
  <1> DEFINE sug == SuggestedEnd(ask, a)
  <1>1. /\ ~over /\ over' = TRUE /\ ask' = ask /\ rows' = rows
        /\ ask.kind = "deadline_replan" /\ IsReplan /\ ask \in Questions
    BY DEF MakeDraft, Called, IsReplan, IInv, TypeOK
  <1>2. /\ sug \in Int
        /\ ask.first \in Nat /\ ask.current \in Nat /\ ask.requested \in Nat
    BY <1>1, ReplansAreSound, Question, EndIsNumber
  <1>3. CASE /\ ValidReplan(ask, a)
             /\ draft' = [rows |-> a.rows, sug |-> sug, confirmable |-> TRUE]
    <2>1. Cap(ask, a) = sug
      BY <1>1 DEF Cap
    <2>2. sug <= ask.requested
      BY <1>1, <1>2, <1>3 DEF ValidReplan, Adjustment
    <2>3. sug > ask.current
      <3>1. ~AsksVaguely(a)
        BY <1>2, <2>2 DEF SuggestedEnd
      <3>2. QED
        BY <1>1, <1>3, <3>1 DEF ValidReplan, LaterThanCurrent
    <2>4. sug \in ask.first..ask.requested
      BY <1>2, <1>3, <2>1, <2>2 DEF ValidReplan
    <2>5. a.rows \in Contract!OneEach(ask.first, sug, Incomplete(ask))
      BY <1>1, <1>3, <2>1, RowsThatPass
    <2>6. Contract!Shift
      <3> HIDE DEF sug
      <3>1. QED
        BY <1>1, <1>3, <2>3, <2>4, <2>5 DEF Contract!Shift
    <2>7. QED
      BY <1>1, <2>6, ContractStep
  <1>4. CASE /\ AsksForTime(ask, a)
             /\ draft' = [rows |-> rows, sug |-> sug, confirmable |-> FALSE]
    <2>1. sug > ask.requested
      BY <1>4 DEF AsksForTime, Adjustment
    <2>2. Contract!Hold
      <3> HIDE DEF sug
      <3>1. QED
        BY <1>1, <1>4, <2>1 DEF Contract!Hold
    <2>3. QED
      BY <1>1, <2>2, ContractStep
  <1>5. QED
    BY <1>3, <1>4 DEF MakeDraft

LEMMA RewritePlanStep == ASSUME IInv, NEW a \in Answer, RewritePlan(a) PROVE Contract!Next
  <1>1. /\ ~over /\ over' = TRUE /\ ask' = ask /\ rows' = a.rows /\ draft' = draft
        /\ ask.kind = "sunday_replan" /\ IsReplan /\ ask \in Questions /\ ValidReplan(ask, a)
    BY DEF RewritePlan, Called, IsReplan, IInv, TypeOK
  <1>2. a.rows \in Contract!OneEach(ask.first, ask.requested, Incomplete(ask))
    <2>1. Cap(ask, a) = ask.requested
      BY <1>1 DEF Cap
    <2>2. QED
      BY <1>1, <2>1, RowsThatPass
  <1>3. Contract!Rewrite
    BY <1>1, <1>2 DEF Contract!Rewrite
  <1>4. QED
    BY <1>1, <1>3, ContractStep

\* What comes to nothing leaves the rows and makes no draft.
LEMMA RefusedStep ==
    ASSUME ~over, over' = TRUE, ask' = ask, UNCHANGED <<rows, draft>>
    PROVE  Contract!Next
  BY ContractStep DEF Contract!Refuse

LEMMA StepContract ==
    ASSUME IInv, [Next]_vars
    PROVE  Contract!Next \/ UNCHANGED <<ask, over, rows, draft>>
  <1>1. CASE UNCHANGED vars
    BY <1>1 DEF vars
  <1>2. CASE AnswerFails
    BY <1>2 DEF AnswerFails, Called
  <1>3. CASE GiveUp
    BY <1>3, RefusedStep DEF GiveUp, Drops
  <1>4. ASSUME NEW a \in Answer, MakePlan(a) PROVE Contract!Next
    BY <1>4, MakePlanStep
  <1>5. ASSUME NEW a \in Answer, MakeDraft(a) PROVE Contract!Next
    BY <1>5, MakeDraftStep
  <1>6. ASSUME NEW a \in Answer, RewritePlan(a) PROVE Contract!Next
    BY <1>6, RewritePlanStep
  <1>7. ASSUME NEW a \in Answer, RewriteBreaks(a) \/ DraftBreaks(a) \/ MockFails(a)
        PROVE  Contract!Next
    <2>1. ~over /\ over' = TRUE /\ ask' = ask /\ UNCHANGED <<rows, draft>>
      BY <1>7 DEF RewriteBreaks, DraftBreaks, MockFails, Called, Drops
    <2>2. QED
      BY <2>1, RefusedStep
  <1>8. QED
    BY <1>1, <1>2, <1>3, <1>4, <1>5, <1>6, <1>7 DEF Next

\* Whatever the LLM answers, in either mode, and however often it fails: what is
\* stored is one unfinished task a day up to the end that was asked or suggested,
\* the active plan once more, or nothing.
THEOREM ContractKept == Spec => KeepsContract
  <1>1. IInv /\ [Next]_vars => [Contract!Next]_(Contract!vars)
    BY StepContract DEF Contract!vars, IsReplan, Incomplete, Completed, PctOf
  <1>2. Init => Contract!Init
    BY InitContract
  <1>3. QED
    BY <1>1, <1>2, Invariance, PTL DEF Spec, KeepsContract, Contract!Spec

=============================================================================
