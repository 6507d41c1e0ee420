------------------------- MODULE SlotGenerationProofs -------------------------
(***************************************************************************)
(* What holds of SlotGeneration for any jobs, templates, rows, windows and *)
(* lengths of a day.  GenerationInv is inductive and says what the loops   *)
(* serve; where the zones of a window allow it, that is what was planned.  *)
(***************************************************************************)
EXTENDS SlotGeneration, TLAPS

-----------------------------------------------------------------------------
(* Facts about one step.                                                   *)

\* The fields of a job and of a row.
LEMMA JobFields ==
    ASSUME TypeOK, NEW j \in Job
    PROVE  /\ job[j].pc \in {"new", "filling"} \cup Answer
           /\ job[j].template \in Template \cup {NoTemplate}
           /\ job[j].row \in Row \cup {NoRow}
           /\ job[j].window \in Window \cup {NoWindow}
           /\ job[j].day \in Nat
           /\ job[j].time \in Nat
           /\ job[j].made \in SUBSET Times
BY DEF TypeOK, JobState

LEMMA RowFields ==
    ASSUME NEW row \in Row
    PROVE  /\ row.start \in 0 .. DayLen - 1
           /\ row.end \in 0 .. DayLen - 1
           /\ row.dur \in Int
           /\ row.first \in Nat
           /\ row.last \in Nat
           /\ row # NoRow
BY GenerationAssumption DEF GenerationAssumption, TemplateRow

\* The first day of a job is a date.
LEMMA FirstDayType ==
    ASSUME NEW row \in Row, NEW w \in Window
    PROVE  FirstDay(row, w) \in Nat
<1>1. w.from.date \in Nat
  BY GenerationAssumption DEF GenerationAssumption, Request, Moment
<1>2. row.first \in Nat
  BY RowFields
<1> QED BY <1>1, <1>2 DEF FirstDay, GenFrom, TplStart

\* What SlotFits says of the slot that is inserted next.
LEMMA NextTimesFit ==
    ASSUME TypeOK, LoopInv, NEW j \in Job, SlotFits(j)
    PROVE  /\ NextTimes(j) \in Times
           /\ NextTimes(j).day = job[j].day
           /\ NextTimes(j).start = job[j].time
           /\ NextTimes(j).end = job[j].time + job[j].row.dur
           /\ job[j].row.dur \in Int /\ job[j].row.dur > 0
           /\ job[j].time + job[j].row.dur < DayLen
<1>1. job[j].pc = "filling" /\ job[j].time + job[j].row.dur <= job[j].row.end
  BY DEF SlotFits, DaysLeft
<1>2. job[j].row \in Row /\ job[j].row.dur > 0
  BY <1>1, JobFields DEF LoopInv
<1>3. job[j].row.end \in 0 .. DayLen - 1 /\ job[j].row.dur \in Int
  BY <1>2, RowFields
<1>4. job[j].day \in Nat /\ job[j].time \in Nat /\ DayLen \in Nat
  BY JobFields, GenerationAssumption DEF GenerationAssumption
<1> QED BY <1>1, <1>2, <1>3, <1>4 DEF NextTimes, Times

\* A step about one job leaves the others as they were.
LEMMA RollBackMoves ==
    ASSUME TypeOK, NEW j \in Job, RollBack(j)
    PROVE  /\ job' \in [Job -> JobState]
           /\ \A i \in Job : i # j => job'[i] = job[i]
           /\ job'[j].pc = "rolled_back" /\ job'[j].made = {}
           /\ job'[j].template = job[j].template /\ job'[j].row = job[j].row
           /\ job'[j].window = job[j].window
<1>1. job[j] \in JobState
  BY DEF TypeOK
<1>2. [job[j] EXCEPT !.pc = "rolled_back", !.made = {}] \in JobState
  BY <1>1 DEF JobState, Answer
<1> QED BY <1>1, <1>2 DEF RollBack, TypeOK, JobState

LEMMA InsertMoves ==
    ASSUME TypeOK, LoopInv, NEW j \in Job, InsertSlot(j)
    PROVE  /\ job' \in [Job -> JobState]
           /\ UNCHANGED <<templates, minted, slots>>
           /\ \A i \in Job : i # j => job'[i] = job[i]
           /\ \/ /\ job'[j].pc = "rolled_back" /\ job'[j].made = {}
              \/ /\ SlotFits(j)
                 /\ templates[job[j].template] # NoRow
                 /\ job'[j].pc = job[j].pc /\ job'[j].day = job[j].day
                 /\ job'[j].window = job[j].window
                 /\ job'[j].row = job[j].row /\ job'[j].template = job[j].template
                 /\ job'[j].time = job[j].time + job[j].row.dur
                 /\ job'[j].made = job[j].made \cup {NextTimes(j)}
<1>1. CASE RollBack(j)
  BY <1>1, RollBackMoves DEF InsertSlot
<1>2. CASE /\ templates[job[j].template] # NoRow
           /\ job' = [job EXCEPT ![j].made = @ \cup {NextTimes(j)},
                                 ![j].time = @ + job[j].row.dur]
  <2>1. job[j] \in JobState /\ SlotFits(j)
    BY DEF TypeOK, InsertSlot
  <2>2. NextTimes(j) \in Times /\ job[j].time + job[j].row.dur \in Nat
    BY <2>1, NextTimesFit, JobFields
  <2>3. [job[j] EXCEPT !.made = @ \cup {NextTimes(j)},
                       !.time = @ + job[j].row.dur] \in JobState
    BY <2>1, <2>2 DEF JobState
  <2> QED BY <1>2, <2>1, <2>3 DEF InsertSlot, TypeOK, JobState
<1> QED BY <1>1, <1>2 DEF InsertSlot

LEMMA NextDayMoves ==
    ASSUME TypeOK, LoopInv, NEW j \in Job, NextDay(j)
    PROVE  /\ job' \in [Job -> JobState]
           /\ UNCHANGED <<templates, minted, slots>>
           /\ \A i \in Job : i # j => job'[i] = job[i]
           /\ job'[j].pc = job[j].pc /\ job'[j].day = job[j].day + 1
           /\ job'[j].time = job[j].row.start
           /\ job'[j].window = job[j].window /\ job'[j].row = job[j].row
           /\ job'[j].template = job[j].template /\ job'[j].made = job[j].made
<1>1. job[j] \in JobState /\ job[j].pc = "filling"
  BY DEF TypeOK, NextDay, DaysLeft
<1>2. job[j].row \in Row
  BY <1>1, JobFields DEF LoopInv
<1>3. job[j].row.start \in Nat /\ job[j].day + 1 \in Nat
  BY <1>2, RowFields, JobFields
<1>4. [job[j] EXCEPT !.day = @ + 1, !.time = job[j].row.start] \in JobState
  BY <1>1, <1>3 DEF JobState
<1> QED BY <1>1, <1>4 DEF NextDay, TypeOK, JobState

\* The database has committed, and the job has been told so or not.
Commits(j) == Commit(j) \/ CommitReplyLost(j)

USE DEF Committed

LEMMA CommitMoves ==
    ASSUME TypeOK, NEW j \in Job, Commits(j)
    PROVE  /\ job' \in [Job -> JobState]
           /\ UNCHANGED <<templates, minted>>
           /\ slots' = slots \cup {Published(j, x) : x \in job[j].made}
           /\ \A i \in Job : i # j => job'[i] = job[i]
           /\ job[j].pc = "filling" /\ ~DaysLeft(j)
           /\ job'[j].pc \in Committed /\ job'[j].made = {}
           /\ job'[j].pc = "reply_lost" => j \in Faulty
           /\ job'[j].template = job[j].template /\ job'[j].row = job[j].row
           /\ job'[j].window = job[j].window
<1>1. job[j] \in JobState
  BY DEF TypeOK
<1>2. PICK answer \in Committed :
          Committing(j, answer) /\ (answer = "reply_lost" => j \in Faulty)
  BY DEF Commits, Commit, CommitReplyLost
<1>3. [job[j] EXCEPT !.pc = answer, !.made = {}] \in JobState
  BY <1>1 DEF JobState, Answer
<1> QED BY <1>1, <1>2, <1>3 DEF Committing, TypeOK, JobState

LEMMA GenerateMoves ==
    ASSUME TypeOK, NEW j \in Job, NEW t \in minted \cup {NoTemplate}, NEW w \in Window,
           Generate(j, t, w)
    PROVE  /\ job' \in [Job -> JobState]
           /\ UNCHANGED <<templates, minted, slots>>
           /\ \A i \in Job : i # j => job'[i] = job[i]
           /\ job[j].pc = "new" /\ job'[j].made = {}
           /\ job'[j].pc \in {"filling", "refused", "panicked"}
           /\ job'[j].template = t /\ job'[j].row = TemplateRead(t) /\ job'[j].window = w
           /\ job'[j].pc = "filling" =>
                 /\ t \in Template /\ TemplateRead(t) \in Row
                 /\ w.form = "rfc3339" /\ ~Before(w.to, w.from)
                 /\ Usable(TemplateRead(t), w) /\ TemplateRead(t).dur > 0
                 /\ job'[j].day = FirstDay(TemplateRead(t), w)
                 /\ job'[j].time = TemplateRead(t).start
           /\ job'[j].pc # "filling" =>
                 \/ w.form # "rfc3339" \/ Before(w.to, w.from)
                 \/ ~Usable(TemplateRead(t), w)
<1> DEFINE row == TemplateRead(t)
           After(pc, day, time) ==
               [pc |-> pc, template |-> t, row |-> row, window |-> w,
                day |-> day, time |-> time, made |-> {}]
<1>1. /\ t \in Template \cup {NoTemplate} /\ row \in Row \cup {NoRow}
      /\ row # NoRow => t \in Template
  BY DEF TypeOK, TemplateRead
<1>2. /\ job[j].pc = "new" /\ job \in [Job -> JobState]
      /\ UNCHANGED <<templates, minted, slots>>
  BY DEF Generate, TypeOK
<1> DEFINE parsed == w.form = "rfc3339" /\ ~Before(w.to, w.from)
<1>3. CASE /\ parsed /\ Usable(row, w)
           /\ job' = [job EXCEPT ![j] = After("filling", FirstDay(row, w), row.start)]
  <2>1. row \in Row /\ row.dur > 0
    BY <1>1, <1>3 DEF Usable
  <2>2. FirstDay(row, w) \in Nat /\ row.start \in Nat
    BY <2>1, FirstDayType, RowFields
  <2>3. After("filling", FirstDay(row, w), row.start) \in JobState
    BY <1>1, <2>1, <2>2 DEF JobState
  <2>4. t \in Template
    BY <1>1, <1>3 DEF Usable
  <2>5. job'[j] = After("filling", FirstDay(row, w), row.start)
    BY <1>2, <1>3
  <2>6. job' \in [Job -> JobState] /\ \A i \in Job : i # j => job'[i] = job[i]
    BY <1>2, <1>3, <2>3
  <2> QED BY <1>2, <1>3, <2>1, <2>4, <2>5, <2>6
<1>4. ASSUME NEW pc \in {"panicked", "refused"}, ~parsed \/ ~Usable(row, w),
             job' = [job EXCEPT ![j] = After(pc, 0, 0)]
      PROVE  /\ job' \in [Job -> JobState]
             /\ \A i \in Job : i # j => job'[i] = job[i]
             /\ job'[j] = After(pc, 0, 0)
  <2>1. After(pc, 0, 0) \in JobState
    BY <1>1, <1>4 DEF JobState, Answer
  <2> HIDE DEF After
  <2> QED BY <1>2, <1>4, <2>1
<1>5. t = NoTemplate => ~Usable(row, w)
  BY DEF TemplateRead, Usable
<1>6. \/ /\ parsed /\ Usable(row, w)
         /\ job' = [job EXCEPT ![j] = After("filling", FirstDay(row, w), row.start)]
      \/ /\ ~parsed \/ ~Usable(row, w)
         /\ \E pc \in {"panicked", "refused"} : job' = [job EXCEPT ![j] = After(pc, 0, 0)]
  BY <1>5 DEF Generate
<1>7. CASE \E pc \in {"panicked", "refused"} :
              (~parsed \/ ~Usable(row, w)) /\ job' = [job EXCEPT ![j] = After(pc, 0, 0)]
  <2>1. PICK pc \in {"panicked", "refused"} :
            (~parsed \/ ~Usable(row, w)) /\ job' = [job EXCEPT ![j] = After(pc, 0, 0)]
    BY <1>7
  <2>2. job'[j] = After(pc, 0, 0)
    BY <1>4, <2>1
  <2> QED BY <1>2, <1>4, <2>1, <2>2
<1> QED BY <1>3, <1>6, <1>7

\* What the three template operations do to the tables.
LEMMA TemplateWritten ==
    ASSUME TypeOK, NEW t \in Template, NEW row \in Row,
           CreateTemplate(t, row) \/ UpdateTemplate(t, row)
    PROVE  /\ templates' \in [Template -> Row \cup {NoRow}] /\ minted' \subseteq Template
           /\ \A u \in Template : templates[u] # NoRow => templates'[u] # NoRow
           /\ UNCHANGED <<slots, job>>
BY RowFields DEF TypeOK, CreateTemplate, UpdateTemplate

\* A slot after ON DELETE SET NULL.
Cleared(s, t) == IF s.template = t THEN [s EXCEPT !.template = NoTemplate] ELSE s

LEMMA ClearedFields ==
    ASSUME NEW s \in SlotRow, NEW t \in Template
    PROVE  /\ Cleared(s, t) \in SlotRow
           /\ Cleared(s, t).job = s.job /\ Cleared(s, t).day = s.day
           /\ Cleared(s, t).start = s.start /\ Cleared(s, t).end = s.end
           /\ Cleared(s, t).template # t
           /\ Cleared(s, t).template \in {s.template, NoTemplate}
BY GenerationAssumption DEF GenerationAssumption, Cleared, SlotRow

LEMMA TemplateDeleted ==
    ASSUME TypeOK, NEW t \in Template, DeleteTemplate(t)
    PROVE  /\ templates' \in [Template -> Row \cup {NoRow}]
           /\ \A u \in Template : u # t => templates'[u] = templates[u]
           /\ slots' = {Cleared(s, t) : s \in slots}
           /\ \A j \in Job : job[j].made # {} => job[j].template # t
           /\ UNCHANGED <<minted, job>>
BY DEF TypeOK, DeleteTemplate, KeyShared, Cleared

-----------------------------------------------------------------------------
(* The slots of a day start at whole multiples of the duration.            *)

LEMMA Multiples ==
    ASSUME NEW a \in Int, NEW d \in Nat, d > 0, a % d = 0
    PROVE  \E k \in Int : a = k * d
BY SMT

LEMMA MultipleDivides ==
    ASSUME NEW k \in Int, NEW d \in Nat, d > 0
    PROVE  (k * d) % d = 0
BY SMT

LEMMA NextMultiple ==
    ASSUME NEW a \in Int, NEW d \in Nat, d > 0, a % d = 0
    PROVE  (a + d) % d = 0
<1>1. PICK k \in Int : a = k * d
  BY Multiples
<1>2. a + d = (k + 1) * d
  BY <1>1, SMT
<1> QED BY <1>2, MultipleDivides

LEMMA MultiplesApart ==
    ASSUME NEW a \in Int, NEW b \in Int, NEW d \in Nat, d > 0,
           a % d = 0, b % d = 0, b < a + d, b > a - d
    PROVE  a = b
<1>1. PICK k \in Int : a = k * d
  BY Multiples
<1>2. PICK m \in Int : b = m * d
  BY Multiples
<1>3. m < k + 1
  <2>1. (k + 1 - m) * d > 0
    BY <1>1, <1>2, SMT
  <2> QED BY <2>1, SMT
<1>4. m > k - 1
  <2>1. (m - k + 1) * d > 0
    BY <1>1, <1>2, SMT
  <2> QED BY <2>1, SMT
<1> QED BY <1>1, <1>2, <1>3, <1>4

\* What it is to be one of the whole slots of a row.
LEMMA WholeSlotsAre ==
    ASSUME NEW row \in Row, row.dur > 0, NEW days \in SUBSET Nat,
           NEW x \in WholeSlots(row, days)
    PROVE  /\ x \in [day : Nat, start : Nat, end : Nat]
           /\ x.day \in days /\ Weekday(x.day) \in Weekdays(row.days)
           /\ row.start <= x.start /\ x.end = x.start + row.dur /\ x.end <= row.end
           /\ (x.start - row.start) % row.dur = 0
<1>1. /\ row.start \in Nat /\ row.end \in Nat /\ row.dur \in Nat
  BY RowFields
<1>2. /\ x \in [day : days, start : row.start .. row.end, end : row.start .. row.end]
      /\ Weekday(x.day) \in Weekdays(row.days)
      /\ (x.start - row.start) % row.dur = 0
      /\ x.end = x.start + row.dur
  BY DEF WholeSlots
<1>3. /\ x.day \in Nat /\ x.day \in days
      /\ x.start \in row.start .. row.end /\ x.end \in row.start .. row.end
  BY <1>2
<1> QED BY <1>1, <1>2, <1>3

LEMMA WholeSlotsHave ==
    ASSUME NEW row \in Row, row.dur > 0, NEW days \in SUBSET Nat,
           NEW day \in days, Weekday(day) \in Weekdays(row.days),
           NEW time \in Nat, row.start <= time, time + row.dur <= row.end,
           (time - row.start) % row.dur = 0
    PROVE  [day |-> day, start |-> time, end |-> time + row.dur] \in WholeSlots(row, days)
<1>1. /\ row.start \in Nat /\ row.end \in Nat /\ row.dur \in Nat
  BY RowFields
<1> QED BY <1>1 DEF WholeSlots

LEMMA DaysType ==
    ASSUME NEW row \in Row, NEW w \in Window
    PROVE  /\ FirstDay(row, w) \in Nat /\ LastDay(row, w) \in Nat
           /\ FirstDay(row, w) .. LastDay(row, w) \in SUBSET Nat
<1>1. w.to.date \in Nat
  BY GenerationAssumption DEF GenerationAssumption, Request, Moment
<1>2. row.last \in Nat
  BY RowFields
<1>3. LastDay(row, w) \in Nat
  BY <1>1, <1>2 DEF LastDay, GenTo, TplEnd
<1> QED BY <1>3, FirstDayType

\* A job whose loops run, in terms of the numbers they count with.
LEMMA LoopNumbers ==
    ASSUME TypeOK, LoopServed, NEW j \in Job, job[j].pc = "filling"
    PROVE  /\ job[j].row \in Row /\ job[j].window \in Window
           /\ job[j].day \in Nat /\ job[j].time \in Nat
           /\ job[j].row.start \in Nat /\ job[j].row.end \in Nat
           /\ job[j].row.dur \in Nat /\ job[j].row.dur > 0
           /\ FirstDay(job[j].row, job[j].window) \in Nat
           /\ LastDay(job[j].row, job[j].window) \in Nat
           /\ job[j].day >= FirstDay(job[j].row, job[j].window)
           /\ job[j].time >= job[j].row.start
           /\ (job[j].time - job[j].row.start) % job[j].row.dur = 0
<1>1. job[j].row \in Row /\ job[j].window \in Window /\ job[j].row.dur > 0
  BY DEF LoopServed, WentAhead, Usable
<1>2. /\ job[j].row.start \in Nat /\ job[j].row.end \in Nat /\ job[j].row.dur \in Nat
  BY <1>1, RowFields
<1> QED BY <1>1, <1>2, DaysType, JobFields DEF LoopServed

LEMMA ServedAre ==
    ASSUME TypeOK, LoopServed, NEW j \in Job, job[j].pc = "filling",
           NEW x \in Served(job[j].row, job[j].window)
    PROVE  /\ x \in [day : Nat, start : Nat, end : Nat]
           /\ x.day <= LastDay(job[j].row, job[j].window)
           /\ Weekday(x.day) \in Weekdays(job[j].row.days)
           /\ job[j].row.start <= x.start /\ x.end <= job[j].row.end
           /\ x.end = x.start + job[j].row.dur
           /\ (x.start - job[j].row.start) % job[j].row.dur = 0
<1> DEFINE days == FirstDay(job[j].row, job[j].window) .. LastDay(job[j].row, job[j].window)
<1>1. /\ job[j].row \in Row /\ job[j].row.dur > 0 /\ days \in SUBSET Nat
      /\ FirstDay(job[j].row, job[j].window) \in Nat
      /\ LastDay(job[j].row, job[j].window) \in Nat
  BY LoopNumbers, DaysType
<1>2. x \in WholeSlots(job[j].row, days)
  BY DEF Served
<1>3. x.day \in days
  BY <1>1, <1>2, WholeSlotsAre
<1>4. x.day <= LastDay(job[j].row, job[j].window)
  BY <1>1, <1>3
<1> HIDE DEF days
<1> QED BY <1>1, <1>2, <1>4, WholeSlotsAre

\* One more insert passes one more of the slots to be served.
LEMMA InsertPasses ==
    ASSUME TypeOK, LoopInv, LoopServed, NEW j \in Job, SlotFits(j),
           NEW x \in Served(job[j].row, job[j].window)
    PROVE  \/ x.day < job[j].day
           \/ x.day = job[j].day /\ x.end <= job[j].time + job[j].row.dur
           <=> Passed(j, x) \/ x = NextTimes(j)
<1> DEFINE row == job[j].row
           time == job[j].time
           d == row.dur
<1>1. job[j].pc = "filling"
  BY DEF SlotFits, DaysLeft
<1>2. /\ row.start \in Nat /\ time \in Nat /\ d \in Nat /\ d > 0 /\ job[j].day \in Nat
      /\ time >= row.start /\ (time - row.start) % d = 0
  BY <1>1, LoopNumbers
<1>3. /\ x \in [day : Nat, start : Nat, end : Nat]
      /\ row.start <= x.start /\ x.end = x.start + d /\ (x.start - row.start) % d = 0
  BY <1>1, ServedAre
<1>4. x = NextTimes(j) <=> x.day = job[j].day /\ x.start = time
  BY <1>3 DEF NextTimes
<1> HIDE DEF row, time, d
<1>5. x.start - row.start \in Int /\ time - row.start \in Int
  BY <1>2, <1>3
<1>6. ASSUME x.end <= time + d, ~(x.end <= time)
      PROVE  x.start = time
  <2>1. x.start - row.start > (time - row.start) - d
    BY <1>2, <1>3, <1>6
  <2>2. x.start - row.start < (time - row.start) + d
    BY <1>2, <1>3, <1>6
  <2>3. time - row.start = x.start - row.start
    BY <1>2, <1>3, <1>5, <2>1, <2>2, MultiplesApart
  <2> QED BY <1>2, <1>3, <2>3
<1>7. Passed(j, x) <=> x.day < job[j].day \/ (x.day = job[j].day /\ x.end <= time)
  BY DEF Passed, time
<1> QED
  <2>1. x.start = time => x.end <= time + d
    BY <1>2, <1>3
  <2>2. x.end <= time => x.end <= time + d
    BY <1>2, <1>3
  <2>3. x.day = job[j].day => ~(x.day < job[j].day)
    BY <1>2
  <2> QED BY <1>4, <1>6, <1>7, <2>1, <2>2, <2>3 DEF time, d, row

\* A day that is given up has no slot left to be served.
LEMMA NextDayPasses ==
    ASSUME TypeOK, LoopServed, NEW j \in Job, DaysLeft(j), ~SlotFits(j),
           NEW x \in Served(job[j].row, job[j].window)
    PROVE  \/ x.day < job[j].day + 1
           \/ x.day = job[j].day + 1 /\ x.end <= job[j].row.start
           <=> Passed(j, x)
<1> DEFINE row == job[j].row
           time == job[j].time
           d == row.dur
<1>1. job[j].pc = "filling"
  BY DEF DaysLeft
<1>2. /\ row.start \in Nat /\ row.end \in Nat /\ time \in Nat /\ d \in Nat /\ d > 0
      /\ job[j].day \in Nat
      /\ time >= row.start /\ (time - row.start) % d = 0
  BY <1>1, LoopNumbers
<1>3. /\ x \in [day : Nat, start : Nat, end : Nat]
      /\ Weekday(x.day) \in Weekdays(row.days)
      /\ row.start <= x.start /\ x.end <= row.end
      /\ x.end = x.start + d /\ (x.start - row.start) % d = 0
  BY <1>1, ServedAre
<1>4. x.day = job[j].day => ~(time + d <= row.end)
  <2>1. row.start < row.end
    BY <1>2, <1>3
  <2> QED BY <1>3, <2>1 DEF SlotFits
<1> HIDE DEF row, time, d
<1>5. x.day = job[j].day => x.end <= time
  <2> SUFFICES ASSUME x.day = job[j].day, ~(x.end <= time)
               PROVE  FALSE
    OBVIOUS
  <2>1. x.start - row.start > (time - row.start) - d
    BY <1>2, <1>3
  <2>2. x.start - row.start < (time - row.start) + d
    BY <1>2, <1>3, <1>4
  <2>3. x.start - row.start \in Int /\ time - row.start \in Int
    BY <1>2, <1>3
  <2>4. time - row.start = x.start - row.start
    BY <1>2, <1>3, <2>1, <2>2, <2>3, MultiplesApart
  <2> QED BY <1>2, <1>3, <1>4, <2>4
<1>6. ~(x.end <= row.start)
  BY <1>2, <1>3
<1>7. Passed(j, x) <=> x.day < job[j].day \/ (x.day = job[j].day /\ x.end <= time)
  BY DEF Passed, time
<1>8. x.day < job[j].day + 1 <=> x.day < job[j].day \/ x.day = job[j].day
  <2>1. x.day \in Nat /\ job[j].day \in Nat
    BY <1>2, <1>3
  <2> QED BY <2>1
<1> QED BY <1>5, <1>6, <1>7, <1>8 DEF row

\* When the loops are through, so are all slots to be served.
LEMMA CommitServes ==
    ASSUME TypeOK, LoopServed, NEW j \in Job, Commits(j)
    PROVE  job[j].made = Served(job[j].row, job[j].window)
<1>1. job[j].pc = "filling" /\ ~DaysLeft(j)
  BY CommitMoves
<1>2. /\ job[j].day \in Nat /\ LastDay(job[j].row, job[j].window) \in Nat
      /\ ~(job[j].day <= LastDay(job[j].row, job[j].window))
  BY <1>1, LoopNumbers DEF DaysLeft
<1>3. \A x \in Served(job[j].row, job[j].window) : Passed(j, x)
  BY <1>1, <1>2, ServedAre DEF Passed
<1> QED BY <1>1, <1>3 DEF LoopServed

-----------------------------------------------------------------------------
(* GenerationInv is inductive, one conjunct at a time.                     *)

LEMMA GenerationInit == Init => GenerationInv
<1> SUFFICES ASSUME Init PROVE GenerationInv
  OBVIOUS
<1>1. TypeOK
  BY DEF Init, TypeOK, NewJob, JobState
<1>2. LoopInv /\ LoopServed
  BY DEF Init, LoopInv, LoopServed, NewJob
<1>3. JobServed
  BY DEF Init, JobServed, TimesOf, NewJob
<1> QED BY <1>1, <1>2, <1>3
    DEF Init, GenerationInv, PublishedOnce, NoOverlapInJob, TemplateOfSlotExists, NewJob

\* A step writes templates, deletes one, is one of a job, or changes nothing.
LEMMA StepKinds ==
    ASSUME TypeOK, [Next]_vars
    PROVE  \/ \E t \in Template, row \in Row : CreateTemplate(t, row) \/ UpdateTemplate(t, row)
           \/ \E t \in Template : DeleteTemplate(t)
           \/ \E j \in Job, t \in minted \cup {NoTemplate}, w \in Window : Generate(j, t, w)
           \/ \E j \in Job : \/ InsertSlot(j) \/ NextDay(j) \/ Commits(j) \/ Abort(j)
           \/ UNCHANGED vars
BY DEF Next, Proceed, Commits

LEMMA AbortMoves ==
    ASSUME TypeOK, NEW j \in Job, Abort(j)
    PROVE  RollBack(j) /\ UNCHANGED <<templates, minted, slots>>
BY DEF Abort

LEMMA PublishedType ==
    ASSUME TypeOK, NEW j \in Job, NEW x \in job[j].made
    PROVE  /\ Published(j, x) \in SlotRow
           /\ Published(j, x).job = j /\ Published(j, x).day = x.day
           /\ Published(j, x).start = x.start /\ Published(j, x).end = x.end
           /\ Published(j, x).template = job[j].template
<1>1. x \in Times /\ job[j].template \in Template \cup {NoTemplate}
  BY JobFields
<1> QED BY <1>1 DEF Published, SlotRow, Times

LEMMA TypeKept ==
    ASSUME GenerationInv, [Next]_vars
    PROVE  TypeOK'
<1> USE DEF GenerationInv
<1>1. ASSUME NEW t \in Template, NEW row \in Row,
             CreateTemplate(t, row) \/ UpdateTemplate(t, row)
      PROVE  TypeOK'
  BY <1>1, TemplateWritten DEF TypeOK
<1>2. ASSUME NEW t \in Template, DeleteTemplate(t)
      PROVE  TypeOK'
  <2>1. slots' \subseteq SlotRow
    BY <1>2, TemplateDeleted, ClearedFields DEF TypeOK
  <2> QED BY <1>2, <2>1, TemplateDeleted DEF TypeOK
<1>3. ASSUME NEW j \in Job, NEW t \in minted \cup {NoTemplate}, NEW w \in Window,
             Generate(j, t, w)
      PROVE  TypeOK'
  BY <1>3, GenerateMoves DEF TypeOK
<1>4. ASSUME NEW j \in Job, InsertSlot(j)
      PROVE  TypeOK'
  BY <1>4, InsertMoves DEF TypeOK
<1>5. ASSUME NEW j \in Job, NextDay(j)
      PROVE  TypeOK'
  BY <1>5, NextDayMoves DEF TypeOK
<1>6. ASSUME NEW j \in Job, Commits(j)
      PROVE  TypeOK'
  BY <1>6, CommitMoves, PublishedType DEF TypeOK
<1>7. ASSUME NEW j \in Job, Abort(j)
      PROVE  TypeOK'
  BY <1>7, AbortMoves, RollBackMoves DEF TypeOK
<1>8. CASE UNCHANGED vars
  BY <1>8 DEF vars, TypeOK
<1> QED BY <1>1, <1>2, <1>3, <1>4, <1>5, <1>6, <1>7, <1>8, StepKinds

\* LoopInv of one job, to carry over the jobs a step does not touch.
LoopOf(j) ==
    /\ job[j].pc = "filling" =>
          job[j].template \in Template /\ job[j].row # NoRow /\ job[j].row.dur > 0
    /\ job[j].pc # "filling" => job[j].made = {}
    /\ job[j].pc = "reply_lost" => j \in Faulty
    /\ \A x \in job[j].made :
          /\ x.start < x.end /\ x.end <= DayLen
          /\ x.day < job[j].day \/ (x.day = job[j].day /\ x.end <= job[j].time)
    /\ \A x, y \in job[j].made : x # y => Apart(x, y)

LEMMA LoopKept ==
    ASSUME GenerationInv, [Next]_vars
    PROVE  LoopInv'
<1> USE DEF GenerationInv
<1>0. LoopInv <=> \A j \in Job : LoopOf(j)
  BY DEF LoopInv, LoopOf
<1>1. ASSUME job' = job
      PROVE  LoopInv'
  BY <1>1 DEF LoopInv, Apart
<1>2. ASSUME NEW j \in Job, \A i \in Job : i # j => job'[i] = job[i], LoopOf(j)'
      PROVE  LoopInv'
  <2>1. \A i \in Job : i # j => LoopOf(i)'
    BY <1>0, <1>2 DEF LoopOf, Apart
  <2> QED BY <1>2, <2>1 DEF LoopInv, LoopOf
<1>3. ASSUME NEW j \in Job, NEW t \in minted \cup {NoTemplate}, NEW w \in Window,
             Generate(j, t, w)
      PROVE  LoopInv'
  <2>1. LoopOf(j)'
    BY <1>3, GenerateMoves, RowFields DEF LoopOf
  <2> QED BY <1>2, <1>3, <2>1, GenerateMoves
<1>4. ASSUME NEW j \in Job, InsertSlot(j)
      PROVE  LoopInv'
  <2>1. CASE job'[j].pc = "rolled_back" /\ job'[j].made = {}
    <3>1. LoopOf(j)'
      BY <2>1 DEF LoopOf
    <3> QED BY <1>2, <1>4, <3>1, InsertMoves
  <2>2. CASE SlotFits(j) /\ job'[j].made = job[j].made \cup {NextTimes(j)}
    <3> DEFINE n == NextTimes(j)
    <3>1. /\ job'[j].pc = "filling" /\ job[j].pc = "filling" /\ job'[j].day = job[j].day
          /\ job'[j].row = job[j].row /\ job'[j].template = job[j].template
          /\ job'[j].time = n.end
      <4>1. job[j].pc = "filling"
        BY <2>2 DEF SlotFits, DaysLeft
      <4> QED BY <1>4, <2>2, <4>1, InsertMoves, NextTimesFit
    <3>2. /\ n.start < n.end /\ n.end < DayLen /\ n.end > job[j].time
          /\ n.start = job[j].time /\ n.day = job[j].day
          /\ job[j].time \in Nat /\ n.end \in Nat /\ DayLen \in Nat
      BY <2>2, NextTimesFit, JobFields, GenerationAssumption DEF GenerationAssumption, Times
    <3> HIDE DEF n
    <3>3. \A x \in job[j].made :
              /\ x \in Times
              /\ x.start < x.end /\ x.end <= DayLen
              /\ x.day < job[j].day \/ (x.day = job[j].day /\ x.end <= job[j].time)
      BY JobFields DEF LoopInv
    <3>4. \A x \in job[j].made : Apart(x, n) /\ Apart(n, x)
      BY <3>2, <3>3, JobFields DEF Apart, Times
    <3>5. \A x \in job'[j].made :
              /\ x.start < x.end /\ x.end <= DayLen
              /\ x.day < job'[j].day \/ (x.day = job'[j].day /\ x.end <= job'[j].time)
      BY <2>2, <3>1, <3>2, <3>3 DEF Times, n
    <3>6. \A x, y \in job'[j].made : x # y => Apart(x, y)
      BY <2>2, <3>4 DEF LoopInv, n
    <3>7. /\ job'[j].template \in Template /\ job'[j].row # NoRow /\ job'[j].row.dur > 0
      BY <3>1 DEF LoopInv
    <3>8. LoopOf(j)'
      BY <3>1, <3>5, <3>6, <3>7 DEF LoopOf, Apart
    <3> QED BY <1>2, <1>4, <3>8, InsertMoves
  <2> QED BY <1>4, <2>1, <2>2, InsertMoves
<1>5. ASSUME NEW j \in Job, NextDay(j)
      PROVE  LoopInv'
  <2>1. /\ job'[j].pc = "filling" /\ job'[j].day = job[j].day + 1
        /\ job'[j].row = job[j].row /\ job'[j].template = job[j].template
        /\ job'[j].made = job[j].made /\ job[j].pc = "filling"
    BY <1>5, NextDayMoves DEF NextDay, DaysLeft
  <2>2. \A x \in job[j].made : x \in Times
    BY JobFields
  <2>3. LoopOf(j)'
    BY <2>1, <2>2, JobFields DEF LoopInv, LoopOf, Apart, Times
  <2> QED BY <1>2, <1>5, <2>3, NextDayMoves
<1>6. ASSUME NEW j \in Job, Commits(j)
      PROVE  LoopInv'
  <2>1. LoopOf(j)'
    BY <1>6, CommitMoves DEF LoopOf
  <2> QED BY <1>2, <1>6, <2>1, CommitMoves
<1>7. ASSUME NEW j \in Job, Abort(j)
      PROVE  LoopInv'
  <2>1. LoopOf(j)'
    BY <1>7, AbortMoves, RollBackMoves DEF LoopOf
  <2> QED BY <1>2, <1>7, <2>1, AbortMoves, RollBackMoves
<1> QED BY <1>1, <1>3, <1>4, <1>5, <1>6, <1>7, StepKinds, TemplateWritten, TemplateDeleted
    DEF vars

\* LoopServed of one job.
ServedOf(j) ==
    /\ job[j].pc \in {"filling"} \cup Committed => WentAhead(j)
    /\ job[j].pc = "filling" =>
          /\ job[j].day >= FirstDay(job[j].row, job[j].window)
          /\ job[j].time >= job[j].row.start
          /\ (job[j].time - job[j].row.start) % job[j].row.dur = 0
          /\ job[j].made = {x \in Served(job[j].row, job[j].window) : Passed(j, x)}

LEMMA ServedLoopKept ==
    ASSUME GenerationInv, [Next]_vars
    PROVE  LoopServed'
<1> USE DEF GenerationInv
<1>0. LoopServed <=> \A j \in Job : ServedOf(j)
  BY DEF LoopServed, ServedOf
<1>1. ASSUME job' = job
      PROVE  LoopServed'
  BY <1>1 DEF LoopServed, WentAhead, Passed
<1>2. ASSUME NEW j \in Job, \A i \in Job : i # j => job'[i] = job[i], ServedOf(j)'
      PROVE  LoopServed'
  <2>1. \A i \in Job : i # j => ServedOf(i)'
    BY <1>0, <1>2 DEF ServedOf, WentAhead, Passed
  <2> QED BY <1>2, <2>1 DEF LoopServed, ServedOf
<1>3. ASSUME NEW j \in Job, NEW t \in minted \cup {NoTemplate}, NEW w \in Window,
             Generate(j, t, w)
      PROVE  LoopServed'
  <2>1. CASE job'[j].pc = "filling"
    <3> DEFINE row == TemplateRead(t)
    <3>1. /\ t \in Template /\ row \in Row /\ row.dur > 0
          /\ w.form = "rfc3339" /\ ~Before(w.to, w.from) /\ Usable(row, w)
          /\ job'[j].template = t /\ job'[j].row = row /\ job'[j].window = w
          /\ job'[j].day = FirstDay(row, w) /\ job'[j].time = row.start
          /\ job'[j].made = {}
      BY <1>3, <2>1, GenerateMoves
    <3> HIDE DEF row
    <3>2. /\ row.start \in Nat /\ row.dur \in Nat /\ FirstDay(row, w) \in Nat
          /\ LastDay(row, w) \in Nat
      BY <3>1, RowFields, DaysType
    <3>3. (row.start - row.start) % row.dur = 0
      BY <3>1, <3>2, MultipleDivides, SMT
    <3>4. ASSUME NEW x \in Served(row, w)
          PROVE  ~(x.day < FirstDay(row, w)) /\ ~(x.end <= row.start)
      <4> DEFINE days == FirstDay(row, w) .. LastDay(row, w)
      <4>1. x \in WholeSlots(row, days) /\ days \in SUBSET Nat
        BY <3>2, <3>4 DEF Served
      <4>2. x.day \in days
        BY <3>1, <4>1, WholeSlotsAre
      <4>3. ~(x.day < FirstDay(row, w))
        BY <3>2, <4>2
      <4> HIDE DEF days
      <4>4. /\ x.start \in Nat /\ x.end = x.start + row.dur /\ row.start <= x.start
        BY <3>1, <4>1, WholeSlotsAre
      <4> QED BY <3>1, <3>2, <4>3, <4>4
    <3>5. WentAhead(j)'
      BY <3>1 DEF WentAhead
    <3>6. ServedOf(j)'
      BY <2>1, <3>1, <3>2, <3>3, <3>4, <3>5 DEF ServedOf, Passed
    <3> QED BY <1>2, <1>3, <3>6, GenerateMoves
  <2>2. CASE job'[j].pc # "filling"
    <3>1. ServedOf(j)'
      BY <1>3, <2>2, GenerateMoves DEF ServedOf
    <3> QED BY <1>2, <1>3, <3>1, GenerateMoves
  <2> QED BY <2>1, <2>2
<1>4. ASSUME NEW j \in Job, InsertSlot(j)
      PROVE  LoopServed'
  <2>1. CASE job'[j].pc = "rolled_back"
    <3>1. ServedOf(j)'
      BY <2>1 DEF ServedOf
    <3> QED BY <1>2, <1>4, <3>1, InsertMoves
  <2>2. CASE /\ SlotFits(j)
             /\ job'[j].pc = job[j].pc /\ job'[j].day = job[j].day
             /\ job'[j].window = job[j].window
             /\ job'[j].row = job[j].row /\ job'[j].template = job[j].template
             /\ job'[j].time = job[j].time + job[j].row.dur
             /\ job'[j].made = job[j].made \cup {NextTimes(j)}
    <3> DEFINE row == job[j].row
               w == job[j].window
               time == job[j].time
    <3>1. job[j].pc = "filling" /\ WentAhead(j)
      BY <2>2 DEF SlotFits, DaysLeft, LoopServed
    <3>2. /\ row \in Row /\ row.start \in Nat /\ row.dur \in Nat /\ row.dur > 0
          /\ time \in Nat /\ time >= row.start /\ (time - row.start) % row.dur = 0
          /\ job[j].day \in Nat /\ job[j].day >= FirstDay(row, w)
          /\ FirstDay(row, w) \in Nat /\ LastDay(row, w) \in Nat
      BY <3>1, LoopNumbers
    <3>3. WentAhead(j)'
      BY <2>2, <3>1 DEF WentAhead
    <3>4. NextTimes(j) \in Served(row, w)
      <4> DEFINE days == FirstDay(row, w) .. LastDay(row, w)
      <4>1. job[j].day \in days /\ days \in SUBSET Nat
        BY <2>2, <3>2 DEF SlotFits, DaysLeft
      <4>2. Weekday(job[j].day) \in Weekdays(row.days) /\ time + row.dur <= row.end
        BY <2>2 DEF SlotFits
      <4> HIDE DEF days, row, time
      <4>3. [day |-> job[j].day, start |-> time, end |-> time + row.dur] \in WholeSlots(row, days)
        BY <3>2, <4>1, <4>2, WholeSlotsHave
      <4> QED BY <4>3 DEF NextTimes, Served, days, row, time
    <3>5. \A x \in Served(row, w) :
              \/ x.day < job[j].day
              \/ x.day = job[j].day /\ x.end <= time + row.dur
              <=> Passed(j, x) \/ x = NextTimes(j)
      BY <2>2, InsertPasses
    <3>6. job[j].made = {x \in Served(row, w) : Passed(j, x)}
      BY <3>1 DEF LoopServed
    <3> HIDE DEF row, w, time
    <3>7. /\ job'[j].made = {x \in Served(row, w) : Passed(j, x) \/ x = NextTimes(j)}
      BY <2>2, <3>4, <3>6
    <3>8. job'[j].made = {x \in Served(row, w) :
                              \/ x.day < job[j].day
                              \/ x.day = job[j].day /\ x.end <= time + row.dur}
      BY <3>5, <3>7
    <3>9. job'[j].made = {x \in Served(row, w) : Passed(j, x)'}
      BY <2>2, <3>8 DEF Passed, row, time
    <3>10. (time + row.dur - row.start) % row.dur = 0
      <4>1. time \in Nat /\ row.start \in Nat /\ row.dur \in Nat
        BY <3>2
      <4>2. (time - row.start) + row.dur = time + row.dur - row.start /\ time - row.start \in Int
        BY <4>1
      <4> QED BY <3>2, <4>2, NextMultiple
    <3>11. time + row.dur >= row.start
      BY <3>2
    <3>12. ServedOf(j)'
      BY <2>2, <3>1, <3>2, <3>3, <3>9, <3>10, <3>11 DEF ServedOf, row, w, time
    <3> QED BY <1>2, <1>4, <3>12, InsertMoves
  <2> QED BY <1>4, <2>1, <2>2, InsertMoves
<1>5. ASSUME NEW j \in Job, NextDay(j)
      PROVE  LoopServed'
  <2> DEFINE row == job[j].row
             w == job[j].window
  <2>1. job[j].pc = "filling" /\ WentAhead(j) /\ DaysLeft(j) /\ ~SlotFits(j)
    BY <1>5 DEF NextDay, DaysLeft, LoopServed
  <2>2. /\ job'[j].pc = job[j].pc /\ job'[j].day = job[j].day + 1
        /\ job'[j].time = row.start
        /\ job'[j].window = w /\ job'[j].row = row
        /\ job'[j].template = job[j].template /\ job'[j].made = job[j].made
    BY <1>5, NextDayMoves
  <2>3. /\ row.start \in Nat /\ row.dur \in Nat /\ row.dur > 0
        /\ job[j].day \in Nat /\ job[j].day >= FirstDay(row, w) /\ FirstDay(row, w) \in Nat
    BY <2>1, LoopNumbers
  <2>4. WentAhead(j)'
    BY <2>1, <2>2 DEF WentAhead
  <2>5. \A x \in Served(row, w) :
            \/ x.day < job[j].day + 1
            \/ x.day = job[j].day + 1 /\ x.end <= row.start
            <=> Passed(j, x)
    BY <2>1, NextDayPasses
  <2>6. job[j].made = {x \in Served(row, w) : Passed(j, x)}
    BY <2>1 DEF LoopServed
  <2> HIDE DEF row, w
  <2>7. job'[j].made = {x \in Served(row, w) : Passed(j, x)'}
    BY <2>2, <2>5, <2>6 DEF Passed
  <2>8. (row.start - row.start) % row.dur = 0
    BY <2>3, MultipleDivides, SMT
  <2>9. job[j].day + 1 >= FirstDay(row, w) /\ row.start >= row.start
    BY <2>3
  <2>10. ServedOf(j)'
    BY <2>1, <2>2, <2>4, <2>7, <2>8, <2>9 DEF ServedOf
  <2> QED BY <1>2, <1>5, <2>10, NextDayMoves
<1>6. ASSUME NEW j \in Job, Commits(j)
      PROVE  LoopServed'
  <2>1. WentAhead(j)
    BY <1>6, CommitMoves DEF LoopServed
  <2>2. ServedOf(j)'
    BY <1>6, <2>1, CommitMoves DEF ServedOf, WentAhead
  <2> QED BY <1>2, <1>6, <2>2, CommitMoves
<1>7. ASSUME NEW j \in Job, Abort(j)
      PROVE  LoopServed'
  <2>1. ServedOf(j)'
    BY <1>7, AbortMoves, RollBackMoves DEF ServedOf
  <2> QED BY <1>2, <1>7, <2>1, AbortMoves, RollBackMoves
<1> QED BY <1>1, <1>3, <1>4, <1>5, <1>6, <1>7, StepKinds, TemplateWritten, TemplateDeleted
    DEF vars

\* The times of a published slot are those it was made with.
LEMMA TimesPublished ==
    ASSUME TypeOK, NEW j \in Job, NEW x \in job[j].made
    PROVE  LET s == Published(j, x) IN [day |-> s.day, start |-> s.start, end |-> s.end] = x
<1>1. x \in Times
  BY JobFields
<1> QED BY <1>1 DEF Published, Times

LEMMA JobServedKept ==
    ASSUME GenerationInv, [Next]_vars
    PROVE  JobServed'
<1> USE DEF GenerationInv
<1>0. \A i \in Job : job[i].pc \in {"new", "filling"} \cup Answer
  BY JobFields
<1>1. ASSUME NEW j \in Job, slots' = slots, \A i \in Job : i # j => job'[i] = job[i],
             job[j].pc \notin Committed, job'[j].pc \notin Committed
      PROVE  JobServed'
  BY <1>1 DEF JobServed, TimesOf
<1>2. ASSUME NEW t \in Template, DeleteTemplate(t)
      PROVE  JobServed'
  <2>1. slots' = {Cleared(s, t) : s \in slots} /\ job' = job
    BY <1>2, TemplateDeleted
  <2>2. \A s \in slots :
            /\ Cleared(s, t).job = s.job /\ Cleared(s, t).day = s.day
            /\ Cleared(s, t).start = s.start /\ Cleared(s, t).end = s.end
    BY ClearedFields DEF TypeOK
  <2>3. \A j \in Job : TimesOf(j)' = TimesOf(j)
    BY <2>1, <2>2 DEF TimesOf
  <2> QED BY <2>1, <2>3 DEF JobServed
<1>3. ASSUME NEW j \in Job, NEW t \in minted \cup {NoTemplate}, NEW w \in Window,
             Generate(j, t, w)
      PROVE  JobServed'
  BY <1>1, <1>3, GenerateMoves
<1>4. ASSUME NEW j \in Job, InsertSlot(j)
      PROVE  JobServed'
  BY <1>1, <1>4, InsertMoves DEF InsertSlot, SlotFits, DaysLeft
<1>5. ASSUME NEW j \in Job, NextDay(j)
      PROVE  JobServed'
  BY <1>1, <1>5, NextDayMoves DEF NextDay, DaysLeft
<1>6. ASSUME NEW j \in Job, Commits(j)
      PROVE  JobServed'
  <2>1. /\ slots' = slots \cup {Published(j, x) : x \in job[j].made}
        /\ job[j].pc = "filling" /\ job'[j].pc \in Committed
        /\ job'[j].row = job[j].row /\ job'[j].window = job[j].window
        /\ \A i \in Job : i # j => job'[i] = job[i]
    BY <1>6, CommitMoves
  <2>2. \A x \in job[j].made : Published(j, x).job = j
    BY DEF Published
  <2>3. \A i \in Job : i # j => TimesOf(i)' = TimesOf(i)
    BY <2>1, <2>2 DEF TimesOf
  <2>4. TimesOf(j) = {}
    BY <2>1 DEF JobServed
  <2>5. \A s \in slots : s.job # j
    BY <2>4 DEF TimesOf
  <2>6. TimesOf(j)' = {[day |-> s.day, start |-> s.start, end |-> s.end] :
                           s \in {Published(j, x) : x \in job[j].made}}
    BY <2>1, <2>2, <2>5 DEF TimesOf
  <2>7. TimesOf(j)' = job[j].made
    BY <2>6, TimesPublished
  <2>8. TimesOf(j)' = Served(job[j].row, job[j].window)
    BY <1>6, <2>7, CommitServes
  <2> QED BY <2>1, <2>3, <2>8 DEF JobServed
<1>7. ASSUME NEW j \in Job, Abort(j)
      PROVE  JobServed'
  BY <1>1, <1>7, AbortMoves, RollBackMoves DEF Abort
<1>8. CASE UNCHANGED <<slots, job>>
  BY <1>8 DEF JobServed, TimesOf
<1> QED BY <1>2, <1>3, <1>4, <1>5, <1>6, <1>7, <1>8, StepKinds, TemplateWritten DEF vars

LEMMA PublishedKept ==
    ASSUME GenerationInv, [Next]_vars
    PROVE  PublishedOnce'
<1> USE DEF GenerationInv
<1>1. \A s \in slots : s.job \in Job /\ job[s.job].pc \in Committed
  BY DEF TypeOK, SlotRow, PublishedOnce
<1>2. ASSUME NEW j \in Job, slots' = slots, \A i \in Job : i # j => job'[i] = job[i],
             job[j].pc \notin Committed
      PROVE  PublishedOnce'
  BY <1>1, <1>2 DEF PublishedOnce
<1>3. ASSUME NEW t \in Template, DeleteTemplate(t)
      PROVE  PublishedOnce'
  BY <1>1, <1>3, TemplateDeleted, ClearedFields DEF PublishedOnce, TypeOK
<1>4. ASSUME NEW j \in Job, NEW t \in minted \cup {NoTemplate}, NEW w \in Window,
             Generate(j, t, w)
      PROVE  PublishedOnce'
  BY <1>2, <1>4, GenerateMoves
<1>5. ASSUME NEW j \in Job, InsertSlot(j)
      PROVE  PublishedOnce'
  BY <1>2, <1>5, InsertMoves DEF InsertSlot, SlotFits, DaysLeft
<1>6. ASSUME NEW j \in Job, NextDay(j)
      PROVE  PublishedOnce'
  BY <1>2, <1>6, NextDayMoves DEF NextDay, DaysLeft
<1>7. ASSUME NEW j \in Job, Commits(j)
      PROVE  PublishedOnce'
  <2>1. \A x \in job[j].made : Published(j, x).job = j
    BY DEF Published
  <2> QED BY <1>1, <1>7, <2>1, CommitMoves DEF PublishedOnce
<1>8. ASSUME NEW j \in Job, Abort(j)
      PROVE  PublishedOnce'
  BY <1>2, <1>8, AbortMoves, RollBackMoves DEF Abort
<1>9. CASE UNCHANGED <<slots, job>>
  BY <1>9 DEF PublishedOnce
<1> QED BY <1>3, <1>4, <1>5, <1>6, <1>7, <1>8, <1>9, StepKinds, TemplateWritten DEF vars

LEMMA OverlapKept ==
    ASSUME GenerationInv, [Next]_vars
    PROVE  NoOverlapInJob'
<1> USE DEF GenerationInv
<1>1. CASE UNCHANGED slots
  BY <1>1 DEF NoOverlapInJob, Apart
<1>2. ASSUME NEW t \in Template, DeleteTemplate(t)
      PROVE  NoOverlapInJob'
  <2>1. slots' = {Cleared(s, t) : s \in slots}
    BY <1>2, TemplateDeleted
  <2>2. \A s \in slots :
            /\ Cleared(s, t).job = s.job /\ Cleared(s, t).day = s.day
            /\ Cleared(s, t).start = s.start /\ Cleared(s, t).end = s.end
    BY ClearedFields DEF TypeOK
  <2> QED BY <2>1, <2>2 DEF NoOverlapInJob, Apart
<1>3. ASSUME NEW j \in Job, Commits(j)
      PROVE  NoOverlapInJob'
  <2> DEFINE new == {Published(j, x) : x \in job[j].made}
  <2>1. slots' = slots \cup new /\ job[j].pc = "filling"
    BY <1>3, CommitMoves
  <2>2. \A s \in slots : s.job # j
    BY <2>1 DEF PublishedOnce
  <2>3. \A s \in new : \E x \in job[j].made :
            s = Published(j, x) /\ s.job = j
            /\ s.day = x.day /\ s.start = x.start /\ s.end = x.end
    BY PublishedType
  <2>4. \A s \in new : s.start < s.end /\ s.end <= DayLen
    BY <2>3 DEF LoopInv
  <2>5. \A s1, s2 \in new : s1 # s2 => Apart(s1, s2)
    BY <2>3 DEF LoopInv, Apart
  <2> HIDE DEF new
  <2>6. \A s1, s2 \in slots' : s1.job = s2.job /\ s1 # s2 => Apart(s1, s2)
    BY <2>1, <2>2, <2>3, <2>5 DEF NoOverlapInJob
  <2> QED BY <2>1, <2>4, <2>6 DEF NoOverlapInJob, Apart
<1> QED BY <1>1, <1>2, <1>3, StepKinds, TemplateWritten, GenerateMoves, InsertMoves,
           NextDayMoves, AbortMoves DEF vars

LEMMA TemplateKept ==
    ASSUME GenerationInv, [Next]_vars
    PROVE  TemplateOfSlotExists'
<1> USE DEF GenerationInv
<1>0. \A s \in slots : s.template \in Template \cup {NoTemplate}
  BY DEF TypeOK, SlotRow
<1>1. ASSUME NEW t \in Template, NEW row \in Row,
             CreateTemplate(t, row) \/ UpdateTemplate(t, row)
      PROVE  TemplateOfSlotExists'
  <2>1. \A j \in Job : job[j].made # {} => job[j].template \in Template
    BY DEF LoopInv
  <2> QED BY <1>0, <1>1, <2>1, TemplateWritten DEF TemplateOfSlotExists
<1>2. ASSUME NEW t \in Template, DeleteTemplate(t)
      PROVE  TemplateOfSlotExists'
  <2>1. \A j \in Job : job[j].made # {} => job[j].template \in Template \ {t}
    BY <1>2, TemplateDeleted DEF LoopInv
  <2>2. \A s \in slots : /\ Cleared(s, t).template # t
                         /\ Cleared(s, t).template \in {s.template, NoTemplate}
    BY ClearedFields DEF TypeOK
  <2> QED BY <1>0, <1>2, <2>1, <2>2, TemplateDeleted DEF TemplateOfSlotExists
<1>3. ASSUME NEW j \in Job, UNCHANGED <<templates, slots>>,
             \A i \in Job : i # j => job'[i] = job[i],
             job'[j].made # {} => templates[job'[j].template] # NoRow
      PROVE  TemplateOfSlotExists'
  BY <1>3 DEF TemplateOfSlotExists
<1>4. ASSUME NEW j \in Job, NEW t \in minted \cup {NoTemplate}, NEW w \in Window,
             Generate(j, t, w)
      PROVE  TemplateOfSlotExists'
  BY <1>3, <1>4, GenerateMoves
<1>5. ASSUME NEW j \in Job, InsertSlot(j)
      PROVE  TemplateOfSlotExists'
  <2>1. job'[j].made # {} => templates[job'[j].template] # NoRow
    BY <1>5, InsertMoves
  <2> QED BY <1>3, <1>5, <2>1, InsertMoves
<1>6. ASSUME NEW j \in Job, NextDay(j)
      PROVE  TemplateOfSlotExists'
  BY <1>3, <1>6, NextDayMoves DEF TemplateOfSlotExists
<1>7. ASSUME NEW j \in Job, Commits(j)
      PROVE  TemplateOfSlotExists'
  <2>1. \A x \in job[j].made : /\ Published(j, x).template = job[j].template
                               /\ templates[job[j].template] # NoRow
    BY DEF Published, TemplateOfSlotExists
  <2> QED BY <1>7, <2>1, CommitMoves DEF TemplateOfSlotExists
<1>8. ASSUME NEW j \in Job, Abort(j)
      PROVE  TemplateOfSlotExists'
  BY <1>3, <1>8, AbortMoves, RollBackMoves
<1>9. CASE UNCHANGED vars
  BY <1>9 DEF vars, TemplateOfSlotExists
<1> QED BY <1>1, <1>2, <1>4, <1>5, <1>6, <1>7, <1>8, <1>9, StepKinds

LEMMA GenerationKept ==
    ASSUME GenerationInv, [Next]_vars
    PROVE  GenerationInv'
BY TypeKept, LoopKept, ServedLoopKept, JobServedKept, PublishedKept, OverlapKept, TemplateKept
   DEF GenerationInv

\* Whatever clients send and however the jobs and the template endpoints
\* interleave: types, loops, disjoint slots and the foreign key of slots.
THEOREM GenerationCorrect == Spec => []GenerationInv
<1>1. GenerationInv /\ [Next]_vars => GenerationInv'
  BY GenerationKept
<1> QED BY <1>1, GenerationInit, PTL DEF Spec

\* The slots of one request never overlap.
THEOREM JobsDoNotOverlap == Spec => []NoOverlapInJob
<1>1. GenerationInv => NoOverlapInJob
  BY DEF GenerationInv
<1> QED BY <1>1, GenerationCorrect, PTL

\* No slot names a template that was deleted, though templates may be deleted
\* while a job that has read them is inserting.
THEOREM SlotTemplatesExist == Spec => []TemplateOfSlotExists
<1>1. GenerationInv => TemplateOfSlotExists
  BY DEF GenerationInv
<1> QED BY <1>1, GenerationCorrect, PTL

-----------------------------------------------------------------------------
(* The days that the code serves and those that were asked for.            *)

\* The end of no window is given in a zone ahead of the zone of its start.
EndNotAhead == \A w \in Window : w.to.off <= w.from.off

\* Both ends of each window are given in one zone.
OneZoneEach == \A w \in Window : w.to.off = w.from.off

LEMMA ProductGrows ==
    ASSUME NEW a \in Int, NEW b \in Int, a >= b + 1
    PROVE  a * DayLen >= b * DayLen + DayLen
<1> DEFINE D == DayLen
<1>1. D \in Nat /\ D > 0
  BY GenerationAssumption DEF GenerationAssumption
<1> HIDE DEF D
<1>2. (a - (b + 1)) * D >= 0
  BY <1>1
<1>3. (a - (b + 1)) * D = a * D - (b * D + D)
  BY <1>1
<1>4. a * D \in Int /\ b * D \in Int
  BY <1>1
<1>5. a * D >= b * D + D
  BY <1>1, <1>2, <1>3, <1>4
<1> QED BY <1>5 DEF D

LEMMA WindowNumbers ==
    ASSUME NEW w \in Window
    PROVE  /\ w.from.date \in Nat /\ w.from.tod \in Nat /\ w.from.tod < DayLen /\ w.from.off \in Int
           /\ w.to.date \in Nat /\ w.to.tod \in Nat /\ w.to.tod < DayLen /\ w.to.off \in Int
           /\ DayLen \in Nat /\ DayLen > 0
           /\ \A n \in Nat : n * DayLen \in Nat
<1>1. w \in Request /\ DayLen \in Nat /\ DayLen > 0
  BY GenerationAssumption DEF GenerationAssumption
<1>2. w.from \in Moment /\ w.to \in Moment
  BY <1>1 DEF Request
<1>3. \A m \in Moment : m.date \in Nat /\ m.tod \in Nat /\ m.tod < DayLen /\ m.off \in Int
  BY <1>1 DEF Moment
<1> QED BY <1>1, <1>2, <1>3

\* The loops begin on the later of the two first days.
LEMMA FirstDayIs ==
    ASSUME NEW row \in Row, NEW w \in Window
    PROVE  FirstDay(row, w) = IF w.from.date < row.first THEN row.first ELSE w.from.date
<1>1. /\ w.from.date \in Nat /\ w.from.tod \in Nat /\ w.from.tod < DayLen /\ w.from.off \in Int
      /\ DayLen \in Nat /\ \A n \in Nat : n * DayLen \in Nat
  BY WindowNumbers
<1>2. row.first \in Nat
  BY RowFields
<1>3. w.from.date * DayLen \in Nat /\ row.first * DayLen \in Nat
  BY <1>1, <1>2
<1>4. Before(w.from, TplStart(row, w)) <=>
          w.from.date * DayLen + w.from.tod < row.first * DayLen
  BY <1>1, <1>2, <1>3 DEF Before, Instant, TplStart
<1>5. CASE w.from.date < row.first
  <2>1. row.first * DayLen >= w.from.date * DayLen + DayLen
    BY <1>1, <1>2, <1>5, ProductGrows
  <2>2. Before(w.from, TplStart(row, w))
    BY <1>1, <1>3, <1>4, <2>1
  <2> QED BY <1>5, <2>2 DEF FirstDay, GenFrom, TplStart
<1>6. CASE w.from.date = row.first
  <2>1. ~Before(w.from, TplStart(row, w))
    BY <1>1, <1>3, <1>4, <1>6
  <2> QED BY <1>2, <1>6, <2>1 DEF FirstDay, GenFrom
<1>7. CASE w.from.date > row.first
  <2>1. w.from.date * DayLen >= row.first * DayLen + DayLen
    BY <1>1, <1>2, <1>7, ProductGrows
  <2>2. ~Before(w.from, TplStart(row, w))
    BY <1>1, <1>3, <1>4, <2>1
  <2>3. ~(w.from.date < row.first)
    BY <1>1, <1>2, <1>7
  <2> QED BY <2>2, <2>3 DEF FirstDay, GenFrom
<1> QED BY <1>1, <1>2, <1>5, <1>6, <1>7

\* A day has begun in a zone by the moment m if it is not after m's date there.
LEMMA DateInIs ==
    ASSUME NEW w \in Window, NEW off \in Int, NEW d \in Nat
    PROVE  d <= DateIn(w.to, off) <=> d * DayLen <= Instant(w.to) + off
<1> DEFINE D == DayLen
           n == Instant(w.to) + off
           q == n \div D
           z == n % D
<1>1. D \in Nat /\ D > 0 /\ n \in Int
  <2>1. /\ w.to.date * DayLen \in Nat /\ w.to.tod \in Nat /\ w.to.off \in Int
        /\ DayLen \in Nat /\ DayLen > 0
    BY WindowNumbers
  <2> QED BY <2>1 DEF Instant
<1>2. DateIn(w.to, off) = q
  BY DEF DateIn
<1> HIDE DEF D, n
<1>3. n = D * q + z /\ z \in 0 .. D - 1 /\ q \in Int
  BY <1>1, SMT
<1>4. q * D = D * q /\ q * D \in Int /\ d * D \in Int
  BY <1>1, <1>3, SMT
<1> HIDE DEF q, z
<1>5. CASE d <= q
  <2>1. (q - d) * D >= 0
    BY <1>1, <1>3, <1>5, SMT
  <2>2. (q - d) * D = q * D - d * D
    BY <1>1, <1>3, SMT
  <2>3. d * D <= n
    BY <1>1, <1>3, <1>4, <2>1, <2>2
  <2> QED BY <1>2, <1>5, <2>3 DEF n, D
<1>6. CASE ~(d <= q)
  <2>1. d >= q + 1
    BY <1>3, <1>6
  <2>2. d * D >= q * D + D
    BY <1>3, <2>1, ProductGrows DEF D
  <2>3. ~(d * D <= n)
    BY <1>1, <1>3, <1>4, <2>2
  <2> QED BY <1>2, <1>6, <2>3 DEF n, D
<1> QED BY <1>5, <1>6

\* Unless "to" is ahead of "from", the loops end by the template's last day
\* and by the date that "to" has in the zone of "from".
LEMMA LastDayIs ==
    ASSUME NEW row \in Row, NEW w \in Window, w.to.off <= w.from.off
    PROVE  /\ LastDay(row, w) <= row.last
           /\ LastDay(row, w) <= DateIn(w.to, w.from.off)
<1> DEFINE last == row.last * DayLen
           to == w.to.date * DayLen
<1>1. /\ w.to.date \in Nat /\ w.to.tod \in Nat /\ w.to.tod < DayLen /\ w.to.off \in Int
      /\ w.from.off \in Int /\ DayLen \in Nat /\ DayLen > 0
      /\ row.last \in Nat /\ last \in Nat /\ to \in Nat
  BY WindowNumbers, RowFields
<1>2. Before(TplEnd(row, w), w.to) <=>
          last + (DayLen - 1) - w.from.off < to + w.to.tod - w.to.off
  BY DEF Before, Instant, TplEnd
<1>3. LastDay(row, w) = IF Before(TplEnd(row, w), w.to) THEN row.last ELSE w.to.date
  BY DEF LastDay, GenTo, TplEnd
<1>4. Instant(w.to) + w.from.off = to + w.to.tod - w.to.off + w.from.off
  BY DEF Instant
<1>5. ASSUME w.to.date > row.last
      PROVE  to >= last + DayLen
  <2>1. w.to.date >= row.last + 1 /\ w.to.date \in Int /\ row.last \in Int
    BY <1>1, <1>5
  <2> QED BY <2>1, ProductGrows
<1> HIDE DEF last, to
<1>6. CASE Before(TplEnd(row, w), w.to)
  <2>1. last <= Instant(w.to) + w.from.off
    BY <1>1, <1>2, <1>4, <1>6
  <2>2. row.last <= DateIn(w.to, w.from.off)
    BY <1>1, <2>1, DateInIs DEF last
  <2> QED BY <1>1, <1>3, <1>6, <2>2
<1>7. CASE ~Before(TplEnd(row, w), w.to)
  <2>1. to <= Instant(w.to) + w.from.off
    BY <1>1, <1>4
  <2>2. w.to.date <= DateIn(w.to, w.from.off)
    BY <1>1, <2>1, DateInIs DEF to
  <2>3. ~(w.to.date > row.last)
    BY <1>1, <1>2, <1>5, <1>7
  <2> QED BY <1>1, <1>3, <1>7, <2>2, <2>3
<1> QED BY <1>6, <1>7

\* In one zone they go on till then.
LEMMA LastDayReached ==
    ASSUME NEW row \in Row, NEW w \in Window, w.to.off = w.from.off,
           NEW d \in Nat, d <= row.last, d <= DateIn(w.to, w.from.off)
    PROVE  d <= LastDay(row, w)
<1> DEFINE to == w.to.date * DayLen
<1>1. /\ w.to.date \in Nat /\ w.to.tod \in Nat /\ w.to.tod < DayLen /\ w.to.off \in Int
      /\ DayLen \in Nat /\ to \in Nat /\ d * DayLen \in Nat
  BY WindowNumbers
<1>2. d * DayLen <= to + w.to.tod
  <2>1. Instant(w.to) + w.from.off = to + w.to.tod
    BY <1>1 DEF Instant
  <2>2. w.from.off \in Int
    BY WindowNumbers
  <2> QED BY <2>1, <2>2, DateInIs
<1>3. d > w.to.date => d * DayLen >= to + DayLen
  BY <1>1, ProductGrows
<1> HIDE DEF to
<1>4. d <= w.to.date
  BY <1>1, <1>2, <1>3
<1> QED BY <1>4 DEF LastDay, GenTo, TplEnd

\* Of what was asked for the code serves nothing else, and in one zone all.
LEMMA ServedIsPlanned ==
    ASSUME NEW row \in Row, row.dur > 0, NEW w \in Window
    PROVE  /\ w.to.off <= w.from.off => Served(row, w) \subseteq Planned(row, w)
           /\ w.to.off = w.from.off => Served(row, w) = Planned(row, w)
<1> DEFINE days == FirstDay(row, w) .. LastDay(row, w)
<1>1. /\ FirstDay(row, w) \in Nat /\ LastDay(row, w) \in Nat
      /\ row.first \in Nat /\ row.last \in Nat /\ w.from.date \in Nat
      /\ w.from.off \in Int /\ w.to.off \in Int
  BY DaysType, RowFields, WindowNumbers
<1>2. /\ FirstDay(row, w) >= row.first /\ FirstDay(row, w) >= w.from.date
      /\ FirstDay(row, w) \in {row.first, w.from.date}
  BY <1>1, FirstDayIs
<1>3. \A d \in PlannedDays(row, w) :
          /\ d \in Nat /\ row.first <= d /\ d <= row.last
          /\ w.from.date <= d /\ d <= DateIn(w.to, w.from.off)
  BY <1>1 DEF PlannedDays
<1>4. days \in SUBSET Nat /\ PlannedDays(row, w) \in SUBSET Nat
  BY <1>1, <1>3
<1>5. ASSUME w.to.off <= w.from.off
      PROVE  days \subseteq PlannedDays(row, w)
  <2>1. LastDay(row, w) <= row.last /\ LastDay(row, w) <= DateIn(w.to, w.from.off)
    BY <1>5, LastDayIs
  <2>2. DateIn(w.to, w.from.off) \in Int
    <3>1. Instant(w.to) + w.from.off \in Int /\ DayLen \in Nat /\ DayLen > 0
      BY WindowNumbers DEF Instant
    <3> QED BY <3>1, SMT DEF DateIn
  <2> SUFFICES ASSUME NEW d \in days
               PROVE  d \in PlannedDays(row, w)
    OBVIOUS
  <2>3. d \in Nat /\ FirstDay(row, w) <= d /\ d <= LastDay(row, w)
    BY <1>1
  <2>4. /\ d \in row.first .. row.last /\ w.from.date <= d
        /\ d <= DateIn(w.to, w.from.off)
    BY <1>1, <1>2, <2>1, <2>2, <2>3
  <2> QED BY <2>4 DEF PlannedDays
<1>6. ASSUME w.to.off = w.from.off
      PROVE  PlannedDays(row, w) \subseteq days
  <2> SUFFICES ASSUME NEW d \in PlannedDays(row, w)
               PROVE  d \in days
    OBVIOUS
  <2>1. d \in Nat /\ d <= LastDay(row, w)
    BY <1>3, <1>6, LastDayReached
  <2>2. FirstDay(row, w) <= d
    BY <1>1, <1>2, <1>3
  <2> QED BY <1>1, <2>1, <2>2
<1>7. ASSUME NEW A \in SUBSET Nat, NEW B \in SUBSET Nat, A \subseteq B
      PROVE  WholeSlots(row, A) \subseteq WholeSlots(row, B)
  BY <1>7 DEF WholeSlots
<1>8. w.to.off = w.from.off => w.to.off <= w.from.off
  BY <1>1
<1> HIDE DEF days
<1> QED BY <1>4, <1>5, <1>6, <1>7, <1>8 DEF Served, Planned, days

\* All or nothing: when both ends of every window are in one zone, an accepted
\* job has published exactly the slots of the template as it read it, whatever
\* became of the template since; so has a job answered 500 that was cut off
\* while it committed, and any other job has published none.
THEOREM JobsAreComplete ==
    ASSUME OneZoneEach
    PROVE  Spec => []JobComplete
<1>1. GenerationInv => JobComplete
  <2> SUFFICES ASSUME GenerationInv, NEW j \in Job, job[j].pc \in Committed
               PROVE  Served(job[j].row, job[j].window) = Planned(job[j].row, job[j].window)
    BY DEF GenerationInv, LoopInv, JobServed, JobComplete
  <2>1. job[j].row \in Row /\ job[j].row.dur > 0 /\ job[j].window \in Window
    BY DEF GenerationInv, LoopServed, WentAhead, Usable
  <2> QED BY <2>1, ServedIsPlanned DEF OneZoneEach
<1> QED BY <1>1, GenerationCorrect, PTL

\* With an end that is given in a zone behind the start's, days may be missing
\* but there is never a slot nobody asked for.
THEOREM JobsAddNothing ==
    ASSUME EndNotAhead
    PROVE  Spec => [](\A j \in Job : TimesOf(j) # {} =>
                          TimesOf(j) \subseteq Planned(job[j].row, job[j].window))
<1>1. GenerationInv =>
          \A j \in Job : TimesOf(j) # {} =>
              TimesOf(j) \subseteq Planned(job[j].row, job[j].window)
  <2> SUFFICES ASSUME GenerationInv, NEW j \in Job, TimesOf(j) # {}
               PROVE  TimesOf(j) \subseteq Planned(job[j].row, job[j].window)
    OBVIOUS
  <2>1. /\ job[j].pc \in Committed
        /\ TimesOf(j) = Served(job[j].row, job[j].window)
    BY DEF GenerationInv, JobServed
  <2>2. job[j].row \in Row /\ job[j].row.dur > 0 /\ job[j].window \in Window
    BY <2>1 DEF GenerationInv, LoopServed, WentAhead, Usable
  <2> QED BY <2>1, <2>2, ServedIsPlanned DEF EndNotAhead
<1> QED BY <1>1, GenerationCorrect, PTL

\* No slot falls outside the dates of the template its job has read, as long
\* as no client gives the end of its window in a zone ahead of the start's.
THEOREM SlotsWithinDates ==
    ASSUME EndNotAhead
    PROVE  Spec => []WithinTemplateDates
<1>1. GenerationInv => WithinTemplateDates
  <2> SUFFICES ASSUME GenerationInv, NEW s \in slots
               PROVE  s.day \in job[s.job].row.first .. job[s.job].row.last
    BY DEF WithinTemplateDates
  <2> DEFINE j == s.job
             row == job[j].row
             w == job[j].window
             x == [day |-> s.day, start |-> s.start, end |-> s.end]
             days == FirstDay(row, w) .. LastDay(row, w)
  <2>1. j \in Job /\ job[j].pc \in Committed
    BY DEF GenerationInv, TypeOK, SlotRow, PublishedOnce
  <2>2. x \in TimesOf(j)
    BY DEF TimesOf
  <2>3. x \in WholeSlots(row, days)
    BY <2>1, <2>2 DEF GenerationInv, JobServed, Served
  <2>4. row \in Row /\ row.dur > 0 /\ w \in Window
    BY <2>1 DEF GenerationInv, LoopServed, WentAhead, Usable
  <2>5. /\ days \in SUBSET Nat /\ FirstDay(row, w) \in Nat /\ LastDay(row, w) \in Nat
        /\ row.first \in Nat /\ row.last \in Nat
    BY <2>4, DaysType, RowFields
  <2>6. FirstDay(row, w) >= row.first /\ LastDay(row, w) <= row.last
    BY <2>4, <2>5, FirstDayIs, LastDayIs, WindowNumbers DEF EndNotAhead
  <2>7. x.day \in days
    BY <2>3, <2>4, <2>5, WholeSlotsAre
  <2> QED BY <2>5, <2>6, <2>7
<1> QED BY <1>1, GenerationCorrect, PTL

-----------------------------------------------------------------------------
(* The jobs, insert by insert, implement SlotPlan.                         *)

\* The order of moments that start and end a day, in the zone of "from".
LEMMA DaysOverlap ==
    ASSUME NEW row \in Row, NEW w \in Window, w.to.off = w.from.off,
           ~Before(w.to, w.from), NEW d \in PlannedDays(row, w)
    PROVE  ~Before(GenTo(row, w), GenFrom(row, w))
<1> DEFINE first == row.first * DayLen
           last == row.last * DayLen
           from == w.from.date * DayLen
<1>1. /\ w.from.date \in Nat /\ w.from.tod \in Nat /\ w.from.tod < DayLen
      /\ w.from.off \in Int /\ DayLen \in Nat /\ DayLen > 0
      /\ row.first \in Nat /\ row.last \in Nat
      /\ first \in Nat /\ last \in Nat /\ from \in Nat
  BY WindowNumbers, RowFields
<1>2. /\ d \in Nat /\ row.first <= d /\ d <= row.last
      /\ w.from.date <= d /\ d <= DateIn(w.to, w.from.off)
  BY <1>1 DEF PlannedDays
<1>3. Instant(w.to) \in Int /\ Instant(w.from) = from + w.from.tod - w.from.off
  <2>1. /\ w.to.date * DayLen \in Nat /\ w.to.tod \in Nat /\ w.to.off \in Int
    BY WindowNumbers
  <2> QED BY <2>1 DEF Instant
<1>4. /\ Instant(TplStart(row, w)) = first - w.from.off
      /\ Instant(TplEnd(row, w)) = last + (DayLen - 1) - w.from.off
  BY <1>1 DEF Instant, TplStart, TplEnd
<1>5. /\ GenFrom(row, w) \in {TplStart(row, w), w.from}
      /\ GenTo(row, w) \in {TplEnd(row, w), w.to}
  BY DEF GenFrom, GenTo
<1>6. ASSUME NEW a \in Nat, NEW b \in Nat, a <= b
      PROVE  a * DayLen <= b * DayLen
  <2>1. CASE a = b
    BY <2>1, WindowNumbers
  <2>2. CASE b >= a + 1
    <3>1. b * DayLen >= a * DayLen + DayLen
      BY <2>2, ProductGrows
    <3> QED BY <1>1, <3>1, WindowNumbers
  <2> QED BY <1>6, <2>1, <2>2
<1>7. first <= last /\ from <= last /\ first <= d * DayLen /\ d * DayLen \in Nat
  <2>1. row.first <= row.last /\ w.from.date <= row.last
    BY <1>1, <1>2
  <2> QED BY <1>1, <1>2, <1>6, <2>1, WindowNumbers
<1>8. d * DayLen <= Instant(w.to) + w.from.off
  BY <1>1, <1>2, DateInIs
<1> HIDE DEF first, last, from
<1>9. ~(Instant(GenTo(row, w)) < Instant(GenFrom(row, w)))
  <2>1. ~(Instant(TplEnd(row, w)) < Instant(TplStart(row, w)))
    BY <1>1, <1>4, <1>7
  <2>2. ~(Instant(TplEnd(row, w)) < Instant(w.from))
    BY <1>1, <1>3, <1>4, <1>7
  <2>3. ~(Instant(w.to) < Instant(TplStart(row, w)))
    BY <1>1, <1>3, <1>4, <1>7, <1>8
  <2>4. ~(Instant(w.to) < Instant(w.from))
    BY DEF Before
  <2> QED BY <1>5, <2>1, <2>2, <2>3, <2>4
<1> QED BY <1>9 DEF Before

\* What is due is what a job that goes ahead serves, and nothing otherwise.
LEMMA NothingDue ==
    ASSUME OneZoneEach, NEW row \in Row \cup {NoRow}, NEW w \in Window,
           \/ w.form # "rfc3339" \/ Before(w.to, w.from)
           \/ ~Usable(row, w)
    PROVE  Due(row, w) = {}
<1> SUFFICES ASSUME row \in Row, ~Before(w.to, w.from), row.dur > 0,
                    Before(GenTo(row, w), GenFrom(row, w))
             PROVE  Planned(row, w) = {}
  BY DEF Due, Usable
<1>1. PlannedDays(row, w) = {}
  BY DaysOverlap DEF OneZoneEach
<1>2. PlannedDays(row, w) \in SUBSET Nat
  BY <1>1
<1> QED BY <1>1, <1>2, WholeSlotsAre DEF Planned

LEMMA ServedIsDue ==
    ASSUME OneZoneEach, NEW j \in Job, WentAhead(j)
    PROVE  Due(job[j].row, job[j].window) = Served(job[j].row, job[j].window)
<1>1. job[j].row \in Row /\ job[j].row.dur > 0 /\ job[j].window \in Window
  BY DEF WentAhead, Usable
<1>2. Due(job[j].row, job[j].window) = Planned(job[j].row, job[j].window)
  BY DEF Due, WentAhead, Usable
<1> QED BY <1>1, <1>2, ServedIsPlanned DEF OneZoneEach

LEMMA PlanInit == Init => Plan!Init
BY DEF Init, Plan!Init, Stage, StageOf, NewJob, Due

\* A step about one job moves one stage.
LEMMA StageMoves ==
    ASSUME NEW j \in Job, \A i \in Job : i # j => job'[i] = job[i]
    PROVE  Stage' = [Stage EXCEPT ![j] =
               [at |-> StageOf(job'[j].pc), template |-> job'[j].template,
                due |-> Due(job'[j].row, job'[j].window)]]
BY DEF Stage

LEMMA PlanGivesUp ==
    ASSUME TypeOK, NEW j \in Job, RollBack(j), job[j].pc = "filling",
           UNCHANGED <<templates, minted, slots>>,
           j \in Faulty \/ Plan!RowOf(job[j].template) = NoRow
    PROVE  Plan!Next
<1>1. /\ \A i \in Job : i # j => job'[i] = job[i]
      /\ job'[j].pc = "rolled_back" /\ job'[j].template = job[j].template
      /\ job'[j].row = job[j].row /\ job'[j].window = job[j].window
  BY RollBackMoves
<1>2. Stage' = [Stage EXCEPT ![j].at = "failed"]
  BY <1>1, StageMoves DEF Stage, StageOf
<1>3. Stage[j].at = "asked" /\ Stage[j].template = job[j].template
  BY DEF Stage, StageOf
<1>4. Plan!GiveUp(j)
  BY <1>2, <1>3 DEF Plan!GiveUp
<1> QED BY <1>4 DEF Plan!Next

LEMMA PlanNext ==
    ASSUME OneZoneEach, GenerationInv, [Next]_vars
    PROVE  [Plan!Next]_(Plan!planVars)
<1> USE DEF GenerationInv, Plan!planVars
<1>1. ASSUME NEW t \in Template, NEW row \in Row,
             CreateTemplate(t, row) \/ UpdateTemplate(t, row)
      PROVE  Plan!Next
  <2>1. Stage' = Stage
    BY <1>1 DEF CreateTemplate, UpdateTemplate, Stage
  <2>2. Plan!Create(t, row) \/ Plan!Update(t, row)
    BY <1>1, <2>1 DEF CreateTemplate, UpdateTemplate, Plan!Create, Plan!Update
  <2> QED BY <2>2 DEF Plan!Next
<1>2. ASSUME NEW t \in Template, DeleteTemplate(t)
      PROVE  Plan!Next
  <2>1. Stage' = Stage
    BY <1>2 DEF DeleteTemplate, Stage
  <2>2. Plan!Delete(t)
    BY <1>2, <2>1 DEF DeleteTemplate, Plan!Delete
  <2> QED BY <2>2 DEF Plan!Next
<1>3. ASSUME NEW j \in Job, NEW t \in minted \cup {NoTemplate}, NEW w \in Window,
             Generate(j, t, w)
      PROVE  Plan!Next
  <2> DEFINE row == TemplateRead(t)
             due == Due(row, w)
             at == StageOf(job'[j].pc)
  <2>1. /\ \A i \in Job : i # j => job'[i] = job[i]
        /\ job[j].pc = "new" /\ job'[j].pc \in {"filling", "refused", "panicked"}
        /\ job'[j].template = t /\ job'[j].row = row /\ job'[j].window = w
        /\ UNCHANGED <<templates, minted, slots>>
        /\ job'[j].pc # "filling" =>
               \/ w.form # "rfc3339" \/ Before(w.to, w.from)
               \/ ~Usable(row, w)
    BY <1>3, GenerateMoves
  <2>2. row \in Row \cup {NoRow} /\ row = Plan!RowOf(t)
    BY DEF TypeOK, TemplateRead, Plan!RowOf
  <2>3. Stage[j].at = "new"
    BY <2>1 DEF Stage, StageOf
  <2>4. at \in {"asked", "failed"} /\ (at = "failed" => job'[j].pc # "filling")
    BY <2>1 DEF StageOf
  <2> HIDE DEF row, at
  <2>5. at = "failed" => due = {}
    BY <2>1, <2>2, <2>4, NothingDue
  <2>6. Stage' = [Stage EXCEPT ![j] = [at |-> at, template |-> t, due |-> due]]
    BY <2>1, StageMoves DEF at
  <2>7. due = Due(Plan!RowOf(t), w)
    BY <2>2
  <2> HIDE DEF due
  <2>8. Plan!Ask(j, t, w)
    BY <2>1, <2>3, <2>4, <2>5, <2>6, <2>7 DEF Plan!Ask
  <2> QED BY <2>8 DEF Plan!Next
<1>4. ASSUME NEW j \in Job, InsertSlot(j)
      PROVE  [Plan!Next]_(Plan!planVars)
  <2>1. job[j].pc = "filling" /\ job[j].template \in Template
    BY <1>4 DEF InsertSlot, SlotFits, DaysLeft, LoopInv
  <2>2. CASE templates[job[j].template] = NoRow /\ RollBack(j)
    <3>1. Plan!RowOf(job[j].template) = NoRow
      BY <2>1, <2>2 DEF Plan!RowOf
    <3> QED BY <1>4, <2>1, <2>2, <3>1, PlanGivesUp DEF InsertSlot
  <2>3. CASE ~(templates[job[j].template] = NoRow)
    <3>1. /\ \A i \in Job : i # j => job'[i] = job[i]
          /\ job'[j].pc = job[j].pc /\ job'[j].template = job[j].template
          /\ job'[j].row = job[j].row /\ job'[j].window = job[j].window
      <4>1. job' = [job EXCEPT ![j].made = @ \cup {NextTimes(j)},
                               ![j].time = @ + job[j].row.dur]
        BY <1>4, <2>3 DEF InsertSlot
      <4> QED BY <4>1 DEF TypeOK, JobState
    <3>2. Stage' = Stage
      BY <3>1 DEF Stage
    <3> QED BY <1>4, <3>2 DEF InsertSlot
  <2> QED BY <1>4, <2>2, <2>3 DEF InsertSlot
<1>5. ASSUME NEW j \in Job, NextDay(j)
      PROVE  UNCHANGED Plan!planVars
  <2>1. Stage' = Stage
    BY <1>5, NextDayMoves DEF Stage
  <2> QED BY <1>5, <2>1 DEF NextDay
<1>6. ASSUME NEW j \in Job, Commits(j)
      PROVE  Plan!Next
  <2>1. /\ slots' = slots \cup {Published(j, x) : x \in job[j].made}
        /\ job[j].pc = "filling" /\ job'[j].pc \in Committed
        /\ job'[j].template = job[j].template
        /\ job'[j].row = job[j].row /\ job'[j].window = job[j].window
        /\ \A i \in Job : i # j => job'[i] = job[i]
        /\ UNCHANGED <<templates, minted>>
    BY <1>6, CommitMoves
  <2>2. Stage[j].at = "asked" /\ Stage[j].template = job[j].template
    BY <2>1 DEF Stage, StageOf
  <2>3. Stage[j].due = job[j].made
    <3>1. WentAhead(j)
      BY <2>1 DEF LoopServed
    <3> QED BY <1>6, <3>1, CommitServes, ServedIsDue DEF Stage
  <2>4. \E at \in {"published", "failed"} :
            /\ at = "failed" => j \in Faulty
            /\ Stage' = [Stage EXCEPT ![j].at = at]
    <3> DEFINE at == StageOf(job'[j].pc)
    <3>1. at \in {"published", "failed"} /\ (at = "failed" => j \in Faulty)
      BY <1>6, CommitMoves DEF StageOf
    <3>2. Stage' = [Stage EXCEPT ![j].at = at]
      BY <2>1, StageMoves DEF Stage
    <3> QED BY <3>1, <3>2
  <2>5. \A x \in job[j].made : Published(j, x) = Plan!SlotOf(j, x)
    BY <2>2 DEF Published, Plan!SlotOf
  <2>6. slots' = slots \cup {Plan!SlotOf(j, x) : x \in Stage[j].due}
    BY <2>1, <2>3, <2>5
  <2>7. Stage[j].due # {} => Plan!RowOf(Stage[j].template) # NoRow
    <3>1. job[j].template \in Template
      BY <2>1 DEF LoopInv
    <3> QED BY <2>2, <2>3, <3>1, GenerationAssumption
            DEF GenerationAssumption, TemplateOfSlotExists, Plan!RowOf
  <2>8. Plan!Publish(j)
    BY <2>1, <2>2, <2>4, <2>6, <2>7 DEF Plan!Publish
  <2> QED BY <2>8 DEF Plan!Next
<1>7. ASSUME NEW j \in Job, Abort(j)
      PROVE  Plan!Next
  BY <1>7, PlanGivesUp DEF Abort
<1>8. CASE UNCHANGED vars
  <2>1. Stage' = Stage
    BY <1>8 DEF vars, Stage
  <2> QED BY <1>8, <2>1 DEF vars
<1> QED BY <1>1, <1>2, <1>3, <1>4, <1>5, <1>6, <1>7, <1>8, StepKinds

\* For windows in one zone: however the inserts of jobs interleave with each
\* other and with the template endpoints, every job takes effect at its commit
\* or not at all, with what its template asked for when it was read.
THEOREM GenerationIsAtomic ==
    ASSUME OneZoneEach
    PROVE  Spec => ImplementsPlan
<1>1. GenerationInv /\ [Next]_vars => [Plan!Next]_(Plan!planVars)
  BY PlanNext
<1> QED BY PlanInit, GenerationCorrect, <1>1, PTL DEF Spec, Plan!Spec, ImplementsPlan

-----------------------------------------------------------------------------
(* How long a job runs.                                                    *)

\* What is left of a job: the ticks from the place where its loops stand to the
\* end of the last day, and its commit.
TicksLeft(j) ==
    IF job[j].pc # "filling" THEN 0
    ELSE IF ~DaysLeft(j) THEN 1
    ELSE 1 + (LastDay(job[j].row, job[j].window) - job[j].day) * DayLen
           + (DayLen - job[j].time)

\* The loop over a day never leaves the day.
TimeInDay == \A j \in Job : job[j].pc = "filling" => job[j].time < DayLen

TicksInv == GenerationInv /\ TimeInDay

LEMMA TimeInDayKept ==
    ASSUME TicksInv, [Next]_vars
    PROVE  TimeInDay'
<1> SUFFICES ASSUME NEW j \in Job, job'[j].pc = "filling"
             PROVE  job'[j].time < DayLen
  BY DEF TimeInDay
<1>1. TypeOK /\ LoopInv /\ LoopServed /\ TimeInDay
  BY DEF TicksInv, GenerationInv
<1>2. ASSUME NEW row \in Row
      PROVE  row.start < DayLen
  <2>1. row.start \in 0 .. DayLen - 1 /\ DayLen \in Nat
    BY RowFields, GenerationAssumption DEF GenerationAssumption
  <2> QED BY <2>1
<1>3. ASSUME NEW t \in minted \cup {NoTemplate}, NEW w \in Window, Generate(j, t, w)
      PROVE  job'[j].time < DayLen
  <2>1. TemplateRead(t) \in Row /\ job'[j].time = TemplateRead(t).start
    BY <1>1, <1>3, GenerateMoves
  <2> QED BY <1>2, <2>1
<1>4. CASE InsertSlot(j)
  <2>1. SlotFits(j) /\ job'[j].time = job[j].time + job[j].row.dur
    BY <1>1, <1>4, InsertMoves
  <2> QED BY <1>1, <2>1, NextTimesFit
<1>5. CASE NextDay(j)
  <2>1. job[j].row \in Row /\ job'[j].time = job[j].row.start
    BY <1>1, <1>5, NextDayMoves, LoopNumbers DEF NextDay, DaysLeft
  <2> QED BY <1>2, <2>1
<1>6. CASE Commits(j) \/ Abort(j)
  BY <1>1, <1>6, CommitMoves, AbortMoves, RollBackMoves
<1>7. CASE job'[j] = job[j]
  BY <1>1, <1>7 DEF TimeInDay
<1>8. ASSUME NEW i \in Job, i # j,
             \/ \E t \in minted \cup {NoTemplate}, w \in Window : Generate(i, t, w)
             \/ InsertSlot(i) \/ NextDay(i) \/ Commits(i) \/ Abort(i)
      PROVE  job'[j] = job[j]
  BY <1>1, <1>8, GenerateMoves, InsertMoves, NextDayMoves, CommitMoves, AbortMoves,
     RollBackMoves
<1>9. CASE UNCHANGED job
  BY <1>7, <1>9
<1> QED
  BY <1>1, <1>3, <1>4, <1>5, <1>6, <1>7, <1>8, <1>9, StepKinds, TemplateWritten,
     TemplateDeleted DEF vars

LEMMA TicksType ==
    ASSUME TicksInv, NEW j \in Job
    PROVE  /\ TicksLeft(j) \in Nat
           /\ job[j].pc = "filling" => TicksLeft(j) >= 1
           /\ DaysLeft(j) =>
                 /\ (LastDay(job[j].row, job[j].window) - job[j].day) * DayLen \in Nat
                 /\ job[j].time \in Nat /\ DayLen \in Nat /\ job[j].time < DayLen
                 /\ TicksLeft(j) =
                       1 + (LastDay(job[j].row, job[j].window) - job[j].day) * DayLen
                         + (DayLen - job[j].time)
<1>1. TypeOK /\ LoopServed /\ TimeInDay /\ DayLen \in Nat
  BY GenerationAssumption DEF TicksInv, GenerationInv, GenerationAssumption
<1>2. CASE DaysLeft(j)
  <2> DEFINE k == LastDay(job[j].row, job[j].window) - job[j].day
  <2>1. job[j].pc = "filling" /\ job[j].time < DayLen /\ job[j].time \in Nat
    BY <1>1, <1>2, JobFields DEF DaysLeft, TimeInDay
  <2>2. k \in Nat
    BY <1>1, <1>2, <2>1, LoopNumbers DEF DaysLeft
  <2>3. TicksLeft(j) = 1 + k * DayLen + (DayLen - job[j].time)
    BY <1>2, <2>1 DEF TicksLeft
  <2> HIDE DEF k
  <2>4. \A m, n \in Nat : m * n \in Nat
    OBVIOUS
  <2>5. k * DayLen \in Nat
    BY <1>1, <2>2, <2>4
  <2>6. TicksLeft(j) \in Nat /\ TicksLeft(j) >= 1
    BY <1>1, <2>1, <2>3, <2>5
  <2> QED BY <1>1, <2>1, <2>3, <2>5, <2>6 DEF k
<1>3. CASE ~DaysLeft(j)
  BY <1>3 DEF TicksLeft
<1> QED BY <1>2, <1>3

\* Every statement of a job uses up some of its time.
LEMMA ProceedTakesTicks ==
    ASSUME TicksInv, NEW j \in Job, Proceed(j)
    PROVE  TicksLeft(j)' < TicksLeft(j)
<1>1. TypeOK /\ LoopInv /\ LoopServed /\ DayLen \in Nat
  BY GenerationAssumption DEF TicksInv, GenerationInv, GenerationAssumption
<1>2. job[j].pc = "filling" /\ TicksLeft(j) \in Nat /\ TicksLeft(j) >= 1
  BY TicksType DEF Proceed, InsertSlot, SlotFits, NextDay, Commit, Committing, DaysLeft
<1>3. CASE job'[j].pc # "filling"
  BY <1>2, <1>3 DEF TicksLeft
<1>4. CASE InsertSlot(j) /\ job'[j].pc = "filling"
  <2>1. /\ SlotFits(j) /\ job'[j].day = job[j].day /\ job'[j].row = job[j].row
        /\ job'[j].window = job[j].window
        /\ job'[j].time = job[j].time + job[j].row.dur
    BY <1>1, <1>4, InsertMoves
  <2>2. DaysLeft(j) /\ DaysLeft(j)'
    BY <1>4, <2>1 DEF SlotFits, DaysLeft
  <2>3. job[j].row.dur \in Int /\ job[j].row.dur > 0
    BY <1>1, <2>1, NextTimesFit
  <2> DEFINE rest == (LastDay(job[j].row, job[j].window) - job[j].day) * DayLen
  <2>4. /\ rest \in Nat /\ job[j].time \in Nat
        /\ TicksLeft(j) = 1 + rest + (DayLen - job[j].time)
    BY <2>2, TicksType
  <2>5. TicksLeft(j)' = 1 + rest + (DayLen - job'[j].time)
    BY <1>4, <2>1, <2>2 DEF TicksLeft
  <2> HIDE DEF rest
  <2> QED BY <1>1, <2>1, <2>3, <2>4, <2>5
<1>5. CASE NextDay(j) /\ job'[j].pc = "filling"
  <2> DEFINE k == LastDay(job[j].row, job[j].window) - job[j].day
  <2>1. /\ DaysLeft(j) /\ job'[j].day = job[j].day + 1 /\ job'[j].row = job[j].row
        /\ job'[j].window = job[j].window /\ job'[j].time = job[j].row.start
    BY <1>1, <1>5, NextDayMoves DEF NextDay
  <2>2. /\ k * DayLen \in Nat /\ job[j].time \in Nat /\ job[j].time < DayLen
        /\ TicksLeft(j) = 1 + k * DayLen + (DayLen - job[j].time)
    BY <2>1, TicksType
  <2>3. /\ job[j].day \in Nat /\ LastDay(job[j].row, job[j].window) \in Nat
        /\ job[j].row.start \in Nat
    BY <1>1, <1>2, LoopNumbers
  <2>4. CASE ~DaysLeft(j)'
    <3>1. TicksLeft(j)' = 1
      BY <1>5, <2>4 DEF TicksLeft
    <3> QED BY <1>1, <2>2, <3>1
  <2>5. CASE DaysLeft(j)'
    <3>1. k - 1 = LastDay(job[j].row, job[j].window) - (job[j].day + 1) /\ k \in Int
      BY <2>3
    <3>2. TicksLeft(j)' = 1 + (k - 1) * DayLen + (DayLen - job[j].row.start)
      BY <1>5, <2>1, <2>5, <3>1 DEF TicksLeft
    <3> HIDE DEF k
    <3>3. k * DayLen >= (k - 1) * DayLen + DayLen
      BY <3>1, ProductGrows
    <3>4. (k - 1) * DayLen \in Int
      BY <1>1, <3>1
    <3> QED BY <1>1, <2>2, <2>3, <3>2, <3>3, <3>4
  <2> QED BY <2>4, <2>5
<1>6. Commit(j) => job'[j].pc # "filling"
  BY <1>1, CommitMoves DEF Commits
<1> QED BY <1>3, <1>4, <1>5, <1>6 DEF Proceed

\* Nobody gives a job any time back.
LEMMA TicksNeverGrow ==
    ASSUME TicksInv, [Next]_vars, NEW j \in Job, job[j].pc # "new"
    PROVE  \/ TicksLeft(j)' = TicksLeft(j)
           \/ TicksLeft(j)' < TicksLeft(j)
<1>1. TypeOK /\ LoopInv /\ TicksLeft(j) \in Nat
  BY TicksType DEF TicksInv, GenerationInv
<1>2. CASE job'[j] = job[j]
  BY <1>2 DEF TicksLeft, DaysLeft
<1>3. CASE InsertSlot(j) \/ NextDay(j)
  BY <1>3, ProceedTakesTicks DEF Proceed
<1>8. CASE Commits(j)
  <2>1. job[j].pc = "filling" /\ job'[j].pc \in Committed
    BY <1>1, <1>8, CommitMoves
  <2>2. TicksLeft(j)' = 0 /\ TicksLeft(j) >= 1
    BY <2>1, TicksType DEF TicksLeft
  <2> QED BY <1>1, <2>2
<1>4. CASE Abort(j)
  <2>1. job[j].pc = "filling" /\ job'[j].pc = "rolled_back"
    BY <1>1, <1>4, RollBackMoves DEF Abort
  <2>2. TicksLeft(j)' = 0 /\ TicksLeft(j) >= 1
    BY <2>1, TicksType DEF TicksLeft
  <2> QED BY <1>1, <2>2
<1>5. ASSUME NEW i \in Job, i # j,
             \/ \E t \in minted \cup {NoTemplate}, w \in Window : Generate(i, t, w)
             \/ InsertSlot(i) \/ NextDay(i) \/ Commits(i) \/ Abort(i)
      PROVE  job'[j] = job[j]
  BY <1>1, <1>5, GenerateMoves, InsertMoves, NextDayMoves, CommitMoves, AbortMoves,
     RollBackMoves
<1>6. ASSUME NEW t \in minted \cup {NoTemplate}, NEW w \in Window, Generate(j, t, w)
      PROVE  FALSE
  BY <1>6 DEF Generate
<1>7. CASE UNCHANGED job
  BY <1>2, <1>7
<1> QED
  BY <1>1, <1>2, <1>3, <1>4, <1>5, <1>6, <1>7, <1>8, StepKinds, TemplateWritten,
     TemplateDeleted DEF vars

\* Every step a job takes by itself leaves it fewer ticks, and nothing that
\* anybody else does gives it ticks back, rewriting its template included.
JobsWindDown ==
    \A j \in Job :
        /\ Proceed(j) => TicksLeft(j)' < TicksLeft(j)
        /\ job[j].pc # "new" => TicksLeft(j)' = TicksLeft(j) \/ TicksLeft(j)' < TicksLeft(j)

\* A job has finitely many steps in it: what it has left is a number that each
\* of its loops' turns makes smaller, whatever the duration, times and days of
\* the template, as long as GenerateSlots has found the duration positive.  With
\* the fairness of its steps this is why every job ends.
THEOREM JobsCannotRunForEver ==
    Spec => [](\A j \in Job : TicksLeft(j) \in Nat) /\ [][JobsWindDown]_vars
<1>1. Init => TicksInv
  BY GenerationInit DEF Init, TicksInv, TimeInDay, NewJob
<1>2. TicksInv /\ [Next]_vars => TicksInv'
  BY GenerationKept, TimeInDayKept DEF TicksInv
<1>3. TicksInv => \A j \in Job : TicksLeft(j) \in Nat
  BY TicksType
<1>4. TicksInv /\ [Next]_vars => [JobsWindDown]_vars
  BY ProceedTakesTicks, TicksNeverGrow DEF JobsWindDown
<1> QED BY <1>1, <1>2, <1>3, <1>4, PTL DEF Spec

=============================================================================
