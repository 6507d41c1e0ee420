--------------------------- MODULE SlotGeneration ---------------------------
(***************************************************************************)
(* POST /slots/generate and the availability templates it reads:           *)
(* GenerateSlots and the template methods of internal/service/service.go   *)
(* with their statements in internal/storage/postgres/postgres.go.         *)
(*                                                                         *)
(* A day has DayLen ticks.  A moment is a calendar date and a time of day  *)
(* in a zone that is off ticks ahead of UTC.  The days and times of a      *)
(* slot are read in the zone of its request's "from".  A step is one       *)
(* statement; the rows of a job stay invisible until its transaction       *)
(* commits.  Teachers and the status of a slot are left out: every slot    *)
(* is written "free" for the teacher of the template.                      *)
(***************************************************************************)
EXTENDS Integers, FiniteSets

CONSTANTS
    Job,         \* requests to generate slots
    Template,    \* the UUIDs availability_templates can draw
    Row,         \* the rows that clients write to it
    Window,      \* the pairs from, to that clients send
    DayLen,      \* ticks in a day
    Faulty,      \* jobs that may be cut off
    NoTemplate, NoRow, NoWindow

\* What parseWeekdayFlexible takes for Sunday .. Saturday; the names in full
\* stand for their short forms too.
DaySpelling ==
    << {"0", "7", "sunday"}, {"1", "monday"}, {"2", "tuesday"}, {"3", "wednesday"},
       {"4", "thursday"}, {"5", "friday"}, {"6", "saturday"} >>

\* The texts among days that parse; the others are skipped without an error.
Weekdays(days) == {d \in 0 .. 6 : DaySpelling[d + 1] \cap days # {}}

Weekday(date) == date % 7

TemplateRow ==
    [days : SUBSET STRING, start : 0 .. DayLen - 1, end : 0 .. DayLen - 1,
     dur : Int, first : Nat, last : Nat, enabled : BOOLEAN]

Moment == [date : Nat, tod : 0 .. DayLen - 1, off : Int]

\* form tells an RFC 3339 text from a bare date, which does not parse.
Request == [from : Moment, to : Moment, form : {"rfc3339", "date"}]

ASSUME GenerationAssumption ==
    /\ DayLen \in Nat \ {0}
    /\ Row \subseteq TemplateRow
    /\ Window \subseteq Request
    /\ Faulty \subseteq Job
    /\ NoTemplate \notin Template /\ NoRow \notin TemplateRow /\ NoWindow \notin Request

VARIABLES
    templates,   \* table availability_templates: a row by id, or NoRow
    minted,      \* template ids that were ever drawn
    slots,       \* table slots, with the job that wrote each row
    job          \* each job: what it read, where its loops stand, its own rows

vars == <<templates, minted, slots, job>>

-----------------------------------------------------------------------------
(* Dates.                                                                  *)

Instant(m) == m.date * DayLen + m.tod - m.off

Before(m1, m2) == Instant(m1) < Instant(m2)

\* Midnight of the first and 23:59:59 of the last day of the template, in
\* the zone of "from".
TplStart(row, w) == [date |-> row.first, tod |-> 0, off |-> w.from.off]
TplEnd(row, w) == [date |-> row.last, tod |-> DayLen - 1, off |-> w.from.off]

GenFrom(row, w) == IF Before(w.from, TplStart(row, w)) THEN TplStart(row, w) ELSE w.from

\* Mutant: the end of the window is not cut to the template's.
GenToUncut(row, w) == w.to

GenTo(row, w) == IF Before(TplEnd(row, w), w.to) THEN TplEnd(row, w) ELSE w.to

\* truncateToDate takes the date a moment has in its own zone.
FirstDay(row, w) == GenFrom(row, w).date
LastDay(row, w) == GenTo(row, w).date

\* Mutant: the duration is not checked.
UsableAnyDuration(row, w) ==
    /\ row # NoRow /\ row.enabled
    /\ ~Before(GenTo(row, w), GenFrom(row, w))

\* The template can serve the request: it is there, enabled, active on some
\* day of the window, and has a positive slot duration.
Usable(row, w) ==
    /\ row # NoRow /\ row.enabled
    /\ ~Before(GenTo(row, w), GenFrom(row, w))
    /\ row.dur > 0

-----------------------------------------------------------------------------
(* State.                                                                  *)

Times == [day : Nat, start : 0 .. DayLen, end : 0 .. DayLen]

SlotRow ==
    [job : Job, day : Nat, start : 0 .. DayLen, end : 0 .. DayLen,
     template : Template \cup {NoTemplate}]

\* The job is over with an answer: 202; 500 because the reply of its COMMIT was
\* lost, before the transaction, or after a rollback; or a panic that the
\* Recoverer turns into 500.
Answer == {"accepted", "reply_lost", "refused", "rolled_back", "panicked"}

\* The database has committed the job's transaction.
Committed == {"accepted", "reply_lost"}

JobState ==
    [pc : {"new", "filling"} \cup Answer,
     template : Template \cup {NoTemplate}, row : Row \cup {NoRow},
     window : Window \cup {NoWindow},
     day : Nat, time : Nat, made : SUBSET Times]

NewJob ==
    [pc |-> "new", template |-> NoTemplate, row |-> NoRow, window |-> NoWindow,
     day |-> 0, time |-> 0, made |-> {}]

TypeOK ==
    /\ templates \in [Template -> Row \cup {NoRow}]
    /\ minted \subseteq Template
    /\ slots \subseteq SlotRow
    /\ job \in [Job -> JobState]

Init ==
    /\ templates = [t \in Template |-> NoRow]
    /\ minted = {}
    /\ slots = {}
    /\ job = [j \in Job |-> NewJob]

-----------------------------------------------------------------------------
(* The templates.                                                          *)

CreateTemplate(t, row) ==
    /\ t \notin minted
    /\ minted' = minted \cup {t}
    /\ templates' = [templates EXCEPT ![t] = row]
    /\ UNCHANGED <<slots, job>>

\* One UPDATE of all columns.  The key locks that the inserts of a job hold
\* on the row do not stop it.
UpdateTemplate(t, row) ==
    /\ templates[t] # NoRow
    /\ templates' = [templates EXCEPT ![t] = row]
    /\ UNCHANGED <<minted, slots, job>>

\* An uncommitted slot holds FOR KEY SHARE on its template.
KeyShared(t) == \E j \in Job : job[j].template = t /\ job[j].made # {}

\* Mutant: the foreign key leaves the slots as they are.
DeleteTemplateOnly(t) ==
    /\ templates[t] # NoRow
    /\ ~KeyShared(t)
    /\ templates' = [templates EXCEPT ![t] = NoRow]
    /\ UNCHANGED <<minted, slots, job>>

\* The foreign key of slots is ON DELETE SET NULL.
DeleteTemplate(t) ==
    /\ templates[t] # NoRow
    /\ ~KeyShared(t)
    /\ templates' = [templates EXCEPT ![t] = NoRow]
    /\ slots' = {IF s.template = t THEN [s EXCEPT !.template = NoTemplate] ELSE s :
                    s \in slots}
    /\ UNCHANGED <<minted, job>>

-----------------------------------------------------------------------------
(* GenerateSlots                                                           *)

\* GetAvailabilityTemplate.
TemplateRead(t) == IF t = NoTemplate THEN NoRow ELSE templates[t]

\* t = NoTemplate: the request has a teacher_id only.  The handler lets it
\* pass and the service dereferences the missing template_id.
Generate(j, t, w) ==
    LET row == TemplateRead(t)
        parsed == w.form = "rfc3339" /\ ~Before(w.to, w.from)
        Go(pc, day, time) ==
            job' = [job EXCEPT ![j] =
                [pc |-> pc, template |-> t, row |-> row, window |-> w,
                 day |-> day, time |-> time, made |-> {}]]
    IN
    /\ job[j].pc = "new"
    /\ \/ parsed /\ Usable(row, w) /\ Go("filling", FirstDay(row, w), row.start)
       \/ parsed /\ t = NoTemplate /\ Go("panicked", 0, 0)
       \/ ~parsed /\ Go("refused", 0, 0)
       \/ t # NoTemplate /\ ~Usable(row, w) /\ Go("refused", 0, 0)
    /\ UNCHANGED <<templates, minted, slots>>

DaysLeft(j) ==
    job[j].pc = "filling" /\ job[j].day <= LastDay(job[j].row, job[j].window)

\* Mutant: the last slot of a day may run over its end.
SlotFitsLate(j) ==
    LET row == job[j].row IN
    /\ DaysLeft(j)
    /\ Weekday(job[j].day) \in Weekdays(row.days)
    /\ row.start < row.end
    /\ job[j].time <= row.end

\* The day is one of the template's and another slot ends in time.
SlotFits(j) ==
    LET row == job[j].row IN
    /\ DaysLeft(j)
    /\ Weekday(job[j].day) \in Weekdays(row.days)
    /\ row.start < row.end
    /\ job[j].time + row.dur <= row.end

NextTimes(j) ==
    [day |-> job[j].day, start |-> job[j].time, end |-> job[j].time + job[j].row.dur]

Published(j, x) ==
    [job |-> j, day |-> x.day, start |-> x.start, end |-> x.end,
     template |-> job[j].template]

RollBack(j) == job' = [job EXCEPT ![j].pc = "rolled_back", ![j].made = {}]

\* Mutant: the loop moves on by one tick.
InsertSlotByTick(j) ==
    /\ SlotFits(j)
    /\ \/ /\ templates[job[j].template] # NoRow
          /\ job' = [job EXCEPT ![j].made = @ \cup {NextTimes(j)}, ![j].time = @ + 1]
       \/ /\ templates[job[j].template] = NoRow
          /\ RollBack(j)
    /\ UNCHANGED <<templates, minted, slots>>

\* Mutant: the INSERT is sent outside the transaction.
InsertSlotAlone(j) ==
    /\ SlotFits(j)
    /\ \/ /\ templates[job[j].template] # NoRow
          /\ job' = [job EXCEPT ![j].time = @ + job[j].row.dur]
          /\ slots' = slots \cup {Published(j, NextTimes(j))}
       \/ /\ templates[job[j].template] = NoRow
          /\ RollBack(j)
          /\ UNCHANGED slots
    /\ UNCHANGED <<templates, minted>>

\* CreateSlot.  The foreign key refuses a template that is gone, and the
\* deferred Rollback drops what the job has inserted.
InsertSlot(j) ==
    /\ SlotFits(j)
    /\ \/ /\ templates[job[j].template] # NoRow
          /\ job' = [job EXCEPT ![j].made = @ \cup {NextTimes(j)},
                                ![j].time = @ + job[j].row.dur]
       \/ /\ templates[job[j].template] = NoRow
          /\ RollBack(j)
    /\ UNCHANGED <<templates, minted, slots>>

NextDay(j) ==
    /\ DaysLeft(j) /\ ~SlotFits(j)
    /\ job' = [job EXCEPT ![j].day = @ + 1, ![j].time = job[j].row.start]
    /\ UNCHANGED <<templates, minted, slots>>

\* The database commits the job, whatever tx.Commit then hears of it.
Committing(j, answer) ==
    /\ job[j].pc = "filling" /\ ~DaysLeft(j)
    /\ slots' = slots \cup {Published(j, x) : x \in job[j].made}
    /\ job' = [job EXCEPT ![j].pc = answer, ![j].made = {}]
    /\ UNCHANGED <<templates, minted>>

Commit(j) == Committing(j, "accepted")

\* The connection or the context ends while COMMIT is on its way: tx.Commit
\* returns an error for a transaction that the database commits all the same,
\* and the client gets 500 although the slots are there.  The job counts as
\* over when they are, should the answer leave a little earlier.
CommitReplyLost(j) == j \in Faulty /\ Committing(j, "reply_lost")

\* The client hangs up, BEGIN, a statement or a COMMIT that the database does
\* not carry out fails, or the process dies.
Abort(j) ==
    /\ j \in Faulty
    /\ job[j].pc = "filling"
    /\ RollBack(j)
    /\ UNCHANGED <<templates, minted, slots>>

-----------------------------------------------------------------------------
Proceed(j) == InsertSlot(j) \/ NextDay(j) \/ Commit(j)

Next ==
    \/ \E j \in Job :
          \/ \E t \in minted \cup {NoTemplate}, w \in Window : Generate(j, t, w)
          \/ Proceed(j) \/ CommitReplyLost(j) \/ Abort(j)
    \/ \E t \in Template :
          \/ \E row \in Row : CreateTemplate(t, row) \/ UpdateTemplate(t, row)
          \/ DeleteTemplate(t)

Spec == Init /\ [][Next]_vars

\* A goroutine that has its request goes on by itself.
FairSpec == Spec /\ \A j \in Job : WF_vars(Proceed(j))

-----------------------------------------------------------------------------
(* Properties                                                              *)

\* What the loops amount to: the days of the window, as dates in the zone of
\* "from", within the template's dates, and on each of its weekdays the
\* whole slots that fit between start and end.
DateIn(m, off) == (Instant(m) + off) \div DayLen

\* The whole slots of a row on those of some days that are among its weekdays.
WholeSlots(row, days) ==
    {x \in [day : days, start : row.start .. row.end, end : row.start .. row.end] :
        /\ Weekday(x.day) \in Weekdays(row.days)
        /\ (x.start - row.start) % row.dur = 0
        /\ x.end = x.start + row.dur}

PlannedDays(row, w) ==
    {d \in row.first .. row.last : w.from.date <= d /\ d <= DateIn(w.to, w.from.off)}

Planned(row, w) == WholeSlots(row, PlannedDays(row, w))

\* What the code serves: it takes each end of the window in its own zone.
Served(row, w) == WholeSlots(row, FirstDay(row, w) .. LastDay(row, w))

TimesOf(j) ==
    {[day |-> s.day, start |-> s.start, end |-> s.end] :
        s \in {s \in slots : s.job = j}}

\* All or nothing, whatever the client is told: a job that was accepted has
\* published exactly the slots of the template as it read it, whatever became
\* of the template; a job answered 500 has published all of them if it was cut
\* off while it committed, and else none; a running job has published none.
JobComplete ==
    \A j \in Job :
        /\ TimesOf(j) = IF job[j].pc \in Committed
                        THEN Planned(job[j].row, job[j].window) ELSE {}
        /\ job[j].pc = "reply_lost" => j \in Faulty

\* Two slots of one job never overlap, and none crosses midnight.
Apart(x, y) == x.day # y.day \/ x.end <= y.start \/ y.end <= x.start

NoOverlapInJob ==
    /\ \A s \in slots : s.start < s.end /\ s.end <= DayLen
    /\ \A s1, s2 \in slots : s1.job = s2.job /\ s1 # s2 => Apart(s1, s2)

\* Why: every row a job has made lies before the place where its loops stand.
LoopInv ==
    \A j \in Job :
        /\ job[j].pc = "filling" =>
              job[j].template \in Template /\ job[j].row # NoRow /\ job[j].row.dur > 0
        /\ job[j].pc # "filling" => job[j].made = {}
        /\ job[j].pc = "reply_lost" => j \in Faulty
        /\ \A x \in job[j].made :
              /\ x.start < x.end /\ x.end <= DayLen
              /\ x.day < job[j].day \/ (x.day = job[j].day /\ x.end <= job[j].time)
        /\ \A x, y \in job[j].made : x # y => Apart(x, y)

\* Why a committed job is complete: the request and the row allow it, and what
\* it has made so far is what lies before the place where its loops stand.
WentAhead(j) ==
    /\ job[j].template \in Template /\ job[j].row \in Row /\ job[j].window \in Window
    /\ job[j].window.form = "rfc3339"
    /\ ~Before(job[j].window.to, job[j].window.from)
    /\ Usable(job[j].row, job[j].window)

Passed(j, x) == x.day < job[j].day \/ (x.day = job[j].day /\ x.end <= job[j].time)

LoopServed ==
    \A j \in Job :
        /\ job[j].pc \in {"filling"} \cup Committed => WentAhead(j)
        /\ job[j].pc = "filling" =>
              /\ job[j].day >= FirstDay(job[j].row, job[j].window)
              /\ job[j].time >= job[j].row.start
              /\ (job[j].time - job[j].row.start) % job[j].row.dur = 0
              /\ job[j].made = {x \in Served(job[j].row, job[j].window) : Passed(j, x)}

JobServed ==
    \A j \in Job :
        TimesOf(j) = IF job[j].pc \in Committed
                     THEN Served(job[j].row, job[j].window) ELSE {}

PublishedOnce == \A s \in slots : job[s.job].pc \in Committed

\* A slot names its template or, when that was deleted, none; an insert that
\* has not been committed keeps its template from being deleted.
TemplateOfSlotExists ==
    /\ \A s \in slots : s.template # NoTemplate => templates[s.template] # NoRow
    /\ \A j \in Job : job[j].made # {} => templates[job[j].template] # NoRow

GenerationInv ==
    /\ TypeOK /\ LoopInv /\ LoopServed /\ JobServed /\ PublishedOnce
    /\ NoOverlapInJob /\ TemplateOfSlotExists

\* A slot lies within the dates of the template as its job read it.
WithinTemplateDates ==
    \A s \in slots : s.day \in job[s.job].row.first .. job[s.job].row.last

\* What a request asks for, as the template is when it is read.
Due(row, w) ==
    IF row # NoRow /\ row.enabled /\ row.dur > 0 /\ w.form = "rfc3339" /\ ~Before(w.to, w.from)
    THEN Planned(row, w) ELSE {}

StageOf(pc) ==
    CASE pc = "new" -> "new" [] pc = "filling" -> "asked" [] pc = "accepted" -> "published"
      [] OTHER -> "failed"

Stage ==
    [j \in Job |->
        [at |-> StageOf(job[j].pc), template |-> job[j].template,
         due |-> Due(job[j].row, job[j].window)]]

Plan == INSTANCE SlotPlan WITH stage <- Stage

\* A job takes effect at one instant, in full or not at all, and one that is
\* not cut off is told which; it is turned down only if nothing is due, and
\* gives up only if cut off or without its template.
ImplementsPlan == Plan!Spec

\* Every job ends.
JobEnds == \A j \in Job : job[j].pc = "filling" ~> job[j].pc \in Answer

=============================================================================
