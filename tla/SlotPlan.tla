------------------------------ MODULE SlotPlan ------------------------------
(***************************************************************************)
(* What POST /slots/generate promises while templates are edited: a job    *)
(* decides at one instant, from the template as it is then, which slots    *)
(* are due, and publishes all of them at one later instant, or none.  It   *)
(* is turned down only if nothing is due, and gives up only if it is cut   *)
(* off or its template was deleted meanwhile.  A job that is cut off while *)
(* it publishes may be told that it failed.  SlotGeneration.tla is         *)
(* checked, and for windows in one zone proved, against this module.       *)
(***************************************************************************)
CONSTANTS
    Job, Template, Row, Window,
    Faulty,      \* jobs that may be cut off
    NoTemplate, NoRow,
    Due(_, _)    \* the times a row asks for in a window

VARIABLES
    templates,   \* a row by id, or NoRow
    minted,      \* template ids that were ever drawn
    slots,       \* the published slots
    stage        \* each job: how far it is, its template and what is due

planVars == <<templates, minted, slots, stage>>

RowOf(t) == IF t = NoTemplate THEN NoRow ELSE templates[t]

SlotOf(j, x) ==
    [job |-> j, day |-> x.day, start |-> x.start, end |-> x.end,
     template |-> stage[j].template]

Init ==
    /\ templates = [t \in Template |-> NoRow]
    /\ minted = {}
    /\ slots = {}
    /\ stage = [j \in Job |-> [at |-> "new", template |-> NoTemplate, due |-> {}]]

\* The template endpoints.  A published slot forgets a template that is deleted.
Create(t, row) ==
    /\ t \notin minted
    /\ minted' = minted \cup {t}
    /\ templates' = [templates EXCEPT ![t] = row]
    /\ UNCHANGED <<slots, stage>>

Update(t, row) ==
    /\ templates[t] # NoRow
    /\ templates' = [templates EXCEPT ![t] = row]
    /\ UNCHANGED <<minted, slots, stage>>

Delete(t) ==
    /\ templates[t] # NoRow
    /\ templates' = [templates EXCEPT ![t] = NoRow]
    /\ slots' = {IF s.template = t THEN [s EXCEPT !.template = NoTemplate] ELSE s :
                    s \in slots}
    /\ UNCHANGED <<minted, stage>>

\* A job is asked for; one for which nothing is due may be turned down.
Ask(j, t, w) ==
    LET due == Due(RowOf(t), w) IN
    /\ stage[j].at = "new"
    /\ \E at \in {"asked", "failed"} :
          /\ at = "failed" => due = {}
          /\ stage' = [stage EXCEPT ![j] = [at |-> at, template |-> t, due |-> due]]
    /\ UNCHANGED <<templates, minted, slots>>

\* The slots come into sight; the client may not hear of it.
Publish(j) ==
    /\ stage[j].at = "asked"
    /\ stage[j].due # {} => RowOf(stage[j].template) # NoRow
    /\ slots' = slots \cup {SlotOf(j, x) : x \in stage[j].due}
    /\ \E at \in {"published", "failed"} :
          /\ at = "failed" => j \in Faulty
          /\ stage' = [stage EXCEPT ![j].at = at]
    /\ UNCHANGED <<templates, minted>>

GiveUp(j) ==
    /\ stage[j].at = "asked"
    /\ j \in Faulty \/ RowOf(stage[j].template) = NoRow
    /\ stage' = [stage EXCEPT ![j].at = "failed"]
    /\ UNCHANGED <<templates, minted, slots>>

Next ==
    \/ \E j \in Job :
          \/ \E t \in minted \cup {NoTemplate}, w \in Window : Ask(j, t, w)
          \/ Publish(j) \/ GiveUp(j)
    \/ \E t \in Template :
          \/ \E row \in Row : Create(t, row) \/ Update(t, row)
          \/ Delete(t)

Spec == Init /\ [][Next]_planVars
=============================================================================
