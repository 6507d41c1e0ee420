------------------------------- MODULE Server -------------------------------
(***************************************************************************)
(* The endpoints of time blocks and attendance, and the lookups of slots   *)
(* and bookings, in the process of Lifecycle: every handler of main.go     *)
(* that is not in Bookings or SlotGeneration.  A create or an update sends *)
(* its write and then reads the row back in a statement of its own, while  *)
(* other requests go on and the process may be told to stop.               *)
(*                                                                         *)
(* A statement fails if it begins after storage.Close, and may fail for    *)
(* the requests in Faulty: their connection breaks or their client hangs   *)
(* up before or after the server has done what it says.                    *)
(***************************************************************************)
EXTENDS Lifecycle, Naturals, FiniteSets

CONSTANTS
    Id,        \* the UUIDs the time_blocks table can draw
    Span, Kind,  \* the columns of a time block: its interval, its type
    Asks,      \* the blocks that requests ask for
    Booking,   \* bookings, which attendance is about
    Faulty,    \* requests whose statements may fail
    None, NoRow, Invalid

Block == [span : Span, kind : Kind]

ASSUME ServerAssumption ==
    /\ Asks \subseteq Block
    /\ Faulty \subseteq Req
    /\ None \notin Id \cup Booking
    /\ NoRow \notin Block /\ Invalid \notin Block /\ NoRow # Invalid

VARIABLES
    blocks,    \* table time_blocks: a row by id, or NoRow
    drawn,     \* ids that were ever drawn
    earlier,   \* the time blocks that earlier processes have left
    marks,     \* table attendance: the bookings that have a row
    call       \* what each request asks for, where it stands, its answer

tables == <<blocks, drawn, marks>>
serverVars == <<vars, tables, earlier, call>>

-----------------------------------------------------------------------------
(* A call: the statement it sends next, the row it is about, the block it  *)
(* asks for, the block it has read and the HTTP status it was answered     *)
(* (0: none yet).                                                          *)

Op == {"none", "malformed", "create", "get", "update", "delete",
       "attend", "get_mark", "list_marks", "list_slots", "get_slots", "get_row"}

Statement == {"insert", "load", "write", "reread", "delete",
              "mark", "mark_reread", "list", "lookup"}

Status == {0, 200, 201, 204, 400, 404, 500}

Call ==
    [op : Op, at : Statement \cup {"none", "refuse"}, about : Id \cup Booking \cup {None},
     ask : Block \cup {NoRow, Invalid}, got : Block \cup {NoRow},
     answer : Status]

NewCall(op, at, about, ask) ==
    [op |-> op, at |-> at, about |-> about, ask |-> ask, got |-> NoRow, answer |-> 0]

NoCall == NewCall("none", "none", None, NoRow)

ServerTypeOK ==
    /\ blocks \in [Id -> Block \cup {NoRow}]
    /\ earlier \in [Id -> Block \cup {NoRow}]
    /\ drawn \subseteq Id
    /\ marks \subseteq Booking
    /\ call \in [Req -> Call]

ServerInit ==
    /\ Init
    /\ earlier \in [Id -> Asks \cup {NoRow}]
    /\ blocks = earlier
    /\ drawn = {i \in Id : earlier[i] # NoRow}
    /\ marks \in SUBSET Booking
    /\ call = [r \in Req |-> NoCall]

Present(i) == i \in Id /\ blocks[i] # NoRow

-----------------------------------------------------------------------------
(* Requests arrive.                                                        *)

Arrive(r, op, at, about, ask) ==
    /\ Accept(r)
    /\ call' = [call EXCEPT ![r] = NewCall(op, at, about, ask)]
    /\ UNCHANGED <<tables, earlier>>

\* The UUIDs are bounded: a create comes only if one is left for it.
RoomForBlock ==
    Cardinality({r \in Req : call[r].at = "insert"}) < Cardinality(Id \ drawn)

\* CreateTimeBlock looks at the fields before it writes, UpdateTimeBlock looks
\* up the block first.
ArriveForBlock(r) ==
    \/ /\ RoomForBlock
       /\ \E b \in Asks : Arrive(r, "create", "insert", None, b)
    \/ Arrive(r, "create", "refuse", None, Invalid)
    \/ \E i \in drawn \cup {None} :
          \/ Arrive(r, "get", "reread", i, NoRow)
          \/ Arrive(r, "delete", "delete", i, NoRow)
          \/ \E b \in Asks \cup {Invalid} : Arrive(r, "update", "load", i, b)

ArriveForMark(r) ==
    \/ \E k \in Booking :
          \/ Arrive(r, "attend", "mark", k, NoRow)
          \/ Arrive(r, "attend", "refuse", k, Invalid)
          \/ Arrive(r, "get_mark", "mark_reread", k, NoRow)
    \/ Arrive(r, "list_marks", "list", None, NoRow)

\* A body or a parameter the handler refuses; GET /slots/batch without ids,
\* whose filters ListSlots refuses; GET of a batch of slots, of a slot or of a
\* booking, and any request whose path holds no UUID.
ArriveElsewhere(r) ==
    \/ Arrive(r, "malformed", "refuse", None, NoRow)
    \/ Arrive(r, "list_slots", "refuse", None, NoRow)
    \/ Arrive(r, "get_slots", "lookup", None, NoRow)
    \/ Arrive(r, "get_row", "lookup", None, NoRow)

-----------------------------------------------------------------------------
(* Steps of a handler.                                                     *)

Running(r, at) == main # "exit" /\ handler[r] = "running" /\ call[r].at = at
Sends(r, at) == Running(r, at) /\ storage = "open"

GoTo(r, at, about, got) ==
    /\ call' = [call EXCEPT ![r].at = at, ![r].about = about, ![r].got = got]
    /\ UNCHANGED <<vars, earlier>>

\* The handler writes its status and ends.
Ends(r, outcome, status, got) ==
    /\ Complete(r) /\ handler'[r] = outcome
    /\ call' = [call EXCEPT ![r].at = "none", ![r].answer = status, ![r].got = got]
    /\ UNCHANGED earlier

Answer(r, status, got) == Ends(r, "done", status, got)

Reply(r, status) == Answer(r, status, NoRow) /\ UNCHANGED tables

Refuse(r) ==
    /\ Running(r, "refuse")
    /\ Reply(r, IF call[r].op = "malformed" THEN 400 ELSE 500)

\* What the statements that write do to the tables.
BlockInserted(r, i) ==
    /\ i \notin drawn
    /\ drawn' = drawn \cup {i}
    /\ blocks' = [blocks EXCEPT ![i] = call[r].ask]
    /\ UNCHANGED marks

\* Mutant: only the columns that differ from the block read before are sent.
BlockWrittenInPart(r) ==
    LET i == call[r].about
        old == call[r].got
        ask == call[r].ask
    IN
    /\ blocks' = [blocks EXCEPT
           ![i].span = IF ask.span = old.span THEN @ ELSE ask.span,
           ![i].kind = IF ask.kind = old.kind THEN @ ELSE ask.kind]
    /\ UNCHANGED <<drawn, marks>>

\* One UPDATE of all columns.
BlockWritten(r) ==
    /\ blocks' = [blocks EXCEPT ![call[r].about] = call[r].ask]
    /\ UNCHANGED <<drawn, marks>>

BlockDeleted(r) ==
    /\ blocks' = [blocks EXCEPT ![call[r].about] = NoRow]
    /\ UNCHANGED <<drawn, marks>>

Marked(r) ==
    /\ marks' = marks \cup {call[r].about}
    /\ UNCHANGED <<blocks, drawn>>

InsertBlock(r, i) ==
    /\ Sends(r, "insert")
    /\ BlockInserted(r, i)
    /\ GoTo(r, "reread", i, NoRow)

\* Mutant: the block is read once, and answered as it was then.
RereadBlockOnce(r) ==
    LET i == call[r].about IN
    /\ Sends(r, "reread")
    /\ IF call[r].got # NoRow
       THEN Answer(r, 200, call[r].got)
       ELSE IF Present(i)
            THEN Answer(r, IF call[r].op = "create" THEN 201 ELSE 200, blocks[i])
            ELSE Answer(r, 404, NoRow)
    /\ UNCHANGED tables

\* GetTimeBlock, by itself or at the end of a create or an update.
RereadBlock(r) ==
    LET i == call[r].about IN
    /\ Sends(r, "reread")
    /\ \/ /\ Present(i)
          /\ Answer(r, IF call[r].op = "create" THEN 201 ELSE 200, blocks[i])
       \/ ~Present(i) /\ Answer(r, 404, NoRow)
    /\ UNCHANGED tables

\* Mutant: the fields are not looked at.
LoadBlockUnvalidated(r) ==
    LET i == call[r].about IN
    /\ Sends(r, "load")
    /\ \/ ~Present(i) /\ Answer(r, 404, NoRow)
       \/ Present(i) /\ GoTo(r, "write", i, blocks[i])
    /\ UNCHANGED tables

\* Mutant: a block that is not there is waited for.
LoadBlockWaits(r) ==
    LET i == call[r].about IN
    /\ Sends(r, "load")
    /\ Present(i)
    /\ \/ call[r].ask = Invalid /\ Answer(r, 500, NoRow)
       \/ call[r].ask # Invalid /\ GoTo(r, "write", i, blocks[i])
    /\ UNCHANGED tables

\* GetTimeBlock at the start of an update.  A type or a date that is not valid
\* is answered 500, but only if the block is there.
LoadBlock(r) ==
    LET i == call[r].about IN
    /\ Sends(r, "load")
    /\ \/ ~Present(i) /\ Answer(r, 404, NoRow)
       \/ Present(i) /\ call[r].ask = Invalid /\ Answer(r, 500, NoRow)
       \/ Present(i) /\ call[r].ask # Invalid /\ GoTo(r, "write", i, blocks[i])
    /\ UNCHANGED tables

\* Mutant: RowsAffected counts the rows that changed.
WriteBlockCountsChanges(r) ==
    LET i == call[r].about IN
    /\ Sends(r, "write")
    /\ \/ /\ Present(i) /\ blocks[i] # call[r].ask
          /\ BlockWritten(r) /\ GoTo(r, "reread", i, call[r].got)
       \/ ~(Present(i) /\ blocks[i] # call[r].ask) /\ Reply(r, 404)

\* UpdateTimeBlock: no row affected is 404.
WriteBlock(r) ==
    LET i == call[r].about IN
    /\ Sends(r, "write")
    /\ \/ Present(i) /\ BlockWritten(r) /\ GoTo(r, "reread", i, call[r].got)
       \/ ~Present(i) /\ Reply(r, 404)

\* Mutant: RowsAffected is not looked at.
DeleteBlockAnyCount(r) ==
    /\ Sends(r, "delete")
    /\ IF Present(call[r].about) THEN BlockDeleted(r) ELSE UNCHANGED tables
    /\ Answer(r, 204, NoRow)

DeleteBlock(r) ==
    /\ Sends(r, "delete")
    /\ \/ /\ Present(call[r].about)
          /\ BlockDeleted(r) /\ Answer(r, 204, NoRow)
       \/ ~Present(call[r].about) /\ Reply(r, 404)

\* INSERT.  500: UNIQUE booking_id refuses a second row, the foreign key a
\* booking that is not there.  Bookings has that table: any may be missing here.
InsertMark(r) ==
    LET k == call[r].about IN
    /\ Sends(r, "mark")
    /\ \/ Reply(r, 500)
       \/ k \notin marks /\ Marked(r) /\ GoTo(r, "mark_reread", k, NoRow)

\* GetAttendance, by itself or at the end of a create.
RereadMark(r) ==
    /\ Sends(r, "mark_reread")
    /\ Reply(r, IF call[r].about \notin marks THEN 404
                ELSE IF call[r].op = "attend" THEN 201 ELSE 200)

\* ListAttendance: 200, although a connection that breaks while the rows are
\* read looks like their end, for rows.Err is not asked.
ListMarks(r) == Sends(r, "list") /\ Reply(r, 200)

\* One SELECT on tables that Bookings and SlotGeneration describe.  A batch is
\* answered with the slots there are; a row may be there or not, and an id that
\* is no UUID is an error like any other.
GetSlotsByIDs(r) ==
    /\ Sends(r, "lookup") /\ call[r].op = "get_slots"
    /\ Reply(r, 200)

GetSlotOrBooking(r) ==
    /\ Sends(r, "lookup") /\ call[r].op = "get_row"
    /\ \E status \in {200, 404, 500} : Reply(r, status)

-----------------------------------------------------------------------------
(* Statements that fail.                                                   *)

\* sql: database is closed.
PoolClosed(r) ==
    /\ \E at \in Statement : Running(r, at)
    /\ storage = "closed"
    /\ Ends(r, "failed", 500, NoRow)
    /\ UNCHANGED tables

\* The error says nothing of what the server did with the statement.
ReplyLost(r) ==
    LET i == call[r].about IN
    /\ r \in Faulty
    /\ \E at \in Statement : Sends(r, at)
    /\ \/ UNCHANGED tables
       \/ call[r].at = "insert" /\ \E j \in Id : BlockInserted(r, j)
       \/ call[r].at = "write" /\ Present(i) /\ BlockWritten(r)
       \/ call[r].at = "delete" /\ Present(i) /\ BlockDeleted(r)
       \/ call[r].at = "mark" /\ Marked(r)
    /\ Answer(r, 500, NoRow)

-----------------------------------------------------------------------------
Proceed(r) ==
    \/ Refuse(r)
    \/ \E i \in Id : InsertBlock(r, i)
    \/ LoadBlock(r) \/ WriteBlock(r) \/ RereadBlock(r) \/ DeleteBlock(r)
    \/ InsertMark(r) \/ RereadMark(r) \/ ListMarks(r)
    \/ GetSlotsByIDs(r) \/ GetSlotOrBooking(r)
    \/ PoolClosed(r)

ServerNext ==
    \/ MainStep /\ UNCHANGED <<tables, earlier, call>>
    \/ \E r \in Req :
          \/ ArriveForBlock(r) \/ ArriveForMark(r) \/ ArriveElsewhere(r)
          \/ Proceed(r) \/ ReplyLost(r)

ServerSpec == ServerInit /\ [][ServerNext]_serverVars

\* Besides the fairness of the main goroutine, every statement that is sent is
\* answered, by the server or by the closed pool, unless it is of a request in
\* Faulty: no statement has a deadline, so these may hang for ever.
ServerFairSpec ==
    /\ ServerSpec
    /\ WF_serverVars(Stop /\ UNCHANGED <<tables, earlier, call>>)
    /\ WF_serverVars(StopRequested /\ ~listening /\ UNCHANGED <<tables, earlier, call>>)
    /\ \A r \in Req \ Faulty : WF_serverVars(Proceed(r))

-----------------------------------------------------------------------------
(* Properties                                                              *)

\* The request q asked for this very block.
Wants(q, i, b) ==
    /\ call[q].op \in {"create", "update"} /\ call[q].ask = b
    /\ call[q].op = "update" => call[q].about = i

\* Every block in the table, or in an answer, is one that a single request
\* asked for: updates that cross do not mix their columns.
AskedFor(i, b) == b = earlier[i] \/ \E q \in Req : Wants(q, i, b)

RowsWhole ==
    /\ \A i \in Id : Present(i) => AskedFor(i, blocks[i])
    /\ \A r \in Req : call[r].got # NoRow => AskedFor(call[r].about, call[r].got)

\* Who was told 404 about a block will never see it again: neither an update
\* in flight nor a create brings a deleted block back.
GoneForGood ==
    \A r \in Req :
        call[r].op \in {"create", "get", "update", "delete"} /\ call[r].answer = 404 =>
            ~Present(call[r].about)

\* A block goes only by a DELETE, and a DELETE that found it is answered 204
\* once, unless its reply was lost.
DeletedOnce ==
    /\ \A r, q \in Req :
           /\ call[r].answer = 204 /\ call[q].answer = 204
           /\ call[r].about = call[q].about
           => r = q
    /\ \A i \in drawn : ~Present(i) =>
           \E r \in Req :
              /\ call[r].op = "delete" /\ call[r].about = i
              /\ call[r].answer = 204 \/ (r \in Faulty /\ call[r].answer = 500)

\* A create or an update that is answered another block than it asked for was
\* overtaken by an update.
OwnWriteSeen ==
    \A r \in Req :
        /\ call[r].op \in {"create", "update"} /\ call[r].answer \in {200, 201}
        /\ call[r].got # call[r].ask
        => \E q \in Req \ {r} : call[q].op = "update" /\ Wants(q, call[r].about, call[r].got)

\* A block that no earlier process has left, and whose id nobody was told, is in
\* the table only while its create runs or because its create was cut off after
\* the INSERT: by a broken connection or by the shutdown timeout.
OrphanOnlyWhenCut ==
    \A i \in Id : Present(i) /\ earlier[i] = NoRow =>
        \E r \in Req : call[r].op = "create" /\
            \/ /\ call[r].about = i
               /\ \/ call[r].answer = 201
                  \/ handler[r] = "running"
                  \/ handler[r] \in {"failed", "cut"} /\ timedOut
                  \/ r \in Faulty
            \/ call[r].about = None /\ r \in Faulty /\ call[r].answer = 500

\* The handlers are those of Lifecycle.
ImplementsLifecycle == Spec

\* Every request whose statements are answered is answered itself, or the
\* process ends, whatever the other requests do to its row.
EveryoneAnswered ==
    \A r \in Req \ Faulty : handler[r] = "running" ~> handler[r] # "running"

=============================================================================
