---------------------------- MODULE ServerProofs ----------------------------
(***************************************************************************)
(* For any number of requests, ids and blocks: what Server says of time    *)
(* blocks and of the life of the process holds.  ServerInv is inductive.   *)
(***************************************************************************)
EXTENDS Server, LifecycleProofs

BlockOp == {"create", "get", "update", "delete"}

(* Which statements a request sends, and what it is about by then.         *)
Suits(op, at, about, ask, ids) ==
    /\ at = "insert" => op = "create" /\ about = None
    /\ at \in {"load", "write"} => op = "update"
    /\ at = "load" => ask \in Asks \cup {Invalid}
    /\ at = "reread" => op \in {"create", "get", "update"}
    /\ at = "delete" => op = "delete"
    /\ at = "mark" => op = "attend" /\ about \in Booking
    /\ at = "mark_reread" => op \in {"attend", "get_mark"} /\ about \in Booking
    /\ at = "list" => op = "list_marks"
    /\ at = "lookup" => op \in {"get_slots", "get_row"}
    /\ at = "refuse" =>
           \/ op \in {"malformed", "list_slots"}
           \/ op \in {"create", "attend"} /\ ask = Invalid
    /\ op = "create" /\ at = "refuse" => about = None
    /\ op \in {"create", "update"} /\ at \in {"insert", "write", "reread"} => ask \in Asks
    /\ op \in BlockOp => about \in ids \cup {None}

Fits(r) ==
    LET c == call[r] IN
    /\ Suits(c.op, c.at, c.about, c.ask, drawn)
    /\ handler[r] = "none" => c = NoCall
    /\ handler[r] = "running" => c.at # "none"
    /\ c.answer # 0 => handler[r] \in {"done", "failed"}
    /\ c.answer = 204 => c.op = "delete"

(* The block a DELETE or a 404 was about is gone, and stays so because no  *)
(* id is drawn twice.                                                      *)
Gone(r) ==
    call[r].op \in BlockOp /\ call[r].answer \in {204, 404} => ~Present(call[r].about)

(* What a create or an update will read back, and has read back.           *)
Overtaken(r, b) ==
    \E q \in Req \ {r} : call[q].op = "update" /\ Wants(q, call[r].about, b)

ReadsOwn(r) ==
    LET c == call[r] IN
    c.op \in {"create", "update"} =>
        /\ c.at = "reread" /\ Present(c.about) /\ blocks[c.about] # c.ask =>
               Overtaken(r, blocks[c.about])
        /\ c.answer \in {200, 201} /\ c.got # c.ask => Overtaken(r, c.got)

GotWhole(r) == call[r].got # NoRow => AskedFor(call[r].about, call[r].got)

CallInv(r) == Fits(r) /\ Gone(r) /\ ReadsOwn(r) /\ GotWhole(r)

(* A row of the table, and a row that is no longer there.                  *)
Deletes(r, i) ==
    /\ call[r].op = "delete" /\ call[r].about = i
    /\ call[r].answer = 204 \/ (r \in Faulty /\ call[r].answer = 500)

Created(r, i) ==
    /\ call[r].op = "create"
    /\ \/ /\ call[r].about = i
          /\ \/ call[r].answer = 201
             \/ handler[r] = "running"
             \/ handler[r] \in {"failed", "cut"} /\ timedOut
             \/ r \in Faulty
       \/ call[r].about = None /\ r \in Faulty /\ call[r].answer = 500

BlockInv(i) ==
    /\ Present(i) => i \in drawn /\ AskedFor(i, blocks[i])
    /\ i \in drawn /\ ~Present(i) => \E r \in Req : Deletes(r, i)
    /\ Present(i) /\ earlier[i] = NoRow => \E r \in Req : Created(r, i)

OneDelete ==
    \A r, q \in Req :
        call[r].answer = 204 /\ call[q].answer = 204 /\ call[r].about = call[q].about => r = q

ServerInv ==
    /\ LifecycleInv
    /\ ServerTypeOK
    /\ \A r \in Req : CallInv(r)
    /\ \A i \in Id : BlockInv(i)
    /\ OneDelete

-----------------------------------------------------------------------------
(* A step of one request.                                                  *)

HandlerStep(r) == ArriveForBlock(r) \/ ArriveForMark(r) \/ ArriveElsewhere(r)
                  \/ Proceed(r) \/ ReplyLost(r)

(* What it changes.  Everything below is proved from this.                 *)
OnlyCall(r) ==
    /\ UNCHANGED <<main, listening, storage, locker, timedOut, earlier>>
    /\ handler' \in [Req -> Handler] /\ call' \in [Req -> Call]
    /\ \A q \in Req \ {r} : call'[q] = call[q] /\ handler'[q] = handler[q]

Arrives(r, op, at, about, ask) ==
    /\ OnlyCall(r)
    /\ handler[r] = "none" /\ handler'[r] = "running" /\ listening
    /\ call'[r].op = op /\ call'[r].at = at /\ call'[r].about = about /\ call'[r].ask = ask
    /\ call'[r].got = NoRow /\ call'[r].answer = 0

Keeps(r) ==
    /\ OnlyCall(r)
    /\ handler[r] = "running" /\ main # "exit"
    /\ call'[r].op = call[r].op /\ call'[r].ask = call[r].ask

Moves(r, at, about, got) ==
    /\ Keeps(r)
    /\ handler'[r] = "running"
    /\ call'[r].at = at /\ call'[r].about = about /\ call'[r].got = got
    /\ call'[r].answer = call[r].answer

Ended(r, outcome, status, got) ==
    /\ Keeps(r)
    /\ handler'[r] = outcome
    /\ call'[r].at = "none" /\ call'[r].about = call[r].about
    /\ call'[r].answer = status /\ call'[r].got = got

LEMMA ArriveDoes ==
    ASSUME LifecycleInv, ServerTypeOK, NEW r \in Req, NEW op \in Op, NEW at \in Statement \cup {"refuse"},
           NEW about \in Id \cup Booking \cup {None}, NEW ask \in Block \cup {NoRow, Invalid},
           Arrive(r, op, at, about, ask)
    PROVE  Arrives(r, op, at, about, ask) /\ UNCHANGED tables
<1> DEFINE c == [op |-> op, at |-> at, about |-> about, ask |-> ask, got |-> NoRow,
                 answer |-> 0]
<1>1. call' = [call EXCEPT ![r] = c] /\ call \in [Req -> Call]
  BY DEF Arrive, NewCall, ServerTypeOK
<1>3. c \in Call /\ c.op = op /\ c.at = at /\ c.about = about /\ c.ask = ask /\ c.got = NoRow
      /\ c.answer = 0
  <2>1. PICK answer \in Status : answer = 0
    BY DEF Status
  <2> QED BY <2>1 DEF Call
<1> HIDE DEF c
<1>4. /\ handler \in [Req -> Handler] /\ handler' = [handler EXCEPT ![r] = "running"]
      /\ handler[r] = "none" /\ listening
      /\ UNCHANGED <<main, listening, storage, locker, timedOut, earlier>> /\ UNCHANGED tables
  BY DEF Arrive, Accept, LifecycleInv, TypeOK
<1>5. handler' \in [Req -> Handler] /\ handler'[r] = "running"
  BY <1>4 DEF Handler
<1> QED BY <1>1, <1>3, <1>4, <1>5 DEF Arrives, OnlyCall

LEMMA GoToDoes ==
    ASSUME LifecycleInv, ServerTypeOK, NEW r \in Req, NEW at \in Statement,
           NEW about \in Id \cup Booking \cup {None}, NEW got \in Block \cup {NoRow},
           handler[r] = "running", main # "exit", GoTo(r, at, about, got)
    PROVE  Moves(r, at, about, got)
<1> DEFINE c == [call[r] EXCEPT !.at = at, !.about = about, !.got = got]
<1>1. call' = [call EXCEPT ![r] = c] /\ call \in [Req -> Call] /\ call[r] \in Call
  BY DEF GoTo, ServerTypeOK
<1>2. c \in Call /\ c.op = call[r].op /\ c.at = at /\ c.about = about /\ c.ask = call[r].ask
      /\ c.got = got /\ c.answer = call[r].answer
  BY <1>1 DEF Call
<1> HIDE DEF c
<1>3. handler \in [Req -> Handler] /\ UNCHANGED <<vars, earlier>>
  BY DEF GoTo, LifecycleInv, TypeOK
<1> QED BY <1>1, <1>2, <1>3 DEF Moves, Keeps, OnlyCall, vars

LEMMA EndsDoes ==
    ASSUME LifecycleInv, ServerTypeOK, NEW r \in Req, NEW outcome \in {"done", "failed"},
           NEW status \in Status, NEW got \in Block \cup {NoRow},
           Ends(r, outcome, status, got)
    PROVE  Ended(r, outcome, status, got)
<1> DEFINE c == [call[r] EXCEPT !.at = "none", !.answer = status, !.got = got]
<1>1. call' = [call EXCEPT ![r] = c] /\ call \in [Req -> Call] /\ call[r] \in Call
  BY DEF Ends, ServerTypeOK
<1>2. c \in Call /\ c.op = call[r].op /\ c.at = "none" /\ c.about = call[r].about
      /\ c.ask = call[r].ask /\ c.got = got /\ c.answer = status
  BY <1>1 DEF Call
<1> HIDE DEF c
<1>3. /\ handler \in [Req -> Handler] /\ handler[r] = "running" /\ main # "exit"
      /\ handler' = [handler EXCEPT ![r] = outcome]
      /\ UNCHANGED <<main, listening, storage, locker, timedOut, earlier>>
  BY DEF Ends, Complete, LifecycleInv, TypeOK
<1>4. handler' \in [Req -> Handler] /\ handler'[r] = outcome
  BY <1>3 DEF Handler
<1> QED BY <1>1, <1>2, <1>3, <1>4 DEF Ended, Keeps, OnlyCall

LEMMA PoolClosedDoes ==
    ASSUME LifecycleInv, ServerTypeOK, NEW r \in Req, PoolClosed(r)
    PROVE  Ended(r, "failed", 500, NoRow) /\ timedOut /\ UNCHANGED tables
<1>1. PICK status \in Status : status = 500
  BY DEF Status
<1>2. Ends(r, "failed", status, NoRow) /\ UNCHANGED tables
  BY <1>1 DEF PoolClosed
<1>3. Ended(r, "failed", status, NoRow)
  BY <1>2, EndsDoes
<1>4. timedOut
  BY <1>3 DEF PoolClosed, LifecycleInv, TypeOK, Main, ServesWithPools, DrainedInTime,
      Ended, Keeps
<1> QED BY <1>1, <1>2, <1>3, <1>4

(* What it does to the tables.                                             *)
Sent(r, at) == handler[r] = "running" /\ call[r].at = at

TableStep(r) ==
    \/ UNCHANGED tables
    \/ Sent(r, "insert") /\ \E i \in Id : BlockInserted(r, i)
    \/ Sent(r, "write") /\ Present(call[r].about) /\ BlockWritten(r)
    \/ Sent(r, "delete") /\ Present(call[r].about) /\ BlockDeleted(r)
    \/ Sent(r, "mark") /\ Marked(r)

Arrived(r) ==
    \E op \in Op, at \in Statement \cup {"refuse"}, about \in Id \cup Booking \cup {None},
       ask \in Block \cup {NoRow, Invalid} :
       /\ Arrives(r, op, at, about, ask) /\ Suits(op, at, about, ask, drawn) /\ UNCHANGED tables
       /\ at = "reread" => op = "get"

LEMMA ArrivalFits ==
    ASSUME ServerInv, NEW r \in Req,
           ArriveForBlock(r) \/ ArriveForMark(r) \/ ArriveElsewhere(r)
    PROVE  Arrived(r)
<1>1. LifecycleInv /\ ServerTypeOK /\ drawn \subseteq Id /\ Asks \subseteq Block
  BY ServerAssumption DEF ServerInv, ServerTypeOK
<1>2. ASSUME NEW op \in Op, NEW at \in Statement \cup {"refuse"},
             NEW about \in Id \cup Booking \cup {None}, NEW ask \in Block \cup {NoRow, Invalid},
             Arrive(r, op, at, about, ask), Suits(op, at, about, ask, drawn),
             at = "reread" => op = "get"
      PROVE  Arrived(r)
  <2>1. Arrives(r, op, at, about, ask) /\ UNCHANGED tables
    BY <1>1, <1>2, ArriveDoes
  <2> QED BY <1>2, <2>1 DEF Arrived
<1> USE DEF Op, Statement
<1>3. ASSUME NEW ask \in Asks, Arrive(r, "create", "insert", None, ask) PROVE Arrived(r)
  <2>1. Suits("create", "insert", None, ask, drawn)
    BY DEF Suits
  <2> QED BY <1>1, <1>2, <1>3, <2>1
<1>4. CASE Arrive(r, "create", "refuse", None, Invalid)
  <2>1. Suits("create", "refuse", None, Invalid, drawn)
    BY DEF Suits
  <2> QED BY <1>2, <1>4, <2>1
<1>5. ASSUME NEW i \in drawn \cup {None}, Arrive(r, "get", "reread", i, NoRow) PROVE Arrived(r)
  <2>1. Suits("get", "reread", i, NoRow, drawn)
    BY DEF Suits
  <2> QED BY <1>1, <1>2, <1>5, <2>1
<1>6. ASSUME NEW i \in drawn \cup {None}, Arrive(r, "delete", "delete", i, NoRow) PROVE Arrived(r)
  <2>1. Suits("delete", "delete", i, NoRow, drawn)
    BY DEF Suits
  <2> QED BY <1>1, <1>2, <1>6, <2>1
<1>7. ASSUME NEW i \in drawn \cup {None}, NEW ask \in Asks \cup {Invalid},
             Arrive(r, "update", "load", i, ask)
      PROVE  Arrived(r)
  <2>1. Suits("update", "load", i, ask, drawn)
    BY DEF Suits
  <2> QED BY <1>1, <1>2, <1>7, <2>1
<1>8. ASSUME NEW k \in Booking, Arrive(r, "attend", "mark", k, NoRow) PROVE Arrived(r)
  <2>1. Suits("attend", "mark", k, NoRow, drawn)
    BY DEF Suits, BlockOp
  <2> QED BY <1>2, <1>8, <2>1
<1>9. ASSUME NEW k \in Booking, Arrive(r, "attend", "refuse", k, Invalid) PROVE Arrived(r)
  <2>1. Suits("attend", "refuse", k, Invalid, drawn)
    BY DEF Suits, BlockOp
  <2> QED BY <1>2, <1>9, <2>1
<1>10. ASSUME NEW k \in Booking, Arrive(r, "get_mark", "mark_reread", k, NoRow) PROVE Arrived(r)
  <2>1. Suits("get_mark", "mark_reread", k, NoRow, drawn)
    BY DEF Suits, BlockOp
  <2> QED BY <1>2, <1>10, <2>1
<1>11. ASSUME NEW op \in {"list_marks", "malformed", "list_slots", "get_slots", "get_row"},
              NEW at \in {"list", "refuse", "lookup"}, Arrive(r, op, at, None, NoRow),
              <<op, at>> \in {<<"list_marks", "list">>, <<"malformed", "refuse">>,
                              <<"list_slots", "refuse">>, <<"get_slots", "lookup">>,
                              <<"get_row", "lookup">>}
       PROVE  Arrived(r)
  <2>1. Suits(op, at, None, NoRow, drawn)
    BY <1>11 DEF Suits, BlockOp
  <2> QED BY <1>2, <1>11, <2>1
<1> QED BY <1>3, <1>4, <1>5, <1>6, <1>7, <1>8, <1>9, <1>10, <1>11
    DEF ArriveForBlock, ArriveForMark, ArriveElsewhere

(* The other steps of a handler.                                           *)
Inserts(r, i) ==
    Sent(r, "insert") /\ BlockInserted(r, i) /\ Moves(r, "reread", i, NoRow)

Loads(r) ==
    /\ Sent(r, "load") /\ Present(call[r].about) /\ call[r].ask # Invalid
    /\ UNCHANGED tables
    /\ Moves(r, "write", call[r].about, blocks[call[r].about])

Writes(r) ==
    /\ Sent(r, "write") /\ Present(call[r].about) /\ BlockWritten(r)
    /\ Moves(r, "reread", call[r].about, call[r].got)

MarkWritten(r) ==
    Sent(r, "mark") /\ Marked(r) /\ Moves(r, "mark_reread", call[r].about, NoRow)

Deleted(r) ==
    /\ Sent(r, "delete") /\ Present(call[r].about) /\ BlockDeleted(r)
    /\ Ended(r, "done", 204, NoRow)

Reads(r) ==
    /\ Sent(r, "reread") /\ Present(call[r].about) /\ UNCHANGED tables
    /\ Ended(r, "done", IF call[r].op = "create" THEN 201 ELSE 200, blocks[call[r].about])

Misses(r) ==
    /\ \E at \in {"load", "write", "reread", "delete"} : Sent(r, at)
    /\ ~Present(call[r].about) /\ UNCHANGED tables
    /\ Ended(r, "done", 404, NoRow)

Refuses(r) ==
    /\ \E at \in {"refuse", "load", "mark"} : Sent(r, at)
    /\ UNCHANGED tables
    /\ \E status \in {400, 500} : Ended(r, "done", status, NoRow)

ReadsMark(r) ==
    /\ Sent(r, "mark_reread") /\ UNCHANGED tables
    /\ \E status \in {200, 201, 404} : Ended(r, "done", status, NoRow)

LooksUp(r) ==
    /\ Sent(r, "list") \/ Sent(r, "lookup")
    /\ UNCHANGED tables
    /\ \E status \in {200, 404, 500} : Ended(r, "done", status, NoRow)

Fails(r) ==
    /\ \/ Ended(r, "failed", 500, NoRow) /\ timedOut /\ UNCHANGED tables
       \/ r \in Faulty /\ Ended(r, "done", 500, NoRow) /\ TableStep(r)

Outcome(r) ==
    \/ Arrived(r)
    \/ \E i \in Id : Inserts(r, i)
    \/ Loads(r) \/ Writes(r) \/ MarkWritten(r) \/ Deleted(r)
    \/ Reads(r) \/ Misses(r) \/ Refuses(r) \/ ReadsMark(r) \/ LooksUp(r)
    \/ Fails(r)

LEMMA StepOutcome ==
    ASSUME ServerInv, NEW r \in Req, HandlerStep(r)
    PROVE  Outcome(r)
<1>1. LifecycleInv /\ ServerTypeOK /\ Fits(r) /\ call[r] \in Call
  BY DEF ServerInv, CallInv, ServerTypeOK
<1>2. /\ call[r].about \in Id \cup Booking \cup {None} /\ call[r].got \in Block \cup {NoRow}
      /\ marks \subseteq Booking
      /\ \A i \in Id : Present(i) => blocks[i] \in Block
  BY <1>1 DEF Call, ServerTypeOK, Present
<1>3. ASSUME NEW at \in Statement, NEW about \in Id \cup Booking \cup {None},
             NEW got \in Block \cup {NoRow}, NEW from, Sends(r, from), GoTo(r, at, about, got)
      PROVE  Moves(r, at, about, got) /\ Sent(r, from)
  BY <1>1, <1>3, GoToDoes DEF Sends, Running, Sent
<1>4. ASSUME NEW status \in Status, NEW got \in Block \cup {NoRow},
             Answer(r, status, got)
      PROVE  Ended(r, "done", status, got)
  BY <1>1, <1>4, EndsDoes DEF Answer
<1>5. ASSUME NEW from, Running(r, from) PROVE Sent(r, from)
  BY <1>5 DEF Running, Sent
<1>6. ASSUME NEW status \in Status, Reply(r, status)
      PROVE  Ended(r, "done", status, NoRow) /\ UNCHANGED tables
  BY <1>4, <1>6 DEF Reply
<1>7. CASE ArriveForBlock(r) \/ ArriveForMark(r) \/ ArriveElsewhere(r)
  BY <1>7, ArrivalFits DEF Outcome
<1>8. CASE Refuse(r)
  BY <1>1, <1>5, <1>6, <1>8 DEF Refuse, Outcome, Refuses, Status, Fits, Suits, Sent
<1>9. ASSUME NEW i \in Id, InsertBlock(r, i)
      PROVE  Outcome(r)
  BY <1>3, <1>9 DEF InsertBlock, Outcome, Inserts, Statement
<1>10. CASE LoadBlock(r)
  BY <1>2, <1>3, <1>4, <1>5, <1>10
    DEF LoadBlock, Outcome, Loads, Misses, Refuses, Statement, Status, Sends, Sent, Present
<1>11. CASE WriteBlock(r)
  BY <1>2, <1>3, <1>6, <1>5, <1>11 DEF WriteBlock, Outcome, Writes, Misses, Statement, Status, Sends
<1>12. CASE RereadBlock(r)
  BY <1>2, <1>4, <1>5, <1>12 DEF RereadBlock, Outcome, Reads, Misses, Status, Sends, Present
<1>13. CASE DeleteBlock(r)
  BY <1>4, <1>5, <1>6, <1>13 DEF DeleteBlock, Outcome, Deleted, Misses, Status, Sends
<1>14. CASE InsertMark(r)
  BY <1>1, <1>2, <1>3, <1>5, <1>6, <1>14
    DEF InsertMark, Outcome, MarkWritten, Refuses, Statement, Status, Sends, Fits, Suits, Sent
<1>15. CASE RereadMark(r)
  BY <1>5, <1>6, <1>15 DEF RereadMark, Outcome, ReadsMark, Status, Sends
<1>16. CASE ListMarks(r)
  BY <1>5, <1>6, <1>16 DEF ListMarks, Outcome, LooksUp, Status, Sends
<1>17. CASE GetSlotsByIDs(r) \/ GetSlotOrBooking(r)
  BY <1>5, <1>6, <1>17 DEF GetSlotsByIDs, GetSlotOrBooking, Outcome, LooksUp, Status, Sends
<1>18. CASE PoolClosed(r)
  BY <1>1, <1>18, PoolClosedDoes DEF Outcome, Fails
<1>19. CASE ReplyLost(r)
  <2>1. Ended(r, "done", 500, NoRow) /\ r \in Faulty
    BY <1>4, <1>19 DEF ReplyLost, Status
  <2>2. TableStep(r)
    BY <1>5, <1>19 DEF ReplyLost, TableStep, Sends, Running, Sent
  <2> QED BY <2>1, <2>2 DEF Outcome, Fails
<1> QED BY <1>7, <1>8, <1>9, <1>10, <1>11, <1>12, <1>13, <1>14, <1>15, <1>16, <1>17, <1>18, <1>19
    DEF HandlerStep, Proceed

-----------------------------------------------------------------------------
(* What every step of a handler leaves alone.                              *)
Frame(r) ==
    /\ OnlyCall(r) /\ TableStep(r)
    /\ handler[r] \in {"none", "running"}
    /\ handler[r] = "running" =>
          /\ call'[r].op = call[r].op /\ call'[r].ask = call[r].ask
          /\ call'[r].about = call[r].about \/ call[r].at = "insert"

LEMMA OutcomeFrame ==
    ASSUME NEW r \in Req, Outcome(r)
    PROVE  Frame(r)
<1>1. CASE Arrived(r)
  BY <1>1 DEF Arrived, Arrives, Frame, TableStep
<1>2. ASSUME NEW i \in Id, Inserts(r, i) PROVE Frame(r)
  BY <1>2 DEF Inserts, Moves, Keeps, Frame, TableStep, Sent
<1>3. CASE Loads(r)
  BY <1>3 DEF Loads, Moves, Keeps, Frame, TableStep
<1>4. CASE Writes(r)
  BY <1>4 DEF Writes, Moves, Keeps, Frame, TableStep
<1>5. CASE MarkWritten(r)
  BY <1>5 DEF MarkWritten, Moves, Keeps, Frame, TableStep
<1>6. CASE Deleted(r)
  BY <1>6 DEF Deleted, Ended, Keeps, Frame, TableStep
<1>7. CASE Reads(r) \/ Misses(r) \/ Refuses(r) \/ ReadsMark(r) \/ LooksUp(r)
  BY <1>7 DEF Reads, Misses, Refuses, ReadsMark, LooksUp, Ended, Keeps, Frame, TableStep
<1>8. CASE Fails(r)
  BY <1>8 DEF Fails, Ended, Keeps, Frame, TableStep
<1> QED BY <1>1, <1>2, <1>3, <1>4, <1>5, <1>6, <1>7, <1>8, Outcome(r) DEF Outcome

\* What a request wants does not change, nor does a block that was asked for
\* become one that was not.
LEMMA WantsStays ==
    ASSUME ServerInv, NEW r \in Req, Frame(r), NEW q \in Req, NEW i, NEW b, Wants(q, i, b)
    PROVE  Wants(q, i, b)' /\ call'[q].op = call[q].op
<1>1. Fits(q)
  BY DEF ServerInv, CallInv
<1>2. CASE q # r
  BY <1>2 DEF Frame, OnlyCall, Wants
<1>3. CASE q = r
  BY <1>1, <1>3 DEF Frame, Wants, Fits, Suits, NoCall, NewCall
<1> QED BY <1>2, <1>3

LEMMA AskedForStays ==
    ASSUME ServerInv, NEW r \in Req, Frame(r), NEW i, NEW b, AskedFor(i, b)
    PROVE  AskedFor(i, b)'
BY WantsStays DEF AskedFor, Frame, OnlyCall

LEMMA OvertakenStays ==
    ASSUME ServerInv, NEW r \in Req, Frame(r), NEW p \in Req, NEW b, Overtaken(p, b),
           call'[p].about = call[p].about
    PROVE  Overtaken(p, b)'
BY WantsStays DEF Overtaken

\* The tables.
LEMMA RowsStay ==
    ASSUME ServerInv, NEW r \in Req, Frame(r)
    PROVE  /\ drawn \subseteq drawn' /\ drawn' \subseteq Id
           /\ marks \subseteq marks' /\ marks' \subseteq Booking
           /\ blocks' \in [Id -> Block \cup {NoRow}]
           /\ \A i \in drawn \cup {None} : Present(i)' => Present(i)
           /\ \A i \in Id : Present(i)' => i \in drawn'
           /\ \A i \in Id : Present(i)' /\ blocks'[i] # blocks[i] =>
                 /\ blocks'[i] = call[r].ask
                 /\ \/ Sent(r, "insert") /\ ~Present(i) /\ i \notin drawn
                    \/ Sent(r, "write") /\ call[r].about = i /\ Present(i)
           /\ \A i \in Id : ~Present(i)' /\ (Present(i) \/ i \in drawn' \ drawn) =>
                 Sent(r, "delete") /\ call[r].about = i
<1>1. /\ ServerTypeOK /\ Fits(r) /\ Asks \subseteq Block /\ NoRow \notin Block /\ None \notin Id
      /\ \A i \in Id : Present(i) => i \in drawn
  BY ServerAssumption DEF ServerInv, CallInv, BlockInv
<1>2. \A at \in {"insert", "write"} : Sent(r, at) => call[r].ask \in Block /\ call[r].ask # NoRow
  BY <1>1 DEF Fits, Suits, Sent
<1>3. CASE UNCHANGED tables
  BY <1>1, <1>3 DEF tables, Present, ServerTypeOK
<1>4. ASSUME NEW j \in Id, Sent(r, "insert"), BlockInserted(r, j)
      PROVE  /\ drawn' = drawn \cup {j} /\ marks' = marks /\ j \notin drawn
             /\ blocks' \in [Id -> Block \cup {NoRow}]
             /\ blocks'[j] = call[r].ask /\ ~Present(j)
             /\ \A i \in Id \ {j} : blocks'[i] = blocks[i]
  BY <1>1, <1>2, <1>4 DEF BlockInserted, ServerTypeOK, ServerInv, BlockInv
<1>5. CASE Sent(r, "insert") /\ \E i \in Id : BlockInserted(r, i)
  BY <1>1, <1>2, <1>4, <1>5 DEF Present, ServerTypeOK
<1>6. CASE Sent(r, "write") /\ Present(call[r].about) /\ BlockWritten(r)
  BY <1>1, <1>2, <1>6 DEF BlockWritten, Present, ServerTypeOK
<1>7. CASE Sent(r, "delete") /\ Present(call[r].about) /\ BlockDeleted(r)
  BY <1>1, <1>7 DEF BlockDeleted, Present, ServerTypeOK
<1>8. CASE Sent(r, "mark") /\ Marked(r)
  BY <1>1, <1>8 DEF Marked, Present, ServerTypeOK, Fits, Suits, Sent
<1> QED BY <1>3, <1>5, <1>6, <1>7, <1>8 DEF Frame, TableStep

\* The other requests keep what holds of them.
LEMMA OthersStay ==
    ASSUME ServerInv, NEW r \in Req, Frame(r), NEW q \in Req, q # r
    PROVE  CallInv(q)'
<1>1. CallInv(q) /\ call'[q] = call[q] /\ handler'[q] = handler[q] /\ timedOut' = timedOut
  BY DEF ServerInv, Frame, OnlyCall
<1>2. /\ drawn \subseteq drawn' /\ marks \subseteq marks'
      /\ \A i \in drawn \cup {None} : Present(i)' => Present(i)
      /\ \A i \in Id : Present(i)' /\ blocks'[i] # blocks[i] =>
            /\ blocks'[i] = call[r].ask
            /\ \/ ~Present(i)
               \/ Sent(r, "write") /\ call[r].about = i
  BY RowsStay
<1>3. Fits(q)'
  BY <1>1, <1>2 DEF CallInv, Fits, Suits, NoCall, NewCall
<1>4. Gone(q)'
  BY <1>1, <1>2 DEF CallInv, Gone, Fits, Suits
<1>5. ReadsOwn(q)'
  <2>1. ASSUME NEW b, Overtaken(q, b) PROVE Overtaken(q, b)'
    BY <1>1, <2>1, OvertakenStays
  <2>2. ASSUME NEW b, b = blocks'[call[q].about], b # call[q].ask, Present(call[q].about)',
               call[q].op \in {"create", "update"}, call[q].at = "reread"
        PROVE  Overtaken(q, b)'
    <3>1. call[q].about \in Id /\ Present(call[q].about)
      BY <1>1, <1>2, <2>2 DEF CallInv, Fits, Suits, BlockOp, Present
    <3>2. CASE b = blocks[call[q].about]
      <4>1. Overtaken(q, b)
        BY <1>1, <2>2, <3>1, <3>2 DEF CallInv, ReadsOwn
      <4> QED BY <2>1, <4>1
    <3>3. CASE b # blocks[call[q].about]
      <4>1. b = call[r].ask /\ Sent(r, "write") /\ call[r].about = call[q].about
        BY <1>1, <1>2, <2>2, <3>1, <3>3 DEF Present
      <4>2. call[r].op = "update"
        BY <4>1 DEF ServerInv, CallInv, Fits, Suits, Sent
      <4>3. Overtaken(q, b)
        BY <4>1, <4>2 DEF Overtaken, Wants
      <4> QED BY <2>1, <4>3
    <3> QED BY <3>2, <3>3
  <2> QED BY <1>1, <2>1, <2>2 DEF CallInv, ReadsOwn
<1>6. GotWhole(q)'
  BY <1>1, AskedForStays DEF CallInv, GotWhole
<1> QED BY <1>3, <1>4, <1>5, <1>6 DEF CallInv

\* What holds of a row, whatever the step does to it.
LEMMA RowsGood ==
    ASSUME ServerInv, NEW r \in Req, Outcome(r), NEW i \in Id
    PROVE  BlockInv(i)'
<1>1. Frame(r) /\ BlockInv(i) /\ Fits(r) /\ ServerTypeOK /\ earlier' = earlier /\ timedOut' = timedOut
  BY OutcomeFrame DEF ServerInv, CallInv, Frame, OnlyCall
<1>2. /\ drawn \subseteq drawn'
      /\ Present(i)' /\ blocks'[i] # blocks[i] =>
            /\ blocks'[i] = call[r].ask
            /\ \/ Sent(r, "insert") /\ ~Present(i) /\ i \notin drawn
               \/ Sent(r, "write") /\ call[r].about = i /\ Present(i)
      /\ ~Present(i)' /\ (Present(i) \/ i \in drawn' \ drawn) =>
            Sent(r, "delete") /\ call[r].about = i
  BY <1>1, RowsStay
<1>3. Present(i)' => i \in drawn' /\ AskedFor(i, blocks[i])'
  <2>1. ASSUME NEW b, b = blocks'[i], Present(i)'
        PROVE  AskedFor(i, b)'
    <3>1. CASE b = blocks[i]
      BY <1>1, <2>1, <3>1, AskedForStays DEF BlockInv, Present
    <3>2. CASE b # blocks[i]
      <4>1. Wants(r, i, b)
        BY <1>1, <1>2, <2>1, <3>2 DEF Wants, Fits, Suits, Sent
      <4> QED BY <1>1, <4>1, AskedForStays DEF AskedFor
    <3> QED BY <3>1, <3>2
  <2>2. Present(i)' => AskedFor(i, blocks[i])'
    BY <2>1 DEF AskedFor, Wants
  <2> QED BY <1>1, <2>2, RowsStay
<1>4. ASSUME i \in drawn', ~Present(i)'
      PROVE  \E q \in Req : Deletes(q, i)'
  <2>1. CASE i \in drawn /\ ~Present(i)
    <3>1. PICK q \in Req : Deletes(q, i)
      BY <1>1, <2>1 DEF BlockInv
    <3>2. q # r
      BY <1>1, <3>1 DEF Deletes, Fits, Frame
    <3> QED BY <1>1, <3>1, <3>2 DEF Deletes, Frame, OnlyCall
  <2>2. CASE ~(i \in drawn /\ ~Present(i))
    <3>1. Sent(r, "delete") /\ call[r].about = i /\ ~UNCHANGED tables /\ call[r].op = "delete"
      BY <1>1, <1>2, <1>4, <2>2 DEF tables, Present, Fits, Suits, Sent
    <3>2. Deleted(r) \/ Fails(r)
      BY <3>1 DEF Outcome, Arrived, Arrives, Inserts, Loads, Writes, MarkWritten, Reads,
          Misses, Refuses, ReadsMark, LooksUp, Sent
    <3> QED BY <3>1, <3>2 DEF Deleted, Fails, Ended, Keeps, Deletes
  <2> QED BY <2>1, <2>2
<1>5. ASSUME Present(i)', earlier[i] = NoRow
      PROVE  \E q \in Req : Created(q, i)'
  <2>1. CASE Present(i)
    <3>1. PICK q \in Req : Created(q, i)
      BY <1>1, <1>5, <2>1 DEF BlockInv
    <3>2. CASE q # r
      BY <1>1, <3>1, <3>2 DEF Created, Frame, OnlyCall
    <3>3. CASE q = r
      <4>1. call[r].op = "create" /\ call[r].about = i /\ handler[r] = "running"
        BY <1>1, <3>1, <3>3 DEF Created, Fits, Frame, NoCall, NewCall
      <4>2. i # None
        BY ServerAssumption
      <4>3. Sent(r, "reread")
        BY <1>1, <4>1, <4>2 DEF Fits, Suits, Sent, ServerTypeOK, Call, Statement
      <4>4. Reads(r) \/ Fails(r)
        BY <2>1, <4>1, <4>3 DEF Outcome, Arrived, Arrives, Inserts, Loads, Writes, MarkWritten,
            Deleted, Misses, Refuses, ReadsMark, LooksUp, Sent
      <4> QED BY <1>1, <4>1, <4>4 DEF Reads, Fails, Ended, Keeps, Created
    <3> QED BY <3>2, <3>3
  <2>2. CASE ~Present(i)
    <3>1. Sent(r, "insert") /\ ~UNCHANGED tables /\ call[r].about = None /\ call[r].op = "create"
      BY <1>1, <1>2, <1>5, <2>2 DEF tables, Present, Fits, Suits, Sent
    <3>2. Fails(r) \/ \E j \in Id : Inserts(r, j)
      BY <3>1 DEF Outcome, Arrived, Arrives, Loads, Writes, MarkWritten, Deleted, Reads,
          Misses, Refuses, ReadsMark, LooksUp, Sent
    <3>3. CASE Fails(r)
      BY <3>1, <3>3 DEF Fails, Ended, Keeps, Created
    <3>4. ASSUME NEW j \in Id, Inserts(r, j) PROVE Created(r, i)'
      <4>1. i = j
        BY <1>1, <1>5, <2>2, <3>4 DEF Inserts, BlockInserted, Present, ServerTypeOK
      <4> QED BY <3>1, <3>4, <4>1 DEF Inserts, Moves, Keeps, Created
    <3> QED BY <3>2, <3>3, <3>4
  <2> QED BY <2>1, <2>2
<1> QED BY <1>1, <1>3, <1>4, <1>5 DEF BlockInv

LEMMA DeletesOnce ==
    ASSUME ServerInv, NEW r \in Req, Outcome(r)
    PROVE  OneDelete'
<1>1. Frame(r) /\ OneDelete /\ \A q \in Req : Fits(q) /\ Gone(q)
  BY OutcomeFrame DEF ServerInv, CallInv
<1>2. ASSUME call'[r].answer = 204
      PROVE  Present(call[r].about) /\ call'[r].about = call[r].about
  <2>1. Deleted(r)
    BY <1>1, <1>2 DEF Outcome, Arrived, Arrives, Inserts, Loads, Writes, MarkWritten, Reads,
        Misses, Refuses, ReadsMark, LooksUp, Fails, Moves, Ended, Keeps, Fits, Sent
  <2> QED BY <2>1 DEF Deleted, Ended
<1>3. ASSUME NEW q \in Req \ {r}, call'[r].answer = 204, call'[q].answer = 204
      PROVE  call'[q].about # call'[r].about
  <2>1. call'[q] = call[q] /\ ~Present(call[q].about)
    BY <1>1, <1>3 DEF Frame, OnlyCall, Fits, Gone, BlockOp
  <2> QED BY <1>2, <1>3, <2>1
<1> QED BY <1>1, <1>3 DEF OneDelete, Frame, OnlyCall

\* The request that takes the step.
LEMMA OwnStays ==
    ASSUME ServerInv, NEW r \in Req, Outcome(r)
    PROVE  CallInv(r)'
<1>1. Frame(r) /\ CallInv(r) /\ ServerTypeOK /\ timedOut' = timedOut /\ earlier' = earlier
  BY OutcomeFrame DEF ServerInv, Frame, OnlyCall
<1>2. /\ drawn \subseteq drawn' /\ marks \subseteq marks'
      /\ \A i \in drawn \cup {None} : Present(i)' => Present(i)
      /\ \A i \in Id : Present(i)' => i \in drawn'
  BY <1>1, RowsStay
<1>3. ASSUME NEW b, Overtaken(r, b), call'[r].about = call[r].about
      PROVE  Overtaken(r, b)'
  BY <1>1, <1>3, OvertakenStays
<1>4. ASSUME NEW b, NEW i, AskedFor(i, b) PROVE AskedFor(i, b)'
  BY <1>1, <1>4, AskedForStays
<1> USE DEF CallInv
<1>6. CASE Arrived(r)
  <2>1. PICK op \in Op, at \in Statement \cup {"refuse"}, about \in Id \cup Booking \cup {None},
             ask \in Block \cup {NoRow, Invalid} :
             /\ Arrives(r, op, at, about, ask) /\ Suits(op, at, about, ask, drawn) /\ UNCHANGED tables
             /\ at = "reread" => op = "get"
    BY <1>6 DEF Arrived
  <2>2. Fits(r)'
    BY <2>1 DEF Arrives, Fits, Suits, Statement, tables
  <2>3. Gone(r)' /\ ReadsOwn(r)' /\ GotWhole(r)'
    BY <2>1 DEF Arrives, Gone, ReadsOwn, GotWhole
  <2> QED BY <2>2, <2>3
<1>7. ASSUME NEW at \in Statement, NEW about, NEW got, Moves(r, at, about, got), handler[r] = "running",
             Suits(call[r].op, at, about, call[r].ask, drawn'),
             got # NoRow => AskedFor(about, got),
             at = "reread" => blocks'[about] = call[r].ask
      PROVE  CallInv(r)'
  <2>1. call[r].answer = 0
    BY <1>1, <1>7 DEF Fits
  <2>2. Fits(r)'
    BY <1>7, <2>1 DEF Moves, Keeps, Fits, Suits, Statement
  <2>3. Gone(r)' /\ ReadsOwn(r)'
    BY <1>7, <2>1 DEF Moves, Keeps, Gone, ReadsOwn
  <2>4. GotWhole(r)'
    BY <1>4, <1>7 DEF Moves, GotWhole
  <2> QED BY <2>2, <2>3, <2>4
<1>8. ASSUME NEW i \in Id, Inserts(r, i) PROVE CallInv(r)'
  <2>1. blocks'[i] = call[r].ask /\ i \in drawn'
    BY <1>1, <1>8 DEF Inserts, BlockInserted, ServerTypeOK
  <2>2. Suits(call[r].op, "reread", i, call[r].ask, drawn')
    BY <1>1, <1>8, <2>1 DEF Inserts, Moves, Keeps, Sent, Fits, Suits
  <2> QED BY <1>7, <1>8, <2>1, <2>2 DEF Inserts, Sent, Statement
<1>9. CASE Loads(r)
  <2>1. AskedFor(call[r].about, blocks[call[r].about])
    BY <1>9 DEF Loads, ServerInv, BlockInv, Present
  <2>2. Suits(call[r].op, "write", call[r].about, call[r].ask, drawn')
    BY <1>1, <1>2, <1>9 DEF Loads, Moves, Keeps, Sent, Fits, Suits
  <2> QED BY <1>7, <1>9, <2>1, <2>2 DEF Loads, Sent, Statement
<1>10. CASE Writes(r)
  <2>1. blocks'[call[r].about] = call[r].ask
    BY <1>1, <1>10 DEF Writes, BlockWritten, ServerTypeOK, Present
  <2>2. Suits(call[r].op, "reread", call[r].about, call[r].ask, drawn')
    BY <1>1, <1>2, <1>10 DEF Writes, Moves, Keeps, Sent, Fits, Suits
  <2> QED BY <1>1, <1>7, <1>10, <2>1, <2>2 DEF Writes, Sent, GotWhole, Statement
<1>11. CASE MarkWritten(r)
  <2>1. Suits(call[r].op, "mark_reread", call[r].about, call[r].ask, drawn')
    BY <1>1, <1>2, <1>11 DEF MarkWritten, Moves, Keeps, Sent, Fits, Suits
  <2> QED BY <1>7, <1>11, <2>1 DEF MarkWritten, Sent, Statement
<1>12. ASSUME NEW outcome \in {"done", "failed"}, NEW status \in Status \ {0}, NEW got,
              Ended(r, outcome, status, got), ~Sent(r, "insert") \/ status = 500,
              status = 204 => call[r].op = "delete",
              call[r].op \in BlockOp /\ status \in {204, 404} => ~Present(call[r].about)',
              call[r].op \in {"create", "update"} /\ status \in {200, 201} /\ got # call[r].ask =>
                  Overtaken(r, got),
              got # NoRow => AskedFor(call[r].about, got)
       PROVE  CallInv(r)'
  <2> USE DEF Ended, Keeps
  <2>1. Fits(r)'
    BY <1>1, <1>2, <1>12 DEF Fits, Suits
  <2>2. Gone(r)'
    BY <1>12 DEF Gone, Present
  <2>3. ReadsOwn(r)'
    BY <1>3, <1>12 DEF ReadsOwn
  <2>4. GotWhole(r)'
    BY <1>4, <1>12 DEF GotWhole
  <2> QED BY <2>1, <2>2, <2>3, <2>4
<1>13. CASE Deleted(r)
  <2>1. ~Present(call[r].about)' /\ call[r].op = "delete"
    BY <1>1, <1>13 DEF Deleted, BlockDeleted, Present, ServerTypeOK, Ended, Fits, Suits, Sent
  <2> QED BY <1>12, <1>13, <2>1 DEF Deleted, Status, Sent
<1>14. CASE Reads(r)
  <2>1. call[r].op \in {"create", "get", "update"}
    BY <1>1, <1>14 DEF Reads, Fits, Suits, Sent
  <2>2. AskedFor(call[r].about, blocks[call[r].about])
    BY <1>14 DEF Reads, ServerInv, BlockInv, Present
  <2>3. call[r].op \in {"create", "update"} /\ blocks[call[r].about] # call[r].ask =>
           Overtaken(r, blocks[call[r].about])
    BY <1>1, <1>14 DEF Reads, ReadsOwn, Sent
  <2>4. PICK status \in {200, 201} : Ended(r, "done", status, blocks[call[r].about])
    BY <1>14 DEF Reads
  <2> QED BY <1>12, <1>14, <2>1, <2>2, <2>3, <2>4 DEF Reads, Status, Sent
<1>15. CASE Misses(r)
  <2>1. ~Present(call[r].about)' /\ ~Sent(r, "insert")
    BY <1>15 DEF Misses, Present, tables, Ended, Sent
  <2> QED BY <1>12, <1>15, <2>1 DEF Misses, Status
<1>16. CASE Refuses(r)
  <2>1. PICK status \in {400, 500} : Ended(r, "done", status, NoRow)
    BY <1>16 DEF Refuses
  <2>2. ~Sent(r, "insert")
    BY <1>16 DEF Refuses, Sent
  <2> QED BY <1>12, <2>1, <2>2 DEF Status
<1>17. CASE ReadsMark(r)
  <2>1. call[r].op \notin BlockOp
    BY <1>1, <1>17 DEF ReadsMark, Fits, Suits, Sent, BlockOp
  <2> QED BY <1>12, <1>17, <2>1 DEF ReadsMark, Status, Sent, BlockOp
<1>19. CASE LooksUp(r)
  <2>1. call[r].op \notin BlockOp
    BY <1>1, <1>19 DEF LooksUp, Fits, Suits, Sent, BlockOp
  <2> QED BY <1>12, <1>19, <2>1 DEF LooksUp, Status, Sent, BlockOp
<1>20. CASE Fails(r)
  BY <1>12, <1>20 DEF Fails, Status
<1> QED BY <1>6, <1>8, <1>9, <1>10, <1>11, <1>13, <1>14, <1>15, <1>16, <1>17, <1>19, <1>20
    DEF Outcome

-----------------------------------------------------------------------------
LEMMA ServerInitInv == ServerInit => ServerInv
<1> SUFFICES ASSUME ServerInit PROVE ServerInv
  OBVIOUS
<1>1. LifecycleInv
  BY LifecycleInit DEF ServerInit
<1>2. ServerTypeOK
  <2>1. NoCall \in Call
    BY DEF NoCall, NewCall, Call, Op, Status
  <2> QED BY <2>1, ServerAssumption DEF ServerInit, ServerTypeOK
<1>3. ASSUME NEW r \in Req PROVE CallInv(r)
  <2>1. call[r] = NoCall /\ handler[r] = "none"
    BY DEF ServerInit, Init
  <2> QED BY <2>1 DEF NoCall, NewCall, CallInv, Fits, Suits, Gone, ReadsOwn, GotWhole, BlockOp
<1>4. ASSUME NEW i \in Id PROVE BlockInv(i)
  BY DEF ServerInit, BlockInv, Present, AskedFor
<1>5. OneDelete
  BY DEF ServerInit, OneDelete, NoCall, NewCall
<1> QED BY <1>1, <1>2, <1>3, <1>4, <1>5 DEF ServerInv

\* Every step of Server is a step of Lifecycle or leaves its state alone.
LEMMA StepMaps ==
    ASSUME ServerInv, [ServerNext]_serverVars
    PROVE  [Next]_vars
<1>1. CASE MainStep
  BY <1>1 DEF Next
<1>2. ASSUME NEW r \in Req, HandlerStep(r)
      PROVE  [Next]_vars
  <2>1. CASE ArriveForBlock(r) \/ ArriveForMark(r) \/ ArriveElsewhere(r)
    BY <2>1 DEF ArriveForBlock, ArriveForMark, ArriveElsewhere, Arrive, Next
  <2>2. CASE Proceed(r) \/ ReplyLost(r)
    BY <2>2 DEF Proceed, Refuse, InsertBlock, LoadBlock, WriteBlock, RereadBlock, DeleteBlock,
        InsertMark, RereadMark, ListMarks, GetSlotsByIDs, GetSlotOrBooking, PoolClosed, ReplyLost, Reply, Answer, Ends,
        GoTo, Next
  <2> QED BY <1>2, <2>1, <2>2 DEF HandlerStep
<1>3. CASE UNCHANGED serverVars
  BY <1>3 DEF serverVars
<1> QED BY <1>1, <1>2, <1>3 DEF ServerNext, HandlerStep

\* A step of the main goroutine may only end handlers.
LEMMA MainStays ==
    ASSUME ServerInv, LifecycleInv', MainStep \/ UNCHANGED vars,
           UNCHANGED <<tables, earlier, call>>
    PROVE  ServerInv'
<1>1. ASSUME NEW r \in Req
      PROVE  /\ handler'[r] = handler[r] \/ (handler[r] = "running" /\ handler'[r] = "cut" /\ timedOut')
             /\ timedOut => timedOut'
  BY DEF MainStep, OpenStorage, OpenLocker, Serve, Stop, CloseListener, Drain, CloseStorage,
      CloseLocker, ListenerFails, StopRequested, vars, ServerInv, LifecycleInv, TypeOK,
      NobodyCutInTime, DrainedInTime
<1>2. ServerTypeOK'
  BY DEF ServerInv, ServerTypeOK, tables
<1>3. ASSUME NEW r \in Req PROVE CallInv(r)'
  <2>1. CallInv(r)
    BY DEF ServerInv
  <2> USE DEF tables
  <2>2. Fits(r)'
    BY <1>1, <2>1 DEF CallInv, Fits, Suits, NoCall, NewCall
  <2>3. Gone(r)'
    BY <2>1 DEF CallInv, Gone, Present
  <2>4. ReadsOwn(r)'
    BY <2>1 DEF CallInv, ReadsOwn, Present, Overtaken, Wants
  <2>5. GotWhole(r)'
    BY <2>1 DEF CallInv, GotWhole, AskedFor, Wants
  <2> QED BY <2>2, <2>3, <2>4, <2>5 DEF CallInv
<1>4. ASSUME NEW i \in Id PROVE BlockInv(i)'
  <2>1. BlockInv(i)
    BY DEF ServerInv
  <2>2. ASSUME NEW r \in Req, Created(r, i) PROVE Created(r, i)'
    BY <1>1, <2>2 DEF Created
  <2>3. (Present(i) => i \in drawn /\ AskedFor(i, blocks[i]))'
    BY <2>1 DEF BlockInv, Present, AskedFor, Wants, tables
  <2>4. (i \in drawn /\ ~Present(i) => \E r \in Req : Deletes(r, i))'
    BY <2>1 DEF BlockInv, Present, Deletes, tables
  <2>5. (Present(i) /\ earlier[i] = NoRow => \E r \in Req : Created(r, i))'
    BY <2>1, <2>2 DEF BlockInv, Present, tables
  <2> QED BY <2>3, <2>4, <2>5 DEF BlockInv
<1>5. OneDelete'
  BY DEF ServerInv, OneDelete
<1> QED BY <1>2, <1>3, <1>4, <1>5 DEF ServerInv

LEMMA ServerNextInv ==
    ASSUME ServerInv, [ServerNext]_serverVars
    PROVE  ServerInv'
<1>1. LifecycleInv'
  BY StepMaps, LifecycleNext DEF ServerInv
<1>2. CASE MainStep /\ UNCHANGED <<tables, earlier, call>>
  BY <1>1, <1>2, MainStays
<1>3. ASSUME NEW r \in Req, HandlerStep(r) PROVE ServerInv'
  <2>1. Outcome(r) /\ Frame(r)
    BY <1>3, StepOutcome, OutcomeFrame
  <2>2. ServerTypeOK'
    BY <2>1, RowsStay DEF Frame, OnlyCall, ServerInv, ServerTypeOK
  <2>3. \A q \in Req : CallInv(q)'
    BY <2>1, OwnStays, OthersStay
  <2>4. \A i \in Id : BlockInv(i)'
    BY <2>1, RowsGood
  <2>5. OneDelete'
    BY <2>1, DeletesOnce
  <2> QED BY <1>1, <2>2, <2>3, <2>4, <2>5 DEF ServerInv
<1>4. CASE UNCHANGED serverVars
  BY <1>1, <1>4, MainStays DEF serverVars
<1> QED BY <1>2, <1>3, <1>4 DEF ServerNext, HandlerStep

-----------------------------------------------------------------------------
\* The inductive invariant of the whole server.
THEOREM ServerCorrect == ServerSpec => []ServerInv
BY ServerInitInv, ServerNextInv, PTL DEF ServerSpec

\* The rows, the requests and the handlers keep their types.
THEOREM ServerTypeCorrect == ServerSpec => []ServerTypeOK
<1>1. ServerInv => ServerTypeOK
  BY DEF ServerInv
<1> QED BY <1>1, ServerCorrect, PTL

\* The handlers, the main goroutine and the pools behave as in Lifecycle.
THEOREM ServerImplementsLifecycle == ServerSpec => ImplementsLifecycle
<1>1. ServerInit => Init
  BY DEF ServerInit
<1>2. ServerInv /\ [ServerNext]_serverVars => [Next]_vars
  BY StepMaps
<1> QED BY <1>1, <1>2, ServerCorrect, PTL DEF ServerSpec, Spec, ImplementsLifecycle

\* Updates that cross never leave, nor show, a block nobody asked for.
THEOREM RowsAreWhole == ServerSpec => []RowsWhole
<1>1. ServerInv => RowsWhole
  BY DEF ServerInv, CallInv, BlockInv, GotWhole, RowsWhole
<1> QED BY <1>1, ServerCorrect, PTL

\* A deleted block never comes back, and its DELETE is answered once.
THEOREM DeletesAreFinal == ServerSpec => [](GoneForGood /\ DeletedOnce)
<1>1. ServerInv => GoneForGood
  BY DEF ServerInv, CallInv, Gone, GoneForGood, BlockOp
<1>2. ServerInv => DeletedOnce
  BY DEF ServerInv, OneDelete, BlockInv, Deletes, DeletedOnce, ServerTypeOK
<1> QED BY <1>1, <1>2, ServerCorrect, PTL

\* A create or an update shows its own block unless an update overtook it.
THEOREM AnswersShowOwnWrite == ServerSpec => []OwnWriteSeen
<1>1. ServerInv => OwnWriteSeen
  BY DEF ServerInv, CallInv, ReadsOwn, Overtaken, OwnWriteSeen
<1> QED BY <1>1, ServerCorrect, PTL

\* A block that nobody was told of comes from a create that was cut off.
THEOREM OrphansExplained == ServerSpec => []OrphanOnlyWhenCut
<1>1. ServerInv => OrphanOnlyWhenCut
  BY DEF ServerInv, BlockInv, Created, OrphanOnlyWhenCut
<1> QED BY <1>1, ServerCorrect, PTL
=============================================================================
