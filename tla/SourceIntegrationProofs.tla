---------------------- MODULE SourceIntegrationProofs ----------------------
(***************************************************************************)
(* Proofs about SourceIntegration, for any number of callers, accounts,    *)
(* labels and integrations: the sources of an account stay distinct unless *)
(* its puts race, the listing of one of them lacks a row, or one of its    *)
(* sources is given another label, and the queue policy admits exactly the *)
(* accounts with log sources, unless they are suspect.                     *)
(*                                                                         *)
(* Distinct sources: unless the account is raced, there was no conflicting *)
(* row when a put began, and while it is the only put of its account       *)
(* nobody can write one, so that there is still none when it stores its    *)
(* row.                                                                    *)
(*                                                                         *)
(* The queue policy: while a call is the only one of its account, its      *)
(* place in the code says what it has done to the statement and how many   *)
(* log sources the account has (PutPerm, DeletePerm).  A step that has to  *)
(* do with another account leaves this one untouched, or spoils it by a    *)
(* write of an older policy: then the account is suspect, and no call      *)
(* vouches for it any more.  A call that is misled by a scan, or not told  *)
(* that its write took effect, spoils its own account.                     *)
(***************************************************************************)
EXTENDS SourceIntegration, TLAPS

CallRecords ==
    [op : {"none", "put", "delete", "update"},
     pc : {"idle", "add", "addSet", "addAgain", "store", "scan",
           "siblings", "remove", "removeSet", "drop", "update"},
     id : Ids \cup {0}, type : Types \cup {"none"},
     account : Accounts \cup {"none"}, label : Labels \cup {"none"},
     seen : SUBSET Accounts, added : BOOLEAN, alone : BOOLEAN]

\* A put that has not stored its row, and may still do so.
Pending(p) == p.op = "put" /\ p.pc \in {"add", "addSet", "addAgain", "store"}

\* Where the calls of each operation can be.
Shape(p) ==
    \/ p = Idle
    \/ /\ p.account \in Accounts
       /\ \/ /\ p.op = "put" /\ p.type \in Types
             /\ p.pc \in {"add", "addSet", "addAgain", "store", "scan", "remove", "removeSet"}
          \/ /\ p.op = "delete"
             /\ p.pc \in {"siblings", "remove", "removeSet", "drop", "add", "addSet", "addAgain"}
          \/ p.op = "update" /\ p.pc = "update"
       /\ p.pc \in {"scan", "update"} => p.id \in Ids

CallsShaped == \A c \in Callers : Shape(call[c])

\* IDs are given out once, in order.
IdsFresh ==
    /\ \A id \in Ids : id > puts => table[id] = NoRow
    /\ \A c \in Callers : call[c].id <= puts
    /\ \A id \in requests : id <= puts

\* Two puts of one account are under way only after a race was noted.
PutsRace ==
    \A c, d \in Callers :
        /\ c # d /\ call[c].op = "put" /\ call[d].op = "put"
        /\ call[c].account = call[d].account
        => call[c].account \in raced

\* What a put found in the table when it began still holds.
PendingIsNew ==
    \A c \in Callers : \A id \in Ids :
        Pending(call[c]) /\ call[c].account \notin raced
        => ~Conflict(table[id], call[c].type, call[c].account, call[c].label)

\* An update is for the account of its row.
UpdateOwner ==
    \A c \in Callers :
        call[c].pc = "update" /\ table[call[c].id].type \in Types
        => table[call[c].id].account = call[c].account

\* A source has an account.
RowsOwned == \A id \in Ids : table[id].type \in Types => table[id].account \in Accounts

\* The inductive invariant.
IInv ==
    /\ TypeOK /\ CallsShaped /\ IdsFresh /\ PutsRace /\ PendingIsNew /\ UpdateOwner
    /\ RowsOwned /\ SourcesAreDistinct

\* A call goes on as what it was, or returns.
Follows(p, q) ==
    \/ q = Idle
    \/ /\ q.op = p.op /\ q.type = p.type /\ q.account = p.account /\ q.label = p.label
       /\ q.id = p.id /\ Shape(q)
       /\ Pending(q) => Pending(p)
       /\ q.pc = "update" => p.pc = "update"

\* A row is of the source it was of, or of none.
SameSource(r, s) ==
    s.type \in Types => s.type = r.type /\ s.account = r.account /\ s.label = r.label

-----------------------------------------------------------------------------
\* The call of nobody is a call record.
LEMMA IdleTyped == Idle \in CallRecords /\ NoRow \in Rows
BY DEF Idle, CallRecords, NoRow, Rows

\* A call under way is not the idle record.
LEMMA NotIdle ==
    ASSUME NEW q, q.pc # "idle"
    PROVE  q # Idle
BY DEF Idle

\* A call that stays where it is follows itself.
LEMMA FollowsItself ==
    ASSUME NEW p, Shape(p)
    PROVE  Follows(p, p)
BY DEF Follows

\* Steps that store no row, start no call and give no label keep the invariant:
\* every call goes on or returns, every row stays of its source or goes.
LEMMA QuietStep ==
    ASSUME IInv, TypeOK', puts' = puts, raced' = raced,
           \A c \in Callers : Follows(call[c], call'[c]),
           \A id \in Ids : SameSource(table[id], table'[id]),
           \A id \in Ids : id > puts => table'[id] = NoRow,
           \A id \in requests' : id <= puts
    PROVE  IInv'
<1>0. /\ \A c \in Callers : call[c] \in CallRecords /\ call'[c] \in CallRecords
      /\ \A id \in Ids : table[id] \in Rows /\ table'[id] \in Rows
      /\ puts \in Nat
  BY DEF IInv, TypeOK, CallRecords
<1>1. CallsShaped'
  BY DEF CallsShaped, Follows, Shape
<1>2. IdsFresh'
  <2>1. \A c \in Callers : call'[c].id <= puts
    BY <1>0 DEF IInv, IdsFresh, Follows, Idle
  <2>2. QED BY <2>1 DEF IdsFresh
<1>3. PutsRace'
  BY DEF IInv, PutsRace, Follows, Idle
<1>4. PendingIsNew'
  <2> SUFFICES ASSUME NEW c \in Callers, NEW id \in Ids,
                      Pending(call'[c]), call'[c].account \notin raced
               PROVE  ~Conflict(table'[id], call'[c].type, call'[c].account, call'[c].label)
    BY DEF PendingIsNew
  <2>1. call'[c] # Idle
    BY DEF Pending, Idle
  <2>2. /\ call'[c].type = call[c].type /\ call'[c].account = call[c].account
        /\ call'[c].label = call[c].label /\ Pending(call[c]) /\ call'[c].type \in Types
    BY <2>1 DEF Follows, Shape, Pending
  <2>3. ~Conflict(table[id], call[c].type, call[c].account, call[c].label)
    BY <2>2 DEF IInv, PendingIsNew
  <2>4. QED BY <2>2, <2>3 DEF Conflict, SameSource
<1>5. UpdateOwner'
  <2> SUFFICES ASSUME NEW c \in Callers, call'[c].pc = "update",
                      table'[call'[c].id].type \in Types
               PROVE  table'[call'[c].id].account = call'[c].account
    BY DEF UpdateOwner
  <2>1. call'[c] # Idle
    BY DEF Idle
  <2>2. /\ call[c].pc = "update" /\ call'[c].id = call[c].id /\ call'[c].id \in Ids
        /\ call'[c].account = call[c].account
    BY <2>1 DEF Follows, Shape
  <2>3. QED BY <2>2 DEF IInv, UpdateOwner, SameSource
<1>6. SourcesAreDistinct'
  BY <1>0 DEF IInv, SourcesAreDistinct, Stored, Conflict, SameSource, NoRow, Types
<1>7. RowsOwned'
  BY DEF IInv, RowsOwned, SameSource
<1>8. QED BY <1>1, <1>2, <1>3, <1>4, <1>5, <1>6, <1>7 DEF IInv

-----------------------------------------------------------------------------
\* A put that goes on after AddPermission, or undoes it.
LEMMA ReturnFollows ==
    ASSUME NEW p \in CallRecords, Shape(p), p.op = "put", NEW to \in {"store", "remove"},
           p.pc \in {"add", "addSet", "addAgain"}
    PROVE  LET q == [p EXCEPT !.pc = to, !.seen = {}]
           IN  q \in CallRecords /\ Follows(p, q)
<1>1. {} \in SUBSET Accounts
  OBVIOUS
<1>2. [p EXCEPT !.pc = to, !.seen = {}] \in CallRecords
  BY Zenon, <1>1 DEF CallRecords
<1>3. QED BY <1>2 DEF Follows, Shape, Pending, CallRecords, Idle

\* AddPermission goes back to a put or a delete that called it, or that call
\* returns.
LEMMA AfterAddFollows ==
    ASSUME NEW p \in CallRecords, Shape(p), p.pc \in {"add", "addSet", "addAgain"},
           NEW err \in BOOLEAN
    PROVE  AfterAdd(p, err) \in CallRecords /\ Follows(p, AfterAdd(p, err))
<1>1. CASE p.op = "delete" \/ (err /\ ~p.added)
  BY <1>1, IdleTyped DEF AfterAdd, Follows
<1>2. CASE p.op # "delete" /\ ~err
  <2>1. AfterAdd(p, err) = [p EXCEPT !.pc = "store", !.seen = {}]
    BY <1>2 DEF AfterAdd
  <2>2. p.op = "put"
    BY <1>2 DEF Shape, Idle
  <2>3. QED BY Zenon, <2>1, <2>2, ReturnFollows
<1>3. CASE p.op # "delete" /\ err /\ p.added
  <2>1. AfterAdd(p, err) = [p EXCEPT !.pc = "remove", !.seen = {}]
    BY <1>3 DEF AfterAdd
  <2>2. p.op = "put"
    BY <1>3 DEF Shape, Idle
  <2>3. QED BY Zenon, <2>1, <2>2, ReturnFollows
<1>4. QED BY <1>1, <1>2, <1>3

\* RemovePermission goes back to the delete that called it, or the call returns.
LEMMA AfterRemoveFollows ==
    ASSUME NEW p \in CallRecords, Shape(p), p.pc \in {"remove", "removeSet"},
           NEW err \in BOOLEAN
    PROVE  AfterRemove(p, err) \in CallRecords /\ Follows(p, AfterRemove(p, err))
<1>1. CASE p.op = "put" \/ err
  BY <1>1, IdleTyped DEF AfterRemove, Follows
<1>2. CASE ~(p.op = "put" \/ err)
  <2>1. AfterRemove(p, err) = [p EXCEPT !.pc = "drop", !.added = TRUE, !.seen = {}]
    BY <1>2 DEF AfterRemove
  <2>2. p.op = "delete"
    BY <1>2 DEF Shape, Idle
  <2>3. [p EXCEPT !.pc = "drop", !.added = TRUE, !.seen = {}] \in CallRecords
    <3>1. {} \in SUBSET Accounts /\ TRUE \in BOOLEAN
      OBVIOUS
    <3>2. QED BY Zenon, <3>1 DEF CallRecords
  <2>4. QED BY <2>1, <2>2, <2>3 DEF Follows, Shape, Pending, CallRecords, Idle
<1>3. QED BY <1>1, <1>2

\* Moves of a call within its operation.
Moves(p, to) ==
    \/ p.op = "put" /\ to \in {"add", "addSet", "addAgain"} /\ Pending(p)
    \/ p.op = "put" /\ to \in {"remove", "removeSet"}
    \/ /\ p.op = "delete"
       /\ to \in {"siblings", "remove", "removeSet", "drop", "add", "addSet", "addAgain"}

\* A call that only moves follows what it was,
LEMMA MoveFollows ==
    ASSUME NEW p \in CallRecords, Shape(p), p # Idle, NEW to, Moves(p, to)
    PROVE  LET q == [p EXCEPT !.pc = to] IN q \in CallRecords /\ Follows(p, q)
<1>1. [p EXCEPT !.pc = to] \in CallRecords
  BY DEF CallRecords, Moves
<1>2. QED BY <1>1 DEF Follows, Shape, Pending, CallRecords, Idle, Moves

\* one that goes on in doubt does,
LEMMA DoubtFollows ==
    ASSUME NEW p \in CallRecords, Shape(p), p # Idle, NEW to, Moves(p, to)
    PROVE  LET q == [[p EXCEPT !.pc = to] EXCEPT !.alone = FALSE]
           IN  q \in CallRecords /\ Follows(p, q)
<1>1. PICK m : m = [p EXCEPT !.pc = to]
  BY Zenon
<1>2. m \in CallRecords /\ Follows(p, m) /\ m.pc = to
  BY Zenon, <1>1, MoveFollows DEF CallRecords
<1>3. PICK q : q = [m EXCEPT !.alone = FALSE]
  BY Zenon
<1>4. /\ q \in CallRecords /\ q.op = m.op /\ q.pc = m.pc /\ q.id = m.id /\ q.type = m.type
      /\ q.account = m.account /\ q.label = m.label
  BY Zenon, <1>2, <1>3 DEF CallRecords
<1>5. m # Idle /\ q # Idle
  BY <1>2, <1>4, NotIdle DEF Moves
<1>6. Follows(p, q)
  BY Zenon, <1>2, <1>4, <1>5 DEF Follows, Shape, Pending
<1> QED
  BY Zenon, <1>1, <1>3, <1>4, <1>6

\* and so does one that notes what it saw, or added, on its way.
LEMMA NoteFollows ==
    ASSUME NEW p \in CallRecords, Shape(p), p # Idle, NEW to, Moves(p, to),
           NEW seen \in SUBSET Accounts
    PROVE  LET q == [p EXCEPT !.pc = to, !.seen = seen]
               r == [p EXCEPT !.pc = to, !.seen = seen, !.added = TRUE]
           IN  /\ q \in CallRecords /\ Follows(p, q)
               /\ r \in CallRecords /\ Follows(p, r)
<1>1. /\ [p EXCEPT !.pc = to, !.seen = seen] \in CallRecords
      /\ [p EXCEPT !.pc = to, !.seen = seen, !.added = TRUE] \in CallRecords
  BY Zenon DEF CallRecords, Moves
<1>2. QED BY <1>1 DEF Follows, Shape, Pending, CallRecords, Idle, Moves

-----------------------------------------------------------------------------
\* The policy is written: other calls may only learn that they were disturbed.
LEMMA SetPolicyQuiet ==
    ASSUME IInv, NEW c \in Callers, NEW new \in SUBSET Accounts, NEW next \in CallRecords,
           Follows(call[c], next), SetPolicy(c, new, next)
    PROVE  /\ policy' \subseteq Accounts /\ suspect' \subseteq Accounts
           /\ call' \in [Callers -> CallRecords]
           /\ \A d \in Callers : Follows(call[d], call'[d])
<1>1. call \in [Callers -> CallRecords] /\ policy \subseteq Accounts /\ suspect \subseteq Accounts
  BY DEF IInv, TypeOK, CallRecords
<1>2. \A d \in Callers : [call[d] EXCEPT !.alone = FALSE] \in CallRecords
  BY Zenon, <1>1 DEF CallRecords
<1>3. \A d \in Callers : Follows(call[d], call[d])
  BY FollowsItself DEF IInv, CallsShaped
<1>4. \A d \in Callers : call[d].account \in Accounts
          => Follows(call[d], [call[d] EXCEPT !.alone = FALSE])
  <2> SUFFICES ASSUME NEW d \in Callers, call[d].account \in Accounts
               PROVE  Follows(call[d], [call[d] EXCEPT !.alone = FALSE])
    OBVIOUS
  <2>1. call[d] \in CallRecords /\ Shape(call[d])
    BY <1>1 DEF IInv, CallsShaped
  <2>2. call[d] # Idle
    BY SourceAssumption DEF Idle
  <2>3. QED BY <2>1, <2>2 DEF Follows, Shape, Pending, CallRecords
<1>5. /\ policy' \subseteq Accounts /\ suspect' \subseteq Accounts
  BY <1>1 DEF SetPolicy, CallRecords
<1>6. call' \in [Callers -> CallRecords]
  BY <1>1, <1>2 DEF SetPolicy
<1>7. ASSUME NEW d \in Callers
      PROVE  Follows(call[d], call'[d])
  <2>1. CASE d = c
    BY <2>1 DEF SetPolicy
  <2>2. CASE d # c /\ call'[d] = call[d]
    BY <2>2, <1>3
  <2>3. CASE d # c /\ call'[d] # call[d]
    <3>1. call'[d] = [call[d] EXCEPT !.alone = FALSE] /\ call[d].account \in Accounts
      BY <2>3, <1>1 DEF SetPolicy, CallRecords
    <3>2. QED BY <3>1, <1>4
  <2>4. QED BY <2>1, <2>2, <2>3
<1>8. QED BY <1>5, <1>6, <1>7

\* One call goes on, or returns.
LEMMA ContinueQuiet ==
    ASSUME IInv, NEW c \in Callers, NEW next \in CallRecords, Follows(call[c], next),
           Continue(c, next)
    PROVE  /\ call' \in [Callers -> CallRecords]
           /\ \A d \in Callers : Follows(call[d], call'[d])
<1>1. call \in [Callers -> CallRecords]
  BY DEF IInv, TypeOK, CallRecords
<1>2. \A d \in Callers : Follows(call[d], call[d])
  BY FollowsItself DEF IInv, CallsShaped
<1>3. QED BY <1>1, <1>2 DEF Continue

\* What QuietStep needs when the table stays as it is.
LEMMA TableStays ==
    ASSUME IInv, UNCHANGED <<kind, table, puts, requests, raced>>,
           call' \in [Callers -> CallRecords],
           \A d \in Callers : Follows(call[d], call'[d]),
           policy' \subseteq Accounts, suspect' \subseteq Accounts
    PROVE  IInv'
<1>1. TypeOK'
  BY DEF IInv, TypeOK, CallRecords
<1>2. \A id \in Ids : SameSource(table[id], table'[id])
  BY DEF SameSource
<1>3. /\ \A id \in Ids : id > puts => table'[id] = NoRow
      /\ \A id \in requests' : id <= puts
  BY DEF IInv, IdsFresh
<1>4. QED BY <1>1, <1>2, <1>3, QuietStep

\* What QuietStep needs when the calls stay as they are.
LEMMA CallsStay ==
    ASSUME IInv, UNCHANGED <<kind, policy, puts, call, suspect, raced>>,
           table' \in [Ids -> Rows], requests' \subseteq Ids,
           \A id \in Ids : SameSource(table[id], table'[id]),
           \A id \in Ids : id > puts => table'[id] = NoRow,
           \A id \in requests' : id <= puts
    PROVE  IInv'
<1>1. TypeOK'
  BY DEF IInv, TypeOK, CallRecords
<1>2. \A c \in Callers : Follows(call[c], call'[c])
  BY FollowsItself DEF IInv, CallsShaped
<1>3. QED BY <1>1, <1>2, QuietStep

-----------------------------------------------------------------------------
\* The steps of a call, other than the one that stores its row and the one that
\* changes a label.
LEMMA CallStepInv ==
    ASSUME IInv, kind' = kind, NEW c \in Callers,
           \/ StoreFails(c) \/ ScanNew(c) \/ AddGet(c) \/ AddSet(c) \/ AddAgain(c)
           \/ RemoveGet(c) \/ RemoveSet(c) \/ Siblings(c) \/ SiblingsMisled(c) \/ Drop(c)
           \/ DropFails(c) \/ DropUnanswered(c) \/ RequestFails(c) \/ Killed(c)
    PROVE  IInv'
<1> DEFINE p == call[c]
<1>0. /\ p \in CallRecords /\ Shape(p)
      /\ call \in [Callers -> CallRecords] /\ policy \subseteq Accounts
      /\ suspect \subseteq Accounts
  BY DEF IInv, TypeOK, CallsShaped, CallRecords
<1>1. Idle \in CallRecords /\ Follows(p, Idle)
  BY IdleTyped DEF Follows
<1>2. /\ p.seen \in SUBSET Accounts
      /\ p # Idle => p.account \in Accounts
  BY <1>0 DEF Shape, CallRecords
<1>4. CASE StoreFails(c)
  <2>1. p.op = "put" /\ p # Idle
    BY <1>0, <1>4 DEF StoreFails, Shape, Idle
  <2>2. At(c, "remove") = [p EXCEPT !.pc = "remove"]
    BY <1>0 DEF At
  <2>3. At(c, "remove") \in CallRecords /\ Follows(p, At(c, "remove"))
    BY <1>0, <2>1, <2>2, MoveFollows DEF Moves
  <2>4. QED BY <1>0, <1>1, <1>4, <2>3, ContinueQuiet, TableStays DEF StoreFails, history
<1>5. CASE ScanNew(c)
  <2>1. p.id \in Ids /\ p.id <= puts
    BY <1>0, <1>5 DEF ScanNew, Shape, Idle, IInv, IdsFresh
  <2>2. call' \in [Callers -> CallRecords] /\ \A d \in Callers : Follows(call[d], call'[d])
    BY <1>1, <1>5, ContinueQuiet DEF ScanNew
  <2>3. requests' \subseteq Ids /\ \A id \in requests' : id <= puts
    BY <1>5, <2>1 DEF ScanNew, IInv, TypeOK, IdsFresh
  <2>4. TypeOK' /\ UNCHANGED <<table, puts, raced>>
    BY <1>5, <2>2, <2>3 DEF ScanNew, IInv, TypeOK, CallRecords, history
  <2>5. /\ \A id \in Ids : SameSource(table[id], table'[id])
        /\ \A id \in Ids : id > puts => table'[id] = NoRow
    BY <2>4 DEF SameSource, IInv, IdsFresh
  <2>6. QED BY <2>2, <2>3, <2>4, <2>5, QuietStep
<1>6. CASE RequestFails(c)
  BY <1>0, <1>1, <1>6, ContinueQuiet, TableStays DEF RequestFails, history
<1>7. CASE Killed(c)
  <2>1. suspect' \subseteq Accounts
    BY <1>0, <1>2, <1>7 DEF Killed
  <2>2. QED BY <1>0, <1>1, <1>7, <2>1, ContinueQuiet, TableStays DEF Killed
<1>8. CASE Siblings(c)
  <2>1. p.op = "delete" /\ p # Idle
    BY SMTT(30), SMTT(60), <1>0, <1>8 DEF Siblings, Shape, Idle
  <2>2. ASSUME NEW to \in {"remove", "drop"}
        PROVE  At(c, to) \in CallRecords /\ Follows(p, At(c, to))
    <3>1. At(c, to) = [p EXCEPT !.pc = to]
      BY <1>0 DEF At
    <3>2. QED BY <1>0, <2>1, <3>1, MoveFollows DEF Moves
  <2>3. QED BY SMTT(30), SMTT(60), <1>0, <1>8, <2>2, ContinueQuiet, TableStays DEF Siblings, history
<1>9. CASE DropFails(c)
  <2>1. p.op = "delete" /\ p # Idle
    BY SMTT(30), <1>0, <1>9 DEF DropFails, Shape, Idle
  <2>2. At(c, "add") = [p EXCEPT !.pc = "add"]
    BY <1>0 DEF At
  <2>3. At(c, "add") \in CallRecords /\ Follows(p, At(c, "add"))
    BY <1>0, <2>1, <2>2, MoveFollows DEF Moves
  <2>4. QED BY <1>0, <1>1, <1>9, <2>3, ContinueQuiet, TableStays DEF DropFails, history
<1>10. ASSUME DeleteItem(c), UNCHANGED <<puts, requests, raced>>, policy' = policy,
              suspect' \subseteq Accounts,
              NEW next \in CallRecords, Follows(p, next), Continue(c, next)
       PROVE  IInv'
  <2>1. call' \in [Callers -> CallRecords] /\ \A d \in Callers : Follows(call[d], call'[d])
    BY Zenon, <1>10, ContinueQuiet
  <2>2. /\ table' \in [Ids -> Rows] /\ \A id \in Ids : table'[id] \in {table[id], NoRow}
    BY Zenon, <1>10, IdleTyped DEF DeleteItem, IInv, TypeOK
  <2>3. TypeOK'
    BY SMTT(30), SMTT(60), <1>10, <2>1, <2>2 DEF IInv, TypeOK, CallRecords
  <2>4. \A id \in Ids : SameSource(table[id], table'[id])
    BY <2>2 DEF SameSource, NoRow, Types
  <2>5. /\ \A id \in Ids : id > puts => table'[id] = NoRow
        /\ \A id \in requests' : id <= puts
    BY <1>10, <2>2 DEF IInv, IdsFresh
  <2>6. QED BY SMTT(30), SMTT(60), <1>10, <2>1, <2>3, <2>4, <2>5, QuietStep
<1>11. CASE AddGet(c)
  <2>1. p # Idle /\ p.op \in {"put", "delete"} /\ p.pc = "add"
    BY <1>0, <1>11 DEF AddGet, Shape, Idle
  <2>2. \A err \in BOOLEAN : AfterAdd(p, err) \in CallRecords /\ Follows(p, AfterAdd(p, err))
    BY <1>0, <2>1, AfterAddFollows
  <2>3. [At(c, "addSet") EXCEPT !.seen = policy]
          = [p EXCEPT !.pc = "addSet", !.seen = policy]
    BY <1>0 DEF At
  <2>4. /\ [At(c, "addSet") EXCEPT !.seen = policy] \in CallRecords
        /\ Follows(p, [At(c, "addSet") EXCEPT !.seen = policy])
    BY Zenon, <1>0, <1>2, <2>1, <2>3, NoteFollows DEF Moves, Pending
  <2>5. suspect' \subseteq Accounts
    BY Zenon, <1>0, <1>2, <1>11, <2>1 DEF AddGet, UndoFails
  <2>6. UNCHANGED <<table, policy, puts, requests, raced>>
    BY <1>11 DEF AddGet
  <2>7. PICK next \in CallRecords : Follows(p, next) /\ Continue(c, next)
    BY Zenon, <1>11, <2>2, <2>4 DEF AddGet
  <2>8. QED BY <1>0, <2>5, <2>6, <2>7, ContinueQuiet, TableStays
<1>12. CASE AddSet(c)
  <2> DEFINE new == p.seen \cup {p.account}
  <2>1. p # Idle /\ p.op \in {"put", "delete"} /\ p.pc = "addSet"
    BY <1>0, <1>12 DEF AddSet, Shape, Idle
  <2>2. new \in SUBSET Accounts
    BY SMTT(30), <1>2, <2>1
  <2>3. /\ [At(c, "addAgain") EXCEPT !.added = TRUE]
             = [p EXCEPT !.pc = "addAgain", !.seen = p.seen, !.added = TRUE]
        /\ [[At(c, "addAgain") EXCEPT !.added = TRUE] EXCEPT !.seen = new]
             = [p EXCEPT !.pc = "addAgain", !.seen = new, !.added = TRUE]
    BY Zenon, <1>0 DEF At
  <2>4. \A seen \in SUBSET Accounts :
            LET next == [p EXCEPT !.pc = "addAgain", !.seen = seen, !.added = TRUE]
            IN  next \in CallRecords /\ Follows(p, next)
    BY Zenon, <1>0, <2>1, NoteFollows DEF Moves, Pending
  <2>5. UNCHANGED <<table, puts, requests, raced>>
    BY <1>12 DEF AddSet
  <2>6. CASE SetPolicy(c, new, [p EXCEPT !.pc = "addAgain", !.seen = new, !.added = TRUE])
    BY Zenon, <2>2, <2>4, <2>5, <2>6, SetPolicyQuiet, TableStays
  <2>7. CASE /\ Continue(c, [p EXCEPT !.pc = "addAgain", !.seen = p.seen, !.added = TRUE])
             /\ UNCHANGED <<policy, suspect>>
    BY Zenon, <1>0, <1>2, <2>4, <2>5, <2>7, ContinueQuiet, TableStays
  <2>8. QED BY <1>12, <2>3, <2>6, <2>7 DEF AddSet
<1>13. CASE AddAgain(c)
  <2>1. p # Idle /\ p.pc = "addAgain"
    BY SMTT(30), <1>0, <1>13 DEF AddAgain, Shape, Idle
  <2>2. p.seen \cup {p.account} \in SUBSET Accounts
    BY <1>2, <2>1
  <2>3. \A err \in BOOLEAN : AfterAdd(p, err) \in CallRecords /\ Follows(p, AfterAdd(p, err))
    BY <1>0, <2>1, AfterAddFollows
  <2>4. UNCHANGED <<table, puts, requests, raced>>
    BY <1>13 DEF AddAgain
  <2>5. CASE SetPolicy(c, p.seen \cup {p.account}, AfterAdd(p, FALSE))
    BY Zenon, <2>2, <2>3, <2>4, <2>5, SetPolicyQuiet, TableStays
  <2>6. CASE /\ Continue(c, AfterAdd(p, TRUE))
             /\ suspect' = UndoFails(c, "delete")
             /\ UNCHANGED policy
    <3>1. suspect' \subseteq Accounts
      BY SMTT(30), <1>0, <1>2, <2>1, <2>6 DEF UndoFails
    <3>2. QED BY Zenon, <1>0, <2>3, <2>4, <2>6, <3>1, ContinueQuiet, TableStays
  <2>7. QED BY Zenon, <1>13, <2>5, <2>6 DEF AddAgain
<1>14. CASE RemoveGet(c)
  <2>1. p # Idle /\ p.op \in {"put", "delete"} /\ p.pc = "remove"
    BY <1>0, <1>14 DEF RemoveGet, Shape, Idle
  <2>2. \A err \in BOOLEAN : /\ AfterRemove(p, err) \in CallRecords
                             /\ Follows(p, AfterRemove(p, err))
    BY <1>0, <2>1, AfterRemoveFollows
  <2>3. [At(c, "removeSet") EXCEPT !.seen = policy]
          = [p EXCEPT !.pc = "removeSet", !.seen = policy]
    BY <1>0 DEF At
  <2>4. /\ [At(c, "removeSet") EXCEPT !.seen = policy] \in CallRecords
        /\ Follows(p, [At(c, "removeSet") EXCEPT !.seen = policy])
    BY Zenon, <1>0, <1>2, <2>1, <2>3, NoteFollows DEF Moves, Pending
  <2>5. suspect' \subseteq Accounts
    BY Zenon, <1>0, <1>2, <1>14, <2>1 DEF RemoveGet, UndoFails
  <2>6. UNCHANGED <<table, policy, puts, requests, raced>>
    BY <1>14 DEF RemoveGet
  <2>7. PICK next \in CallRecords : Follows(p, next) /\ Continue(c, next)
    BY Zenon, <1>14, <2>2, <2>4 DEF RemoveGet
  <2>8. QED BY <1>0, <2>5, <2>6, <2>7, ContinueQuiet, TableStays
<1>15. CASE RemoveSet(c)
  <2>1. p # Idle /\ p.pc = "removeSet"
    BY SMTT(30), SMTT(60), <1>0, <1>15 DEF RemoveSet, Shape, Idle
  <2>2. p.seen \ {p.account} \in SUBSET Accounts
    BY <1>2
  <2>3. \A err \in BOOLEAN : /\ AfterRemove(p, err) \in CallRecords
                             /\ Follows(p, AfterRemove(p, err))
    BY <1>0, <2>1, AfterRemoveFollows
  <2>4. UNCHANGED <<table, puts, requests, raced>>
    BY SMTT(30), <1>15 DEF RemoveSet
  <2>5. CASE SetPolicy(c, p.seen \ {p.account}, AfterRemove(p, FALSE))
    BY Zenon, <2>2, <2>3, <2>4, <2>5, SetPolicyQuiet, TableStays
  <2>6. CASE /\ Continue(c, AfterRemove(p, TRUE))
             /\ suspect' = UndoFails(c, "put")
             /\ UNCHANGED policy
    <3>1. suspect' \subseteq Accounts
      BY SMTT(30), <1>0, <1>2, <2>1, <2>6 DEF UndoFails
    <3>2. QED BY Zenon, <1>0, <2>3, <2>4, <2>6, <3>1, ContinueQuiet, TableStays
  <2>7. QED BY Zenon, <1>15, <2>5, <2>6 DEF RemoveSet
<1>16. CASE Drop(c)
  <2>1. suspect' \subseteq Accounts /\ policy' = policy /\ UNCHANGED <<puts, requests, raced>>
    BY Zenon, <1>0, <1>16 DEF Drop
  <2>2. DeleteItem(c) /\ Continue(c, Idle)
    BY Zenon, <1>16 DEF Drop
  <2>3. QED BY Zenon, <1>1, <1>10, <2>1, <2>2
<1>17. ASSUME NEW to, Doubt(c, to), Moves(p, to), p # Idle
        PROVE  /\ suspect' \subseteq Accounts
               /\ \E next \in CallRecords : Follows(p, next) /\ Continue(c, next)
  <2>1. suspect' \subseteq Accounts
    BY SMTT(30), SMTT(60), <1>0, <1>2, <1>17 DEF Doubt
  <2>2. PICK next : next = [[p EXCEPT !.pc = to] EXCEPT !.alone = FALSE]
    OBVIOUS
  <2>3. Continue(c, next)
    BY Zenon, <1>17, <2>2 DEF Doubt, At
  <2>4. next \in CallRecords /\ Follows(p, next)
    BY Zenon, <1>0, <1>17, <2>2, DoubtFollows
  <2>5. QED BY Zenon, <2>1, <2>3, <2>4
<1>18. CASE SiblingsMisled(c)
  <2>1. p.op = "delete" /\ p # Idle
    BY SMTT(30), <1>0, <1>18 DEF SiblingsMisled, Shape, Idle
  <2>2. PICK to \in {"remove", "drop"} : Doubt(c, to)
    BY Zenon, <1>18 DEF SiblingsMisled
  <2>3. Moves(p, to)
    BY <2>1, <2>2 DEF Moves
  <2>4. PICK next \in CallRecords : Follows(p, next) /\ Continue(c, next)
    BY Zenon, <1>17, <2>1, <2>2, <2>3
  <2>5. suspect' \subseteq Accounts
    BY Zenon, <1>17, <2>1, <2>2, <2>3
  <2>6. UNCHANGED <<table, policy, puts, requests, raced>>
    BY <1>18 DEF SiblingsMisled
  <2>7. QED BY SMTT(30), SMTT(60), <1>0, <2>4, <2>5, <2>6, ContinueQuiet, TableStays
<1>19. CASE DropUnanswered(c)
  <2>1. p.op = "delete" /\ p # Idle
    BY SMTT(30), <1>0, <1>19 DEF DropUnanswered, DeleteItem, Shape, Idle
  <2>2. DeleteItem(c) /\ Doubt(c, "add") /\ policy' = policy /\ UNCHANGED <<puts, requests, raced>>
    BY Zenon, <1>19 DEF DropUnanswered
  <2>3. Moves(p, "add")
    BY <2>1 DEF Moves
  <2>4. PICK next \in CallRecords : Follows(p, next) /\ Continue(c, next)
    BY Zenon, <1>17, <2>1, <2>2, <2>3
  <2>5. suspect' \subseteq Accounts
    BY Zenon, <1>17, <2>1, <2>2, <2>3
  <2>6. QED BY Zenon, <1>10, <2>2, <2>4, <2>5
<1>20. QED
  BY <1>4, <1>5, <1>6, <1>7, <1>8, <1>9, <1>11, <1>12, <1>13, <1>14, <1>15, <1>16, <1>18,
     <1>19

-----------------------------------------------------------------------------
\* A call starts: a put of it is new, and a race with other puts is noted, or a
\* row it was not shown.
LEMMA NewCall ==
    ASSUME IInv, NEW c \in Callers, NEW new \in CallRecords, Shape(new), new # Idle,
           Begin(c, new), UNCHANGED <<kind, table, policy, puts, requests>>,
           raced' \subseteq Accounts, raced \subseteq raced', new.id <= puts,
           new.op = "put" =>
               /\ \A d \in Busy(new.account) : call[d].op = "put" => new.account \in raced'
               /\ \/ new.account \in raced'
                  \/ \A id \in Ids : ~Conflict(table[id], new.type, new.account, new.label),
           new.pc = "update" /\ table[new.id].type \in Types
               => table[new.id].account = new.account
    PROVE  IInv'
<1> DEFINE now == call'[c]
<1>0. /\ call \in [Callers -> CallRecords] /\ call[c] = Idle
      /\ new.account \in Accounts /\ new.account # "none"
  BY SourceAssumption DEF IInv, TypeOK, CallRecords, Begin, Shape
<1>1. /\ now \in CallRecords /\ Shape(now) /\ now.op = new.op /\ now.pc = new.pc
      /\ now.id = new.id /\ now.type = new.type /\ now.account = new.account
      /\ now.label = new.label
  <2>1. \E b \in BOOLEAN : now = [new EXCEPT !.alone = b]
    BY Zenon DEF Begin
  <2>2. PICK b \in BOOLEAN : now = [new EXCEPT !.alone = b]
    BY <2>1
  <2>3. now \in CallRecords
    BY <2>2 DEF CallRecords
  <2>4. /\ now.op = new.op /\ now.pc = new.pc /\ now.id = new.id /\ now.type = new.type
        /\ now.account = new.account /\ now.label = new.label
    BY <2>2 DEF CallRecords
  <2>5. QED BY SMTT(30), <2>3, <2>4 DEF Shape
<1>2. ASSUME NEW d \in Callers, d # c
      PROVE  /\ call'[d] \in CallRecords
             /\ call'[d].op = call[d].op /\ call'[d].pc = call[d].pc /\ call'[d].id = call[d].id
             /\ call'[d].type = call[d].type /\ call'[d].account = call[d].account
             /\ call'[d].label = call[d].label /\ Shape(call'[d])
  <2>1. call[d] \in CallRecords /\ Shape(call[d])
    BY <1>0 DEF IInv, CallsShaped
  <2>2. CASE call'[d] = call[d]
    BY <2>1, <2>2
  <2>3. CASE call'[d] # call[d]
    <3>1. call'[d] = [call[d] EXCEPT !.alone = FALSE] /\ call[d].account = new.account
      BY <1>2, <2>3 DEF Begin, Busy
    <3>2. call[d] # Idle
      BY <1>0, <3>1 DEF Idle
    <3>3. QED BY Zenon, <2>1, <3>1, <3>2 DEF CallRecords, Shape
  <2>4. QED BY SMTT(30), <2>2, <2>3
<1>3. call' \in [Callers -> CallRecords]
  <2>1. call' = [d \in Callers |-> call'[d]]
    BY DEF Begin
  <2>2. QED BY <1>1, <1>2, <2>1
<1>4. suspect' \subseteq Accounts
  BY <1>0 DEF Begin, IInv, TypeOK
<1>5. TypeOK'
  BY <1>3, <1>4 DEF IInv, TypeOK, CallRecords
<1>6. CallsShaped'
  BY <1>1, <1>2 DEF CallsShaped
<1>7. IdsFresh'
  BY SMTT(30), <1>1, <1>2 DEF IInv, IdsFresh
<1>8. PutsRace'
  <2>1. \A d \in Callers : d # c /\ call'[d].account = now.account => d \in Busy(new.account)
    BY SMTT(30), <1>1, <1>2 DEF Busy
  <2>2. \A d \in Callers : d # c /\ now.op = "put" /\ call'[d].op = "put"
                           /\ call'[d].account = now.account => now.account \in raced'
    BY SMTT(30), <1>1, <1>2, <2>1
  <2>3. QED BY SMTT(30), <1>2, <2>2 DEF IInv, PutsRace
<1>9. PendingIsNew'
  BY SMTT(30), <1>1, <1>2 DEF IInv, PendingIsNew, Pending
<1>10. UpdateOwner'
  BY SMTT(30), <1>1, <1>2 DEF IInv, UpdateOwner
<1>11. SourcesAreDistinct'
  BY DEF IInv, SourcesAreDistinct, Stored
<1>12. RowsOwned'
  BY DEF IInv, RowsOwned
<1>13. QED BY <1>5, <1>6, <1>7, <1>8, <1>9, <1>10, <1>11, <1>12 DEF IInv

\* The ID of a source was given out.
LEMMA SourceIds ==
    ASSUME IInv, NEW id \in Ids, table[id].type \in Types
    PROVE  table[id] \in Rows /\ table[id].account \in Accounts /\ id <= puts
<1>1. table[id] # NoRow
  BY DEF NoRow, Types
<1>2. id \in Nat /\ puts \in Nat
  BY SourceAssumption DEF Ids, IInv, TypeOK
<1>3. ~(id > puts)
  BY <1>1 DEF IInv, IdsFresh
<1>4. QED BY <1>2, <1>3 DEF IInv, TypeOK, RowsOwned

\* The three operations as they start.
LEMMA StartInv ==
    ASSUME IInv, kind' = kind, NEW c \in Callers,
           \/ \E s \in Sources, listed \in SUBSET Stored : Put(c, s[1], s[2], s[3], listed)
           \/ \E id \in Ids : Delete(c, id) \/ \E l \in Renames : Update(c, id, l)
    PROVE  IInv'
<1>0. raced \subseteq Accounts /\ puts \in Nat /\ table \in [Ids -> Rows]
  BY SourceAssumption DEF IInv, TypeOK
<1>1. CASE \E s \in Sources, listed \in SUBSET Stored : Put(c, s[1], s[2], s[3], listed)
  <2>1. PICK type \in Types, account \in Accounts, label \in Labels,
             listed \in SUBSET Stored : Put(c, type, account, label, listed)
    BY <1>1, SourceAssumption
  <2> DEFINE new == [Idle EXCEPT !.op = "put", !.type = type, !.account = account,
                                 !.label = label,
                                 !.pc = IF type = "aws-s3" THEN "add" ELSE "store"]
  <2>2. /\ new.op = "put" /\ new.type = type /\ new.account = account /\ new.label = label
        /\ new.pc \in {"add", "store"} /\ new.id = 0
        /\ new \in CallRecords /\ new # Idle
    BY Zenon DEF Idle, CallRecords
  <2>3. Shape(new)
    BY <2>2 DEF Shape
  <2>4. Begin(c, new) /\ UNCHANGED <<table, policy, puts, requests>>
    BY Zenon, <2>1 DEF Put
  <2>5. raced' = raced \cup {a \in {account} :
              \/ \E d \in Busy(a) : call[d].op = "put"
              \/ \E id \in Stored \ listed : Conflict(table[id], type, a, label)}
    BY Zenon, <2>1 DEF Put
  <2>6. account \in raced' \/ \A id \in Ids : ~Conflict(table[id], type, account, label)
    <3>1. \A id \in listed : ~Conflict(table[id], type, account, label)
      BY Zenon, <2>1 DEF Put, AlreadyExists
    <3>2. \A id \in Ids \ Stored : table[id].type # type
      BY DEF Stored, NoRow, Types
    <3>3. \/ account \in raced'
          \/ \A id \in Stored \ listed : ~Conflict(table[id], type, account, label)
      BY Zenon, <2>5
    <3>4. QED BY Zenon, <3>1, <3>2, <3>3 DEF Conflict
  <2> HIDE DEF new
  <2>7. QED BY SMTT(30), <1>0, <2>2, <2>3, <2>4, <2>5, <2>6, NewCall
<1>2. ASSUME NEW id \in Ids, Delete(c, id)
      PROVE  IInv'
  <2> DEFINE new == [Idle EXCEPT !.op = "delete", !.id = id, !.account = table[id].account,
                             !.pc = IF table[id].type = "aws-s3" THEN "siblings" ELSE "drop"]
  <2>1. table[id] \in Rows /\ table[id].account \in Accounts /\ id <= puts
    BY Zenon, <1>2, SourceIds DEF Delete
  <2>2. /\ new.op = "delete" /\ new.account = table[id].account /\ new.id = id
        /\ new.pc \in {"siblings", "drop"} /\ new \in CallRecords /\ new # Idle
    BY Zenon, <2>1 DEF Idle, CallRecords, Rows
  <2>3. Shape(new)
    BY <2>1, <2>2 DEF Shape
  <2>4. Begin(c, new) /\ UNCHANGED <<table, policy, puts, requests, raced>>
    BY Zenon, <1>2 DEF Delete
  <2> HIDE DEF new
  <2>5. QED BY SMTT(30), <1>0, <2>1, <2>2, <2>3, <2>4, NewCall
<1>3. ASSUME NEW id \in Ids, NEW l \in Renames, Update(c, id, l)
      PROVE  IInv'
  <2> DEFINE new == [Idle EXCEPT !.op = "update", !.id = id, !.pc = "update",
                                 !.account = table[id].account, !.label = l]
  <2>1. table[id] \in Rows /\ table[id].account \in Accounts /\ id <= puts
    BY Zenon, <1>3, SourceIds DEF Update
  <2>2. /\ new.op = "update" /\ new.account = table[id].account /\ new.id = id
        /\ new.pc = "update" /\ new \in CallRecords /\ new # Idle
    <3>1. l \in Labels
      BY SourceAssumption
    <3>2. QED BY Zenon, <2>1, <3>1 DEF Idle, CallRecords, Rows
  <2>3. Shape(new)
    BY <2>1, <2>2 DEF Shape
  <2>4. Begin(c, new) /\ UNCHANGED <<table, policy, puts, requests, raced>>
    BY Zenon, <1>3 DEF Update
  <2> HIDE DEF new
  <2>5. QED BY SMTT(30), <1>0, <2>1, <2>2, <2>3, <2>4, NewCall
<1>4. QED BY <1>1, <1>2, <1>3

-----------------------------------------------------------------------------
\* A put stores its row, whether it learns so or not: no row of the account
\* conflicts with it.
LEMMA StoreInv ==
    ASSUME IInv, kind' = kind, NEW c \in Callers, Store(c) \/ StoreUnanswered(c)
    PROVE  IInv'
<1> DEFINE p == call[c]
           row == [NoRow EXCEPT !.type = p.type, !.account = p.account, !.label = p.label]
<1>0. /\ call \in [Callers -> CallRecords] /\ p \in CallRecords
      /\ puts \in Nat /\ puts + 1 \in Ids /\ table \in [Ids -> Rows]
  <2>1. puts < MaxIds
    BY Zenon DEF Store, StoreUnanswered, PutItem
  <2>2. QED BY <2>1, SourceAssumption DEF IInv, TypeOK, CallRecords, Ids
<1>1. p.op = "put" /\ Pending(p) /\ p.type \in Types /\ p.account \in Accounts /\ p # Idle
  <2>1. p.pc = "store"
    BY Zenon DEF Store, StoreUnanswered, PutItem
  <2>2. QED BY <2>1 DEF IInv, CallsShaped, Shape, Idle, Pending
<1>2. /\ row \in Rows /\ row.type = p.type /\ row.account = p.account /\ row.label = p.label
  BY Zenon, <1>0, <1>1 DEF Rows, NoRow, CallRecords
<1> HIDE DEF row
<1>3. /\ table' = [table EXCEPT ![puts + 1] = row] /\ puts' = puts + 1
      /\ UNCHANGED <<policy, requests, raced>>
  BY Zenon DEF Store, StoreUnanswered, PutItem, row
<1>4. table' \in [Ids -> Rows] /\ table'[puts + 1] = row
      /\ \A id \in Ids : id # puts + 1 => table'[id] = table[id]
  BY <1>0, <1>2, <1>3
<1>5. PICK next \in {Idle, [At(c, "scan") EXCEPT !.id = puts + 1],
                     [[p EXCEPT !.pc = "remove"] EXCEPT !.alone = FALSE]} :
          call' = [call EXCEPT ![c] = next]
  BY Zenon DEF Store, StoreUnanswered, Doubt, At, Continue
<1>6. /\ next \in CallRecords /\ Shape(next) /\ ~Pending(next) /\ next.pc # "update"
      /\ next.id <= puts + 1
      /\ next = Idle \/ (next.op = p.op /\ next.account = p.account)
  <2>1. CASE next = Idle
    BY <1>0, <2>1, IdleTyped DEF Idle, Shape, Pending
  <2>2. CASE next = [p EXCEPT !.pc = "scan", !.id = puts + 1]
    <3>1. next \in CallRecords
      BY Zenon, <1>0, <2>2 DEF CallRecords
    <3>2. /\ next.pc = "scan" /\ next.id = puts + 1 /\ next.op = p.op /\ next.type = p.type
          /\ next.account = p.account
      BY <1>0, <2>2 DEF CallRecords
    <3>3. QED BY <1>0, <1>1, <3>1, <3>2 DEF Shape, Pending
  <2>3. [At(c, "scan") EXCEPT !.id = puts + 1] = [p EXCEPT !.pc = "scan", !.id = puts + 1]
    BY <1>0 DEF At, CallRecords
  <2>4. CASE next = [[p EXCEPT !.pc = "remove"] EXCEPT !.alone = FALSE]
    <3>1. Shape(p) /\ Moves(p, "remove")
      BY <1>1 DEF IInv, CallsShaped, Moves
    <3>2. next \in CallRecords /\ Follows(p, next)
      BY Zenon, <1>0, <1>1, <2>4, <3>1, DoubtFollows
    <3>3. next.pc = "remove"
      BY Zenon, <1>0, <2>4 DEF CallRecords
    <3>4. next # Idle
      BY <3>3, NotIdle
    <3>5. next.id <= puts
      BY Zenon, <3>2, <3>4 DEF Follows, IInv, IdsFresh
    <3>6. next.id <= puts + 1
      BY <1>0, <3>2, <3>5, SourceAssumption DEF CallRecords, Ids
    <3>7. QED BY <3>2, <3>3, <3>4, <3>6 DEF Follows, Pending
  <2>5. QED BY Zenon, <1>5, <2>1, <2>2, <2>3, <2>4
<1>7. /\ call' \in [Callers -> CallRecords] /\ call'[c] = next
      /\ \A d \in Callers : d # c => call'[d] = call[d]
  BY <1>0, <1>5, <1>6
<1>8. TypeOK'
  <2>1. puts' \in 0..MaxIds
    BY <1>0, <1>3 DEF Ids
  <2>2. suspect' \subseteq suspect \cup {p.account}
    BY Zenon DEF Store, StoreUnanswered, Doubt
  <2>3. suspect' \subseteq Accounts
    BY <1>1, <2>2 DEF IInv, TypeOK
  <2>4. QED BY <1>3, <1>4, <1>7, <2>1, <2>3 DEF IInv, TypeOK, CallRecords
<1>9. CallsShaped'
  BY <1>6, <1>7 DEF IInv, CallsShaped
<1>10. IdsFresh'
  <2>1. \A id \in Ids : id > puts' => table'[id] = NoRow
    BY <1>0, <1>3, <1>4, SourceAssumption DEF IInv, IdsFresh, Ids
  <2>2. \A d \in Callers : call'[d].id <= puts'
    <3>1. \A d \in Callers \ {c} : call'[d].id <= puts /\ call'[d].id \in Ids \cup {0}
      BY Zenon, <1>0, <1>7 DEF IInv, IdsFresh, CallRecords
    <3>2. \A i \in Ids \cup {0} : i <= puts => i <= puts + 1
      BY <1>0, SourceAssumption DEF Ids
    <3>3. QED BY Zenon, <1>3, <1>6, <1>7, <3>1, <3>2
  <2>3. \A id \in requests' : id <= puts'
    BY <1>0, <1>3, SourceAssumption DEF IInv, IdsFresh, TypeOK, Ids
  <2>4. QED BY <2>1, <2>2, <2>3 DEF IdsFresh
<1>11. PutsRace'
  BY <1>1, <1>3, <1>6, <1>7 DEF IInv, PutsRace, Idle
<1>12. PendingIsNew'
  <2> SUFFICES ASSUME NEW d \in Callers, NEW id \in Ids,
                      Pending(call'[d]), call'[d].account \notin raced'
               PROVE  ~Conflict(table'[id], call'[d].type, call'[d].account, call'[d].label)
    BY DEF PendingIsNew
  <2>1. d # c /\ call'[d] = call[d] /\ call[d].op = "put"
    BY <1>6, <1>7 DEF Pending
  <2>2. call[d].account # p.account
    BY <1>1, <1>3, <2>1 DEF IInv, PutsRace
  <2>3. CASE id = puts + 1
    BY <1>2, <1>4, <2>1, <2>2, <2>3 DEF Conflict
  <2>4. CASE id # puts + 1
    BY <1>3, <1>4, <2>1, <2>4 DEF IInv, PendingIsNew
  <2>5. QED BY <2>3, <2>4
<1>13. UpdateOwner'
  <2>1. \A d \in Callers : call'[d].pc = "update"
            => call'[d] = call[d] /\ call[d].id \in Ids /\ call[d].id # puts + 1
    BY <1>0, <1>6, <1>7, SourceAssumption DEF IInv, CallsShaped, Shape, IdsFresh, Idle, Ids
  <2>2. QED BY <1>4, <2>1 DEF IInv, UpdateOwner
<1>14. RowsOwned'
  BY <1>1, <1>2, <1>4 DEF IInv, RowsOwned
<1>15. SourcesAreDistinct'
  <2>1. p.account \notin raced
        => \A id \in Ids : ~Conflict(table[id], p.type, p.account, p.label)
    BY <1>1 DEF IInv, PendingIsNew
  <2> SUFFICES ASSUME NEW i \in Ids, NEW j \in Ids, table'[i].type \in Types, i # j,
                      table'[i].account \notin raced,
                      table'[i].type = table'[j].type, table'[i].account = table'[j].account
               PROVE  ~(table'[i].type = "aws-scan" \/ table'[i].label = table'[j].label)
    BY <1>3 DEF SourcesAreDistinct, Stored, Conflict
  <2>2. CASE i = puts + 1
    <3>1. table'[j] = table[j] /\ ~Conflict(table[j], p.type, p.account, p.label)
      BY <1>2, <1>4, <2>1, <2>2
    <3>2. QED BY <1>2, <1>4, <2>2, <3>1 DEF Conflict
  <2>3. CASE j = puts + 1
    <3>1. table'[i] = table[i] /\ ~Conflict(table[i], p.type, p.account, p.label)
      BY <1>2, <1>4, <2>1, <2>3
    <3>2. QED BY <1>2, <1>4, <2>3, <3>1 DEF Conflict
  <2>4. CASE i # puts + 1 /\ j # puts + 1
    <3>1. table'[i] = table[i] /\ table'[j] = table[j] /\ i \in Stored /\ j \in Stored
      BY <1>4, <2>4 DEF Stored, NoRow, Types
    <3>2. QED BY <3>1 DEF IInv, SourcesAreDistinct, Conflict
  <2>5. QED BY <2>2, <2>3, <2>4
<1>16. QED
  BY <1>8, <1>9, <1>10, <1>11, <1>12, <1>13, <1>14, <1>15 DEF IInv

\* UpdateItem may give a source the label of another: its account is raced from
\* then on.
LEMMA UpdateItemInv ==
    ASSUME IInv, kind' = kind, NEW c \in Callers, UpdateItem(c)
    PROVE  IInv'
<1> DEFINE p == call[c]
           i == p.id
           row == Upsert(table[i], [table[i] EXCEPT !.label = p.label])
<1>0. /\ call \in [Callers -> CallRecords] /\ p \in CallRecords /\ Shape(p)
      /\ table \in [Ids -> Rows] /\ puts \in Nat
  BY SourceAssumption DEF IInv, TypeOK, CallRecords, CallsShaped
<1>1. p.pc = "update" /\ i \in Ids /\ i <= puts /\ p.account \in Accounts
  BY <1>0 DEF UpdateItem, Shape, Idle, IInv, IdsFresh
<1>2. /\ row \in Rows /\ row.type \in {table[i].type, "bare"} /\ row.account = table[i].account
  <2>1. p.label \in Labels \cup {"none"} /\ table[i] \in Rows
    BY <1>0, <1>1 DEF CallRecords
  <2>2. CASE table[i] = NoRow
    <3>1. row = [[table[i] EXCEPT !.label = p.label] EXCEPT !.type = "bare"]
      BY <2>2 DEF Upsert
    <3>2. QED BY Zenon, <2>1, <3>1 DEF Rows
  <2>3. CASE table[i] # NoRow
    <3>1. row = [table[i] EXCEPT !.label = p.label]
      BY <2>3 DEF Upsert
    <3>2. QED BY <2>1, <3>1 DEF Rows
  <2>4. QED BY <2>2, <2>3
<1>3. table[i].type \in Types => table[i].account = p.account
  BY <1>1 DEF IInv, UpdateOwner
<1> HIDE DEF row
<1>4. /\ table' = [table EXCEPT ![i] = row] /\ raced' = raced \cup {p.account}
      /\ UNCHANGED <<policy, puts, requests, suspect>> /\ call' = [call EXCEPT ![c] = Idle]
  BY <1>0, <1>1 DEF UpdateItem, Continue, row
<1>5. /\ table' \in [Ids -> Rows] /\ table'[i] = row
      /\ \A id \in Ids : id # i => table'[id] = table[id]
  BY <1>0, <1>1, <1>2, <1>4
<1>6. /\ call' \in [Callers -> CallRecords] /\ call'[c] = Idle
      /\ \A d \in Callers : d # c => call'[d] = call[d]
  BY <1>0, <1>4, IdleTyped
<1>7. "bare" \notin Types /\ Idle.op = "none" /\ Idle.pc = "idle" /\ Idle.id = 0
  BY DEF Types, Idle
<1>8. TypeOK'
  BY <1>1, <1>4, <1>5, <1>6 DEF IInv, TypeOK, CallRecords
<1>9. CallsShaped'
  BY <1>6 DEF IInv, CallsShaped, Shape
<1>10. IdsFresh'
  <2>1. \A id \in Ids : id > puts => id # i
    BY <1>0, <1>1, SourceAssumption DEF Ids
  <2>2. \A id \in Ids : id > puts => table'[id] = NoRow
    BY <1>5, <2>1 DEF IInv, IdsFresh
  <2>3. \A d \in Callers : call'[d].id <= puts
    BY <1>0, <1>6, <1>7 DEF IInv, IdsFresh
  <2>4. QED BY <1>4, <2>2, <2>3 DEF IInv, IdsFresh
<1>11. PutsRace'
  BY <1>4, <1>6, <1>7 DEF IInv, PutsRace
<1>12. \A id \in Ids : table'[id].type \in Types /\ table'[id].account \notin raced'
                       => table'[id] = table[id]
  BY SMTT(30), <1>2, <1>3, <1>4, <1>5, <1>7
<1>13. PendingIsNew'
  <2> SUFFICES ASSUME NEW d \in Callers, NEW id \in Ids,
                      Pending(call'[d]), call'[d].account \notin raced'
               PROVE  ~Conflict(table'[id], call'[d].type, call'[d].account, call'[d].label)
    BY DEF PendingIsNew
  <2>1. call'[d] = call[d] /\ call[d].account \notin raced /\ call[d].type \in Types
    BY <1>4, <1>6, <1>7 DEF Pending, IInv, CallsShaped, Shape
  <2>2. ~Conflict(table[id], call[d].type, call[d].account, call[d].label)
    BY SMTT(30), <2>1 DEF IInv, PendingIsNew
  <2>3. QED BY SMTT(30), <1>12, <2>1, <2>2 DEF Conflict
<1>14. UpdateOwner'
  <2>1. \A d \in Callers : call'[d].pc = "update" => call'[d] = call[d] /\ call[d].id \in Ids
    BY <1>6, <1>7 DEF IInv, CallsShaped, Shape
  <2>2. \A id \in Ids : table'[id].type \in Types
            => table[id].type \in Types /\ table'[id].account = table[id].account
    BY <1>2, <1>5, <1>7
  <2>3. QED BY <2>1, <2>2 DEF IInv, UpdateOwner
<1>15. RowsOwned'
  BY <1>2, <1>5, <1>7 DEF IInv, RowsOwned
<1>16. SourcesAreDistinct'
  <2> SUFFICES ASSUME NEW j \in Ids, NEW k \in Ids, table'[j].type \in Types, j # k,
                      table'[j].account \notin raced',
                      table'[j].type = table'[k].type, table'[j].account = table'[k].account
               PROVE  ~(table'[j].type = "aws-scan" \/ table'[j].label = table'[k].label)
    BY DEF SourcesAreDistinct, Stored, Conflict
  <2>1. table'[j] = table[j] /\ table'[k] = table[k]
    BY <1>12
  <2>2. j \in Stored /\ k \in Stored /\ table[j].account \notin raced
    BY SMTT(30), <1>4, <2>1 DEF Stored, NoRow, Types
  <2>3. QED BY <2>1, <2>2 DEF IInv, SourcesAreDistinct, Conflict
<1>17. QED
  BY <1>8, <1>9, <1>10, <1>11, <1>13, <1>14, <1>15, <1>16 DEF IInv

\* The scheduler and the scans write no attribute of a put.
LEMMA ScanInv ==
    ASSUME IInv, kind' = kind,
           \/ PollAndIssueNewScans \/ PollFails
           \/ \E id \in Ids : LastScanStart(id) \/ LastScanEnd(id) \/ IntervalElapses(id)
    PROVE  IInv'
<1>0. /\ table \in [Ids -> Rows] /\ requests \subseteq Ids /\ puts \in Nat
      /\ \A id \in Ids : id > puts => table[id] = NoRow
      /\ \A id \in requests : id <= puts
  BY SourceAssumption DEF IInv, TypeOK, IdsFresh
<1>1. CASE PollAndIssueNewScans \/ PollFails
  <2>1. ToScan \subseteq Ids /\ \A id \in ToScan : id <= puts
    BY SMTT(30), SourceIds DEF ToScan, ScanSources, Stored, Types
  <2>2. requests' \subseteq requests \cup ToScan
    BY <1>1 DEF PollAndIssueNewScans, PollFails
  <2>3. UNCHANGED <<table, policy, puts, call, suspect, raced>>
    BY <1>1 DEF PollAndIssueNewScans, PollFails, history
  <2>4. \A id \in Ids : SameSource(table[id], table'[id])
    BY <2>3 DEF SameSource
  <2>5. QED BY SMTT(30), SMTT(60), <1>0, <2>1, <2>2, <2>3, <2>4, CallsStay
<1>2. ASSUME NEW i \in Ids, LastScanStart(i) \/ LastScanEnd(i) \/ IntervalElapses(i)
      PROVE  IInv'
  <2>1. UNCHANGED <<policy, puts, call, suspect, raced>> /\ requests' \subseteq requests
    BY <1>2 DEF LastScanStart, LastScanEnd, IntervalElapses, history
  <2>2. i <= puts
    <3>1. CASE LastScanStart(i)
      BY <1>0, <3>1 DEF LastScanStart
    <3>2. CASE LastScanEnd(i) \/ IntervalElapses(i)
      <4>1. table[i] # NoRow
        BY <3>2 DEF LastScanEnd, IntervalElapses, NoRow
      <4>2. i \in Nat
        BY SourceAssumption DEF Ids
      <4>3. QED BY <1>0, <4>1, <4>2
    <3>3. QED BY <1>2, <3>1, <3>2
  <2>3. PICK row \in Rows : table' = [table EXCEPT ![i] = row] /\ SameSource(table[i], row)
    <3>1. CASE LastScanStart(i)
      <4> DEFINE row == Upsert(table[i], [table[i] EXCEPT !.status = "scanning"])
      <4>1. table' = [table EXCEPT ![i] = row]
        BY <1>0, <3>1 DEF LastScanStart
      <4>2. row \in Rows /\ SameSource(table[i], row)
        BY Zenon, <1>0 DEF Upsert, Rows, NoRow, SameSource, Types
      <4>3. QED BY Zenon, <4>1, <4>2
    <3>2. CASE LastScanEnd(i)
      <4> DEFINE row == [table[i] EXCEPT !.status = "ok", !.ended = "recent"]
      <4>1. table' = [table EXCEPT ![i] = row]
        BY Zenon, <1>0, <3>2 DEF LastScanEnd
      <4>2. row \in Rows /\ SameSource(table[i], row)
        BY Zenon, <1>0 DEF Rows, SameSource
      <4>3. QED BY Zenon, <4>1, <4>2
    <3>3. CASE IntervalElapses(i)
      <4> DEFINE row == [table[i] EXCEPT !.ended = "old"]
      <4>1. table' = [table EXCEPT ![i] = row]
        BY <1>0, <3>3 DEF IntervalElapses
      <4>2. row \in Rows /\ SameSource(table[i], row)
        BY <1>0 DEF Rows, SameSource
      <4>3. QED BY Zenon, <4>1, <4>2
    <3>4. QED BY <1>2, <3>1, <3>2, <3>3
  <2>4. /\ table' \in [Ids -> Rows]
        /\ \A id \in Ids : SameSource(table[id], table'[id])
    BY <1>0, <2>3 DEF SameSource
  <2>5. \A id \in Ids : id > puts => table'[id] = NoRow
    <3>1. \A id \in Ids : id > puts => id # i
      BY <1>0, <2>2, SourceAssumption DEF Ids
    <3>2. QED BY <1>0, <2>3, <3>1
  <2>6. QED BY <1>0, <2>1, <2>4, <2>5, CallsStay
<1>3. QED BY <1>1, <1>2

-----------------------------------------------------------------------------
\* IInv holds in every state: the argument of both theorems.
LEMMA IInvCorrect == Spec => []IInv
<1>1. Init => IInv
  <2> SUFFICES ASSUME Init PROVE IInv
    OBVIOUS
  <2>1. TypeOK
    BY IdleTyped, SourceAssumption DEF Init, TypeOK, CallRecords, Ids
  <2>2. CallsShaped /\ IdsFresh /\ PutsRace /\ PendingIsNew /\ UpdateOwner
    <3>1. CallsShaped /\ PutsRace /\ PendingIsNew /\ UpdateOwner
      BY SMTT(30) DEF Init, CallsShaped, Shape, PutsRace, PendingIsNew, UpdateOwner, Pending, Idle
    <3>2. IdsFresh
      BY DEF Init, IdsFresh, Idle
    <3>3. QED BY <3>1, <3>2
  <2>3. RowsOwned /\ SourcesAreDistinct
    BY DEF Init, RowsOwned, SourcesAreDistinct, Stored, NoRow, Types
  <2>4. QED BY <2>1, <2>2, <2>3 DEF IInv
<1>2. IInv /\ [Next]_vars => IInv'
  <2> SUFFICES ASSUME IInv, [Next]_vars PROVE IInv'
    OBVIOUS
  <2>1. CASE Next
    <3>1. ASSUME NEW c \in Callers,
                 \E s \in Sources, listed \in SUBSET Stored :
                     s[1] = kind /\ Put(c, s[1], s[2], s[3], listed)
          PROVE  IInv'
      BY <2>1, <3>1, StartInv DEF Next
    <3>2. ASSUME NEW c \in Callers,
                 \E id \in Ids : Delete(c, id) \/ \E l \in Renames : Update(c, id, l)
          PROVE  IInv'
      BY <2>1, <3>2, StartInv DEF Next
    <3>3. ASSUME NEW c \in Callers, CallStep(c) \/ Killed(c)
          PROVE  IInv'
      BY SMTT(30), <2>1, <3>3, CallStepInv, StoreInv, UpdateItemInv DEF Next, CallStep
    <3>4. CASE \/ PollAndIssueNewScans \/ PollFails
               \/ \E id \in Ids : LastScanStart(id) \/ LastScanEnd(id) \/ IntervalElapses(id)
      BY <2>1, <3>4, ScanInv DEF Next
    <3>5. QED BY <2>1, <3>1, <3>2, <3>3, <3>4 DEF Next
  <2>2. CASE UNCHANGED vars
    <3>1. /\ \A id \in Ids : SameSource(table[id], table'[id])
          /\ UNCHANGED <<kind, table, policy, puts, call, requests, suspect, raced>>
      BY <2>2 DEF vars, SameSource
    <3>2. QED BY SMTT(30), <3>1, CallsStay DEF IInv, TypeOK, IdsFresh
  <2>3. QED BY <2>1, <2>2
<1>3. QED BY <1>1, <1>2, PTL DEF Spec

\* The table, the policy and the calls keep their types, whatever fails.
THEOREM TypeCorrect == Spec => []TypeOK
<1>1. IInv => TypeOK
  BY DEF IInv
<1>2. QED BY <1>1, IInvCorrect, PTL

\* For any number of concurrent calls, and however requests fail and invocations
\* are killed: two log sources of an account with one label, or two scanned
\* integrations of it, exist only after two PutIntegrations for the account
\* overlapped, one of them was not shown the row it conflicts with, or
\* UpdateIntegrationSettings gave one of its sources a label.
THEOREM DistinctCorrect == Spec => []SourcesAreDistinct
<1>1. IInv => SourcesAreDistinct
  BY DEF IInv
<1>2. QED BY <1>1, IInvCorrect, PTL

-----------------------------------------------------------------------------
(* The queue policy.                                                       *)

\* A behaviour has sources of one type; with scanned accounts only, nobody
\* touches the queue policy.
ScanPcs == {"idle", "store", "scan", "drop", "update"}
KindInv ==
    /\ \A id \in Ids : table[id].type \in {kind, "bare", "none"}
    /\ \A c \in Callers : call[c].op = "put" => call[c].type = kind
    /\ kind = "aws-scan" =>
          policy = {} /\ \A c \in Callers : call[c].pc \in ScanPcs /\ ~call[c].added

\* A delete or an update is for the account of its row.
OwnerInv ==
    \A c \in Callers : call[c].op \in {"delete", "update"} =>
        /\ call[c].id \in Ids
        /\ table[call[c].id].type \in Types => table[call[c].id].account = call[c].account

\* The account is as it should be, or is known not to be.
Match(a) == a \in policy <=> LogSources(a) # {}
Kept(a) == a \notin suspect => Match(a)

\* What a put has done to the policy, as long as no other call for the account
\* overlapped it.  A put that added the statement is the one that made the
\* account's first source, unless the account was suspect when it began.
PutPerm(c, a) ==
    /\ call[c].pc = "add" => ~call[c].added /\ Kept(a)
    /\ call[c].pc = "addSet" => a \notin policy /\ (a \notin suspect => LogSources(a) = {})
    /\ call[c].pc = "addAgain" => call[c].added /\ (a \notin suspect => LogSources(a) = {})
    /\ call[c].pc = "store" => a \in policy /\ (a \notin suspect => (call[c].added <=> LogSources(a) = {}))
    /\ call[c].pc \in {"remove", "removeSet"} => (a \notin suspect => LogSources(a) = {})
    /\ call[c].pc # "scan"

\* The same for a delete: it takes the statement away when its row is the last
\* one, and then either drops the row or puts the statement back.
DeletePerm(c, a) ==
    /\ call[c].id \in LogSources(a)
    /\ call[c].pc = "siblings" => ~call[c].added /\ Kept(a)
    /\ call[c].pc \in {"remove", "removeSet"} => LogSources(a) = {call[c].id} /\ Kept(a)
    /\ call[c].pc = "drop" /\ call[c].added => LogSources(a) = {call[c].id} /\ a \notin policy
    /\ call[c].pc = "drop" /\ ~call[c].added => LogSources(a) # {call[c].id} /\ Kept(a)
    /\ call[c].pc \in {"add", "addSet"} => a \notin policy

CallPerm(c, a) ==
    /\ call[c].op = "put" => PutPerm(c, a)
    /\ call[c].op = "delete" => DeletePerm(c, a)
    /\ call[c].op = "update" => Kept(a)

\* Only a call that nobody overlapped vouches for its account, and an account
\* that is not suspect has no other calls.
AccountInv(a) ==
    /\ Busy(a) = {} => Kept(a)
    /\ \A c \in Busy(a) :
        /\ a \notin suspect => call[c].alone
        /\ call[c].alone => Busy(a) = {c} /\ (kind = "aws-s3" => CallPerm(c, a))

AccountsInv == \A a \in Accounts : AccountInv(a)
PermInv == KindInv /\ OwnerInv /\ AccountsInv

\* A call goes on for the same account, and the same row unless it stores one.
Same(p, q) ==
    /\ q.op = p.op /\ q.type = p.type /\ q.account = p.account /\ q.alone = p.alone
    /\ p.op # "put" => q.id = p.id

\* The same, but for whether the call vouches for its account.
Carries(p, q) ==
    /\ q.op = p.op /\ q.type = p.type /\ q.account = p.account
    /\ p.op # "put" => q.id = p.id

\* A row is of the type and the account it was of, or of none.
SameOwner(r, s) ==
    /\ s.type \in {r.type, "bare", "none"}
    /\ s.type \in Types => s.type = r.type /\ s.account = r.account

\* A step has nothing to do with an account, or spoils it.
Untouched(b) ==
    /\ b \in policy' <=> b \in policy
    /\ b \in suspect' <=> b \in suspect
    /\ LogSources(b)' = LogSources(b)
    /\ \A d \in Callers : call[d].account = b \/ call'[d].account = b => call'[d] = call[d]
Spoiled(b) == b \in suspect' /\ \A d \in Callers : call'[d].account = b => ~call'[d].alone

\* Which rows are log sources of an account.
LEMMA LogSourcesAre ==
    ASSUME NEW b
    PROVE  /\ LogSources(b) = {id \in Ids : table[id].type = "aws-s3" /\ table[id].account = b}
           /\ LogSources(b)' = {id \in Ids : table'[id].type = "aws-s3" /\ table'[id].account = b}
BY DEF LogSources, Stored, NoRow, Ids

\* An account that a step does not touch stays as it is,
LEMMA UntouchedInv ==
    ASSUME NEW b \in Accounts, AccountInv(b), kind' = kind, Untouched(b)
    PROVE  AccountInv(b)'
<1>1. Busy(b)' = Busy(b) /\ \A d \in Busy(b) : call'[d] = call[d]
  BY DEF Untouched, Busy
<1>2. Kept(b)' <=> Kept(b)
  BY DEF Untouched, Kept, Match
<1>3. ASSUME NEW d \in Busy(b), CallPerm(d, b)
      PROVE  CallPerm(d, b)'
  <2>1. call'[d] = call[d]
    BY Zenon, <1>1
  <2>2. PutPerm(d, b) => PutPerm(d, b)'
    BY Zenon, <1>2, <2>1 DEF PutPerm, Untouched
  <2>3. DeletePerm(d, b) => DeletePerm(d, b)'
    BY SMTT(30), <1>2, <2>1 DEF DeletePerm, Untouched
  <2> QED
    BY <1>2, <1>3, <2>1, <2>2, <2>3 DEF CallPerm
<1> QED
  BY <1>1, <1>2, <1>3 DEF AccountInv, Untouched

\* and one that it spoils needs nobody to vouch for it.
LEMMA SpoiledInv ==
    ASSUME NEW b \in Accounts, Spoiled(b)
    PROVE  AccountInv(b)'
BY DEF Spoiled, AccountInv, Busy, Kept

\* A call vouches for its account alone, or the account is suspect.
LEMMA Vouching ==
    ASSUME IInv, PermInv, NEW c \in Callers, call[c] # Idle, NEW a, a = call[c].account
    PROVE  /\ a \in Accounts /\ c \in Busy(a)
           /\ call[c].alone => Busy(a) = {c} /\ (kind = "aws-s3" => CallPerm(c, a))
           /\ ~call[c].alone => a \in suspect /\ \A d \in Busy(a) : ~call[d].alone
<1>1. a \in Accounts
  BY DEF IInv, CallsShaped, Shape
<1>2. c \in Busy(a)
  BY DEF Busy
<1>3. AccountInv(a)
  BY <1>1 DEF PermInv, AccountsInv
<1> QED
  BY <1>1, <1>2, <1>3 DEF AccountInv

\* The step of a call, on all the accounts: what has to be shown of its own one
\* is only for the case that nobody overlapped it.
LEMMA StepOfCall ==
    ASSUME IInv, PermInv, NEW c \in Callers, call[c] # Idle, NEW a, a = call[c].account,
           kind' = kind, KindInv',
           call'[c] = Idle \/ Same(call[c], call'[c]),
           \A b \in Accounts \ {a} : Untouched(b) \/ Spoiled(b),
           \A d \in Callers \ {c} : call'[d].account = a =>
               call[d].account = a /\ (call'[d].alone => call[d].alone),
           ~call[c].alone => (a \in suspect => a \in suspect'),
           call[c].alone /\ kind = "aws-s3" /\ CallPerm(c, a) =>
               IF call'[c] = Idle THEN Kept(a)' ELSE CallPerm(c, a)'
    PROVE  AccountsInv'
<1>1. /\ a \in Accounts /\ c \in Busy(a)
      /\ call[c].alone => Busy(a) = {c} /\ (kind = "aws-s3" => CallPerm(c, a))
      /\ ~call[c].alone => a \in suspect /\ \A d \in Busy(a) : ~call[d].alone
  BY Zenon, Vouching
<1>2. ASSUME NEW b \in Accounts, b # a
      PROVE  AccountInv(b)'
  <2>1. AccountInv(b)
    BY Zenon DEF PermInv, AccountsInv
  <2> QED
    BY SMTT(30), <1>2, <2>1, UntouchedInv, SpoiledInv
<1>3. Idle.account \notin Accounts /\ ~Idle.alone
  BY Zenon, SourceAssumption DEF Idle
<1>4. CASE ~call[c].alone
  <2>1. Spoiled(a)
    BY Zenon, <1>1, <1>3, <1>4 DEF Spoiled, Same, Busy
  <2> QED
    BY Zenon, <1>1, <1>2, <2>1, SpoiledInv DEF AccountsInv
<1>5. CASE call[c].alone
  <2>1. \A d \in Callers \ {c} : call'[d].account # a
    BY SMTT(30), SMTT(60), <1>1, <1>5 DEF Busy
  <2>2. CASE call'[c] = Idle
    <3>1. Busy(a)' = {}
      BY SMTT(30), SMTT(60), <1>1, <1>3, <2>1, <2>2 DEF Busy
    <3>2. Kept(a)'
      <4>1. CASE kind = "aws-s3"
        BY Zenon, <1>1, <1>5, <2>2, <4>1
      <4>2. CASE kind = "aws-scan"
        BY Zenon, <4>2 DEF Kept, Match, KindInv, LogSources, Stored
      <4> QED
        BY Zenon, <4>1, <4>2 DEF IInv, TypeOK, Types
    <3>3. AccountInv(a)'
      BY Zenon, <3>1, <3>2 DEF AccountInv
    <3> QED
      BY Zenon, <1>2, <3>3 DEF AccountsInv
  <2>3. CASE call'[c] # Idle
    <3>1. Same(call[c], call'[c])
      BY Zenon, <2>3
    <3>2. Busy(a)' = {c} /\ call'[c].alone
      BY Zenon, <1>5, <2>1, <3>1 DEF Busy, Same
    <3>3. kind = "aws-s3" => CallPerm(c, a)'
      BY Zenon, <1>1, <1>5, <2>3
    <3>4. AccountInv(a)'
      BY Zenon, <3>2, <3>3 DEF AccountInv
    <3> QED
      BY SMTT(30), SMTT(60), <1>2, <3>4 DEF AccountsInv
  <2> QED
    BY Zenon, <2>2, <2>3
<1> QED
  BY Zenon, <1>4, <1>5

\* A call goes on or returns; the policy stays, and so do the rows of the other
\* accounts.
LEMMA ContinueCall ==
    ASSUME IInv, PermInv, NEW c \in Callers, call[c] # Idle, NEW a, a = call[c].account,
           kind' = kind, KindInv', NEW next, Continue(c, next), next = Idle \/ Same(call[c], next),
           policy' = policy, \A b \in Accounts \ {a} : LogSources(b)' = LogSources(b),
           \A b \in Accounts \ {a} : b \in suspect' <=> b \in suspect,
           ~call[c].alone => (a \in suspect => a \in suspect'),
           call[c].alone /\ kind = "aws-s3" /\ CallPerm(c, a) =>
               IF call'[c] = Idle THEN Kept(a)' ELSE CallPerm(c, a)'
    PROVE  AccountsInv'
<1>1. call'[c] = next /\ \A d \in Callers \ {c} : call'[d] = call[d]
  BY DEF Continue, IInv, TypeOK
<1>2. Idle.account \notin Accounts
  BY Zenon, SourceAssumption DEF Idle
<1>3. ASSUME NEW b \in Accounts \ {a}
      PROVE  Untouched(b)
  BY SMTT(30), SMTT(60), <1>1, <1>2, <1>3 DEF Untouched, Same
<1> QED
  BY SMTT(30), SMTT(60), <1>1, <1>3, StepOfCall

\* A call writes the policy.
LEMMA SetPolicyCall ==
    ASSUME IInv, PermInv, NEW c \in Callers, call[c] # Idle, NEW a, a = call[c].account,
           kind' = kind, KindInv', table' = table,
           NEW new, NEW next, SetPolicy(c, new, next), next = Idle \/ Same(call[c], next),
           new \ {a} = call[c].seen \ {a},
           call[c].alone /\ kind = "aws-s3" /\ CallPerm(c, a) =>
               IF call'[c] = Idle THEN Kept(a)' ELSE CallPerm(c, a)'
    PROVE  AccountsInv'
<1> DEFINE lost == ((policy \ call[c].seen) \cup (call[c].seen \ policy)) \ {a}
<1>1. /\ policy' = new /\ suspect' = suspect \cup lost
      /\ call'[c] = next
      /\ \A d \in Callers \ {c} :
           call'[d] = IF call[d].account \in lost THEN [call[d] EXCEPT !.alone = FALSE] ELSE call[d]
  BY DEF SetPolicy
<1>2. Idle.account \notin Accounts
  BY Zenon, SourceAssumption DEF Idle
<1>3. \A d \in Callers : call[d] \in CallRecords
  BY SMTT(30), SMTT(60) DEF IInv, TypeOK, CallRecords
<1>4. \A d \in Callers \ {c} :
         /\ call'[d].account = call[d].account /\ (call'[d].alone => call[d].alone)
         /\ call[d].account \notin lost => call'[d] = call[d]
         /\ call[d].account \in lost => ~call'[d].alone
  <2>1. ASSUME NEW p \in CallRecords
        PROVE  /\ [p EXCEPT !.alone = FALSE].account = p.account
               /\ [p EXCEPT !.alone = FALSE].alone = FALSE
    BY DEF CallRecords
  <2> QED
    BY Zenon, <1>1, <1>3, <2>1
<1>5. \A b : LogSources(b)' = LogSources(b)
  BY DEF LogSources, Stored
<1>6. ASSUME NEW b \in Accounts \ {a}, b \in lost
      PROVE  Spoiled(b)
  BY <1>1, <1>2, <1>4, <1>6 DEF Spoiled, Same
<1>7. ASSUME NEW b \in Accounts \ {a}, b \notin lost
      PROVE  Untouched(b)
  BY <1>1, <1>2, <1>4, <1>5, <1>7 DEF Untouched, Same
<1> QED
  BY <1>1, <1>4, <1>6, <1>7, StepOfCall

\* A step of a call that stores no row, as to types and owners.
LEMMA CallTrace ==
    ASSUME IInv, PermInv, NEW c \in Callers, kind' = kind,
           \A id \in Ids : SameOwner(table[id], table'[id]),
           call'[c] = Idle \/ Carries(call[c], call'[c]),
           \A d \in Callers \ {c} :
               /\ call'[d].op = call[d].op /\ call'[d].type = call[d].type
               /\ call'[d].account = call[d].account /\ call'[d].id = call[d].id
               /\ call'[d].pc = call[d].pc /\ call'[d].added = call[d].added,
           kind = "aws-scan" =>
               policy' = policy /\ (call'[c] # Idle => call'[c].pc \in ScanPcs /\ ~call'[c].added)
    PROVE  KindInv' /\ OwnerInv'
<1>1. Idle.op = "none" /\ Idle.pc \in ScanPcs /\ ~Idle.added
  BY DEF Idle, ScanPcs
<1>2. KindInv'
  BY SMTT(30), <1>1 DEF PermInv, KindInv, SameOwner, Carries
<1>3. OwnerInv'
  BY SMTT(30), SMTT(60), <1>1 DEF PermInv, OwnerInv, SameOwner, Carries
<1> QED
  BY <1>2, <1>3

\* The same for a call that goes on or returns, when the table stays.
LEMMA ContinueTrace ==
    ASSUME IInv, PermInv, NEW c \in Callers, kind' = kind, table' = table,
           NEW next, Continue(c, next), next = Idle \/ Same(call[c], next),
           kind = "aws-scan" =>
               policy' = policy /\ (next # Idle => next.pc \in ScanPcs /\ ~next.added)
    PROVE  KindInv' /\ OwnerInv'
<1>1. call'[c] = next /\ \A d \in Callers \ {c} : call'[d] = call[d]
  BY DEF Continue, IInv, TypeOK
<1>2. \A id \in Ids : SameOwner(table[id], table'[id])
  BY Zenon DEF SameOwner
<1>3. next = Idle \/ Carries(call[c], next)
  BY Zenon DEF Same, Carries
<1> QED
  BY SMTT(30), SMTT(60), <1>1, <1>2, <1>3, CallTrace

\* and when the call writes the policy, which no call does for a scanned account.
LEMMA SetPolicyTrace ==
    ASSUME IInv, PermInv, NEW c \in Callers, kind' = kind, table' = table, kind # "aws-scan",
           NEW new, NEW next, SetPolicy(c, new, next), next = Idle \/ Same(call[c], next)
    PROVE  KindInv' /\ OwnerInv'
<1>1. call'[c] = next
  BY DEF SetPolicy
<1>2. \A d \in Callers : call[d] \in CallRecords
  BY DEF IInv, TypeOK, CallRecords
<1>3. ASSUME NEW d \in Callers \ {c}
      PROVE  /\ call'[d].op = call[d].op /\ call'[d].type = call[d].type
             /\ call'[d].account = call[d].account /\ call'[d].id = call[d].id
             /\ call'[d].pc = call[d].pc /\ call'[d].added = call[d].added
  <2>1. call'[d] = call[d] \/ call'[d] = [call[d] EXCEPT !.alone = FALSE]
    BY DEF SetPolicy
  <2> QED
    BY <1>2, <2>1 DEF CallRecords
<1>4. \A id \in Ids : SameOwner(table[id], table'[id])
  BY DEF SameOwner
<1>5. next = Idle \/ Carries(call[c], next)
  BY Zenon DEF Same, Carries
<1> QED
  BY SMTT(30), SMTT(60), <1>1, <1>3, <1>4, <1>5, CallTrace

\* A call that moves on keeps its account and its row.
LEMMA MoveSame ==
    ASSUME NEW p \in CallRecords, NEW pc, NEW q, q = [p EXCEPT !.pc = pc]
    PROVE  Same(p, q) /\ q.pc = pc /\ q.added = p.added /\ q.id = p.id
BY DEF CallRecords, Same

\* Where AddPermission returns to: a put goes on to store its row, or takes the
\* statement back; a delete is over.
LEMMA AddSame ==
    ASSUME NEW p \in CallRecords, NEW err \in BOOLEAN, NEW q, q = AfterAdd(p, err), p # Idle,
           p.op \in {"put", "delete"}
    PROVE  /\ q = Idle <=> p.op = "delete" \/ (err /\ ~p.added)
           /\ q # Idle => /\ Same(p, q) /\ q.added = p.added /\ q.id = p.id
                          /\ q.pc = IF err THEN "remove" ELSE "store"
<1>1. CASE p.op = "delete" \/ (err /\ ~p.added)
  BY Zenon, <1>1 DEF AfterAdd
<1>2. CASE p.op = "put" /\ ~err
  <2>1. q = [p EXCEPT !.pc = "store", !.seen = {}]
    BY <1>2 DEF AfterAdd
  <2>2. Same(p, q) /\ q.added = p.added /\ q.id = p.id /\ q.pc = "store"
    BY <2>1 DEF CallRecords, Same
  <2> QED
    BY SMTT(30), SMTT(60), <1>2, <2>2 DEF Idle
<1>3. CASE p.op = "put" /\ err /\ p.added
  <2>1. q = [p EXCEPT !.pc = "remove", !.seen = {}]
    BY <1>3 DEF AfterAdd
  <2>2. Same(p, q) /\ q.added = p.added /\ q.id = p.id /\ q.pc = "remove"
    BY <2>1 DEF CallRecords, Same
  <2>3. q # Idle
    BY <2>2 DEF Idle
  <2> QED
    BY Zenon, <1>3, <2>2, <2>3
<1> QED
  BY <1>1, <1>2, <1>3

\* Where RemovePermission returns to: a delete goes on to drop its row.
LEMMA RemoveSame ==
    ASSUME NEW p \in CallRecords, NEW err \in BOOLEAN, NEW q, q = AfterRemove(p, err), p # Idle,
           p.op \in {"put", "delete"}
    PROVE  /\ q = Idle <=> p.op = "put" \/ err
           /\ q # Idle => Same(p, q) /\ q.added /\ q.id = p.id /\ q.pc = "drop"
<1>1. CASE p.op = "put" \/ err
  BY <1>1 DEF AfterRemove
<1>2. CASE p.op = "delete" /\ ~err
  <2>1. q = [p EXCEPT !.pc = "drop", !.added = TRUE, !.seen = {}]
    BY <1>2 DEF AfterRemove
  <2>2. Same(p, q) /\ q.added /\ q.id = p.id /\ q.pc = "drop"
    BY <2>1 DEF CallRecords, Same
  <2> QED
    BY SMTT(30), <1>2, <2>2 DEF Idle
<1> QED
  BY <1>1, <1>2

\* Where calls that work on the policy are: none of them is for a scanned account.
PolicyPcs == {"add", "addSet", "addAgain", "siblings", "remove", "removeSet"}

\* They are puts and deletes of log sources.
LEMMA PolicyCall ==
    ASSUME IInv, PermInv, NEW c \in Callers, call[c].pc \in PolicyPcs
    PROVE  /\ call[c] # Idle /\ call[c] \in CallRecords /\ kind = "aws-s3"
           /\ call[c].op \in {"put", "delete"}
           /\ call[c].pc = "siblings" => call[c].op = "delete"
<1>1. call[c] \in CallRecords /\ Shape(call[c]) /\ kind \in Types
  BY DEF IInv, TypeOK, CallRecords, CallsShaped
<1>2. kind # "aws-scan"
  BY DEF PermInv, KindInv, PolicyPcs, ScanPcs
<1>3. call[c] # Idle
  BY DEF Idle, PolicyPcs
<1> QED
  BY <1>1, <1>2, <1>3 DEF Shape, Types, PolicyPcs

\* A call that works on the policy goes on or returns, without writing it.
LEMMA PolicyContinue ==
    ASSUME IInv, PermInv, kind' = kind, NEW c \in Callers, call[c].pc \in PolicyPcs,
           NEW a, a = call[c].account, table' = table, policy' = policy,
           NEW next, Continue(c, next), next = Idle \/ Same(call[c], next),
           suspect' \in {suspect, suspect \cup {a}},
           CallPerm(c, a) => IF call'[c] = Idle THEN Kept(a)' ELSE CallPerm(c, a)'
    PROVE  PermInv'
<1>1. call[c] # Idle /\ kind = "aws-s3"
  BY PolicyCall
<1>2. KindInv' /\ OwnerInv'
  BY SMTT(30), <1>1, ContinueTrace
<1>3. \A b : LogSources(b)' = LogSources(b)
  BY Zenon DEF LogSources, Stored
<1>4. AccountsInv'
  BY SMTT(30), SMTT(60), <1>1, <1>2, <1>3, ContinueCall
<1> QED
  BY <1>2, <1>4 DEF PermInv

\* The same for a call that writes the policy.
LEMMA PolicyWritten ==
    ASSUME IInv, PermInv, kind' = kind, NEW c \in Callers, call[c].pc \in PolicyPcs,
           NEW a, a = call[c].account, table' = table,
           NEW new, NEW next, SetPolicy(c, new, next), next = Idle \/ Same(call[c], next),
           new \ {a} = call[c].seen \ {a},
           CallPerm(c, a) => IF call'[c] = Idle THEN Kept(a)' ELSE CallPerm(c, a)'
    PROVE  PermInv'
<1>1. call[c] # Idle /\ kind = "aws-s3"
  BY PolicyCall
<1>2. KindInv' /\ OwnerInv'
  BY Zenon, <1>1, SetPolicyTrace
<1>3. AccountsInv'
  BY SMTT(30), <1>1, <1>2, SetPolicyCall
<1> QED
  BY <1>2, <1>3 DEF PermInv

\* AddPermission looks for the statement.
LEMMA AddGetPerm ==
    ASSUME IInv, PermInv, kind' = kind, NEW c \in Callers, AddGet(c)
    PROVE  PermInv'
<1>1. PICK a : a = call[c].account
  OBVIOUS
<1>2. /\ call[c] # Idle /\ call[c] \in CallRecords /\ call[c].op \in {"put", "delete"}
      /\ call[c].pc = "add" /\ call[c].pc \in PolicyPcs
  BY PolicyCall DEF AddGet, PolicyPcs
<1>3. table' = table /\ policy' = policy /\ LogSources(a)' = LogSources(a)
  BY DEF AddGet, LogSources, Stored
<1>5. CASE a \in policy /\ Continue(c, AfterAdd(call[c], FALSE)) /\ suspect' = suspect
  <2> DEFINE q == AfterAdd(call[c], FALSE)
  <2>1. call'[c] = q
    BY <1>5 DEF Continue, IInv, TypeOK
  <2>2. /\ q = Idle <=> call[c].op = "delete"
        /\ q # Idle => Same(call[c], q) /\ q.added = call[c].added /\ q.pc = "store"
    BY Zenon, <1>2, AddSame
  <2> HIDE DEF q
  <2>3. CallPerm(c, a) => IF call'[c] = Idle THEN Kept(a)' ELSE CallPerm(c, a)'
    BY Zenon, <1>2, <1>3, <1>5, <2>1, <2>2 DEF CallPerm, PutPerm, DeletePerm, Kept, Match, Same
  <2> QED
    BY Zenon, <1>1, <1>2, <1>3, <1>5, <2>2, <2>3, PolicyContinue DEF q
<1>6. CASE /\ a \notin policy /\ suspect' = suspect
           /\ Continue(c, [At(c, "addSet") EXCEPT !.seen = policy])
  <2> DEFINE q == [At(c, "addSet") EXCEPT !.seen = policy]
  <2>1. call'[c] = q
    BY <1>6 DEF Continue, IInv, TypeOK
  <2>2. Same(call[c], q) /\ q.added = call[c].added /\ q.id = call[c].id /\ q.pc = "addSet"
    BY <1>2 DEF At, CallRecords, Same
  <2>3. q # Idle
    BY <2>2 DEF Idle
  <2> HIDE DEF q
  <2>4. CallPerm(c, a) => CallPerm(c, a)'
    BY <1>2, <1>3, <1>6, <2>1, <2>2 DEF CallPerm, PutPerm, DeletePerm, Kept, Match, Same
  <2> QED
    BY <1>1, <1>2, <1>3, <1>6, <2>1, <2>2, <2>3, <2>4, PolicyContinue DEF q
<1>7. CASE Continue(c, AfterAdd(call[c], TRUE)) /\ suspect' = UndoFails(c, "delete")
  <2> DEFINE q == AfterAdd(call[c], TRUE)
  <2>1. call'[c] = q
    BY <1>7 DEF Continue, IInv, TypeOK
  <2>2. /\ q = Idle <=> call[c].op = "delete" \/ ~call[c].added
        /\ q # Idle => Same(call[c], q) /\ q.added = call[c].added /\ q.pc = "remove"
    BY Zenon, <1>2, AddSame
  <2>3. suspect' = suspect \cup (IF call[c].op = "delete" THEN {a} ELSE {})
    BY SMTT(30), <1>1, <1>7 DEF UndoFails
  <2>4. suspect' \in {suspect, suspect \cup {a}}
    BY <2>3
  <2> HIDE DEF q
  <2>5. CallPerm(c, a) => IF call'[c] = Idle THEN Kept(a)' ELSE CallPerm(c, a)'
    BY Zenon, <1>2, <1>3, <2>1, <2>2, <2>3 DEF CallPerm, PutPerm, DeletePerm, Kept, Match, Same
  <2> QED
    BY Zenon, <1>1, <1>2, <1>3, <1>7, <2>2, <2>4, <2>5, PolicyContinue DEF q
<1> QED
  BY Zenon, <1>1, <1>5, <1>6, <1>7 DEF AddGet

\* AddPermission writes the policy for the first time, or fails to.
LEMMA AddSetPerm ==
    ASSUME IInv, PermInv, kind' = kind, NEW c \in Callers, AddSet(c)
    PROVE  PermInv'
<1>1. PICK a : a = call[c].account
  OBVIOUS
<1> DEFINE new == call[c].seen \cup {call[c].account}
           next == [At(c, "addAgain") EXCEPT !.added = TRUE]
           written == [next EXCEPT !.seen = new]
<1>2. /\ call[c] # Idle /\ call[c] \in CallRecords /\ call[c].op \in {"put", "delete"}
      /\ call[c].pc = "addSet" /\ call[c].pc \in PolicyPcs
  BY PolicyCall DEF AddSet, PolicyPcs
<1>3. table' = table /\ LogSources(a)' = LogSources(a)
  BY DEF AddSet, LogSources, Stored
<1>4. Same(call[c], next) /\ next.added /\ next.id = call[c].id /\ next.pc = "addAgain"
  BY <1>2 DEF At, CallRecords, Same
<1>5. /\ Same(call[c], written) /\ written.added /\ written.id = call[c].id
      /\ written.pc = "addAgain"
  BY <1>2 DEF At, CallRecords, Same
<1>6. next # Idle /\ written # Idle
  BY Zenon, <1>4, <1>5 DEF Idle
<1>7. CASE SetPolicy(c, new, written)
  <2>1. call'[c] = written /\ (a \in suspect' <=> a \in suspect)
    BY <1>1, <1>7 DEF SetPolicy
  <2>2. new \ {a} = call[c].seen \ {a}
    BY SMTT(30), <1>1
  <2> HIDE DEF written, next, new
  <2>3. CallPerm(c, a) => CallPerm(c, a)'
    BY Zenon, <1>2, <1>3, <1>5, <2>1 DEF CallPerm, PutPerm, DeletePerm, Kept, Match, Same
  <2> QED
    BY Zenon, <1>1, <1>2, <1>3, <1>5, <1>6, <1>7, <2>1, <2>2, <2>3, PolicyWritten
<1>8. CASE Continue(c, next) /\ policy' = policy /\ suspect' = suspect
  <2>1. call'[c] = next
    BY <1>8 DEF Continue, IInv, TypeOK
  <2> HIDE DEF written, next, new
  <2>2. CallPerm(c, a) => CallPerm(c, a)'
    BY Zenon, <1>2, <1>3, <1>4, <1>8, <2>1 DEF CallPerm, PutPerm, DeletePerm, Kept, Match, Same
  <2> QED
    BY Zenon, <1>1, <1>2, <1>3, <1>4, <1>6, <1>8, <2>1, <2>2, PolicyContinue
<1> QED
  BY <1>7, <1>8 DEF AddSet

\* AddPermission writes the policy again, and returns.
LEMMA AddAgainPerm ==
    ASSUME IInv, PermInv, kind' = kind, NEW c \in Callers, AddAgain(c)
    PROVE  PermInv'
<1>1. PICK a : a = call[c].account
  OBVIOUS
<1> DEFINE new == call[c].seen \cup {call[c].account}
           done == AfterAdd(call[c], FALSE)
           failed == AfterAdd(call[c], TRUE)
<1>2. /\ call[c] # Idle /\ call[c] \in CallRecords /\ call[c].op \in {"put", "delete"}
      /\ call[c].pc = "addAgain" /\ call[c].pc \in PolicyPcs
  BY PolicyCall DEF AddAgain, PolicyPcs
<1>3. table' = table /\ LogSources(a)' = LogSources(a)
  BY Zenon DEF AddAgain, LogSources, Stored
<1>4. CASE SetPolicy(c, new, done)
  <2>1. call'[c] = done /\ a \in policy' /\ (a \in suspect' <=> a \in suspect)
    BY <1>1, <1>4 DEF SetPolicy
  <2>2. new \ {a} = call[c].seen \ {a}
    BY <1>1
  <2>3. /\ done = Idle <=> call[c].op = "delete"
        /\ done # Idle => Same(call[c], done) /\ done.added = call[c].added /\ done.pc = "store"
    BY Zenon, <1>2, AddSame
  <2> HIDE DEF new, done, failed
  <2>4. CallPerm(c, a) => IF call'[c] = Idle THEN Kept(a)' ELSE CallPerm(c, a)'
    BY Zenon, <1>2, <1>3, <2>1, <2>3 DEF CallPerm, PutPerm, DeletePerm, Kept, Match, Same
  <2> QED
    BY SMTT(30), SMTT(60), <1>1, <1>2, <1>3, <1>4, <2>2, <2>3, <2>4, PolicyWritten
<1>5. CASE Continue(c, failed) /\ policy' = policy /\ suspect' = UndoFails(c, "delete")
  <2>1. call'[c] = failed
    BY <1>5 DEF Continue, IInv, TypeOK
  <2>2. /\ failed = Idle <=> call[c].op = "delete" \/ ~call[c].added
        /\ failed # Idle =>
             Same(call[c], failed) /\ failed.added = call[c].added /\ failed.pc = "remove"
    BY Zenon, <1>2, AddSame
  <2>3. suspect' = suspect \cup (IF call[c].op = "delete" THEN {a} ELSE {})
    BY <1>1, <1>5 DEF UndoFails
  <2>4. suspect' \in {suspect, suspect \cup {a}}
    BY <2>3
  <2> HIDE DEF new, done, failed
  <2>5. CallPerm(c, a) => IF call'[c] = Idle THEN Kept(a)' ELSE CallPerm(c, a)'
    BY Zenon, <1>2, <1>3, <1>5, <2>1, <2>2, <2>3 DEF CallPerm, PutPerm, DeletePerm, Kept, Match, Same
  <2> QED
    BY Zenon, <1>1, <1>2, <1>3, <1>5, <2>2, <2>4, <2>5, PolicyContinue
<1> QED
  BY Zenon, <1>4, <1>5 DEF AddAgain

\* RemovePermission looks for the statement.
LEMMA RemoveGetPerm ==
    ASSUME IInv, PermInv, kind' = kind, NEW c \in Callers, RemoveGet(c)
    PROVE  PermInv'
<1>1. PICK a : a = call[c].account
  OBVIOUS
<1> DEFINE done == AfterRemove(call[c], FALSE)
           failed == AfterRemove(call[c], TRUE)
           found == [At(c, "removeSet") EXCEPT !.seen = policy]
<1>2. /\ call[c] # Idle /\ call[c] \in CallRecords /\ call[c].op \in {"put", "delete"}
      /\ call[c].pc = "remove" /\ call[c].pc \in PolicyPcs
  BY PolicyCall DEF RemoveGet, PolicyPcs
<1>3. table' = table /\ policy' = policy /\ LogSources(a)' = LogSources(a)
  BY DEF RemoveGet, LogSources, Stored
<1>4. CASE a \notin policy /\ Continue(c, done) /\ suspect' = suspect
  <2>1. call'[c] = done
    BY <1>4 DEF Continue, IInv, TypeOK
  <2>2. /\ done = Idle <=> call[c].op = "put"
        /\ done # Idle => /\ Same(call[c], done) /\ done.added /\ done.pc = "drop"
                          /\ done.id = call[c].id
    BY Zenon, <1>2, RemoveSame
  <2> HIDE DEF done, failed, found
  <2>3. CallPerm(c, a) => IF call'[c] = Idle THEN Kept(a)' ELSE CallPerm(c, a)'
    BY Zenon, <1>2, <1>3, <1>4, <2>1, <2>2 DEF CallPerm, PutPerm, DeletePerm, Kept, Match, Same
  <2> QED
    BY Zenon, <1>1, <1>2, <1>3, <1>4, <2>2, <2>3, PolicyContinue
<1>5. CASE a \in policy /\ Continue(c, found) /\ suspect' = suspect
  <2>1. call'[c] = found
    BY <1>5 DEF Continue, IInv, TypeOK
  <2>2. /\ Same(call[c], found) /\ found.added = call[c].added /\ found.id = call[c].id
        /\ found.pc = "removeSet"
    BY <1>2 DEF At, CallRecords, Same
  <2>3. found # Idle
    BY <2>2 DEF Idle
  <2> HIDE DEF done, failed, found
  <2>4. CallPerm(c, a) => CallPerm(c, a)'
    BY Zenon, <1>2, <1>3, <1>5, <2>1, <2>2 DEF CallPerm, PutPerm, DeletePerm, Kept, Match, Same
  <2> QED
    BY Zenon, <1>1, <1>2, <1>3, <1>5, <2>1, <2>2, <2>3, <2>4, PolicyContinue
<1>6. CASE Continue(c, failed) /\ suspect' = UndoFails(c, "put")
  <2>1. call'[c] = failed
    BY <1>6 DEF Continue, IInv, TypeOK
  <2>2. failed = Idle
    BY Zenon, <1>2, RemoveSame
  <2>3. suspect' = suspect \cup (IF call[c].op = "put" THEN {a} ELSE {})
    BY SMTT(30), <1>1, <1>6 DEF UndoFails
  <2>4. suspect' \in {suspect, suspect \cup {a}}
    BY Zenon, <2>3
  <2> HIDE DEF done, failed, found
  <2>5. CallPerm(c, a) => Kept(a)'
    BY SMTT(30), SMTT(60), <1>2, <1>3, <1>6, <2>1, <2>3 DEF CallPerm, PutPerm, DeletePerm, Kept, Match
  <2> QED
    BY Zenon, <1>1, <1>2, <1>3, <1>6, <2>1, <2>2, <2>4, <2>5, PolicyContinue
<1> QED
  BY Zenon, <1>1, <1>4, <1>5, <1>6 DEF RemoveGet

\* RemovePermission writes the policy, and returns.
LEMMA RemoveSetPerm ==
    ASSUME IInv, PermInv, kind' = kind, NEW c \in Callers, RemoveSet(c)
    PROVE  PermInv'
<1>1. PICK a : a = call[c].account
  BY SMTT(30), SMTT(60)
<1> DEFINE new == call[c].seen \ {call[c].account}
           done == AfterRemove(call[c], FALSE)
           failed == AfterRemove(call[c], TRUE)
<1>2. /\ call[c] # Idle /\ call[c] \in CallRecords /\ call[c].op \in {"put", "delete"}
      /\ call[c].pc = "removeSet" /\ call[c].pc \in PolicyPcs
  BY SMTT(30), PolicyCall DEF RemoveSet, PolicyPcs
<1>3. table' = table /\ LogSources(a)' = LogSources(a)
  BY Zenon DEF RemoveSet, LogSources, Stored
<1>4. CASE SetPolicy(c, new, done)
  <2>1. call'[c] = done /\ a \notin policy' /\ (a \in suspect' <=> a \in suspect)
    BY <1>1, <1>4 DEF SetPolicy
  <2>2. new \ {a} = call[c].seen \ {a}
    BY <1>1
  <2>3. /\ done = Idle <=> call[c].op = "put"
        /\ done # Idle => /\ Same(call[c], done) /\ done.added /\ done.pc = "drop"
                          /\ done.id = call[c].id
    BY Zenon, <1>2, RemoveSame
  <2> HIDE DEF new, done, failed
  <2>4. CallPerm(c, a) => IF call'[c] = Idle THEN Kept(a)' ELSE CallPerm(c, a)'
    BY Zenon, <1>2, <1>3, <2>1, <2>3 DEF CallPerm, PutPerm, DeletePerm, Kept, Match, Same
  <2> QED
    BY SMTT(30), SMTT(60), <1>1, <1>2, <1>3, <1>4, <2>2, <2>3, <2>4, PolicyWritten
<1>5. CASE Continue(c, failed) /\ policy' = policy /\ suspect' = UndoFails(c, "put")
  <2>1. call'[c] = failed
    BY <1>5 DEF Continue, IInv, TypeOK
  <2>2. failed = Idle
    BY Zenon, <1>2, RemoveSame
  <2>3. suspect' = suspect \cup (IF call[c].op = "put" THEN {a} ELSE {})
    BY SMTT(30), <1>1, <1>5 DEF UndoFails
  <2>4. suspect' \in {suspect, suspect \cup {a}}
    BY <2>3
  <2> HIDE DEF new, done, failed
  <2>5. CallPerm(c, a) => Kept(a)'
    BY Zenon, <1>2, <1>3, <1>5, <2>1, <2>3 DEF CallPerm, PutPerm, DeletePerm, Kept, Match
  <2> QED
    BY Zenon, <1>1, <1>2, <1>3, <1>5, <2>1, <2>2, <2>4, <2>5, PolicyContinue
<1> QED
  BY Zenon, <1>4, <1>5 DEF RemoveSet

\* DeleteIntegration finds out whether its row is the account's last log source.
LEMMA SiblingsPerm ==
    ASSUME IInv, PermInv, kind' = kind, NEW c \in Callers, Siblings(c)
    PROVE  PermInv'
<1>1. PICK a : a = call[c].account
  OBVIOUS
<1>2. PICK pc : pc = IF LogSources(call[c].account) \ {call[c].id} = {} THEN "remove" ELSE "drop"
  OBVIOUS
<1> DEFINE q == At(c, pc)
<1>3. /\ call[c] # Idle /\ call[c] \in CallRecords /\ call[c].op = "delete"
      /\ call[c].pc = "siblings" /\ call[c].pc \in PolicyPcs
  BY SMTT(30), PolicyCall DEF Siblings, PolicyPcs
<1>4. table' = table /\ policy' = policy /\ suspect' = suspect /\ LogSources(a)' = LogSources(a)
  BY DEF Siblings, LogSources, Stored, history
<1>5. Continue(c, q)
  BY <1>2 DEF Siblings, LastSource
<1>6. call'[c] = q
  BY <1>5 DEF Continue, IInv, TypeOK
<1>7. Same(call[c], q) /\ q.added = call[c].added /\ q.id = call[c].id /\ q.pc = pc
  BY SMTT(30), SMTT(60), <1>3, MoveSame DEF At
<1>8. q # Idle
  BY SMTT(30), SMTT(60), <1>2, <1>7 DEF Idle
<1> HIDE DEF q
<1>9. CallPerm(c, a) => CallPerm(c, a)'
  BY Zenon, <1>1, <1>2, <1>3, <1>4, <1>6, <1>7 DEF CallPerm, DeletePerm, Kept, Match, Same
<1> QED
  BY Zenon, <1>1, <1>3, <1>4, <1>5, <1>6, <1>7, <1>8, <1>9, PolicyContinue

\* A call that goes on in doubt spoils its account, and no other.
LEMMA DoubtPerm ==
    ASSUME IInv, PermInv, kind' = kind, NEW c \in Callers, call[c] # Idle, NEW pc, Doubt(c, pc),
           pc \in {"remove", "drop", "add"}, kind = "aws-s3",
           policy' = policy,
           \A b \in Accounts \ {call[c].account} : LogSources(b)' = LogSources(b),
           \A id \in Ids : \/ SameOwner(table[id], table'[id])
                           \/ /\ table'[id].type = kind
                              /\ \A d \in Callers : call[d].op \in {"delete", "update"} => call[d].id # id
    PROVE  PermInv'
<1>1. PICK a : a = call[c].account
  BY SMTT(30), SMTT(60)
<1>2. PICK q : q = [At(c, pc) EXCEPT !.alone = FALSE]
  BY Zenon
<1>3. \A d \in Callers : call[d] \in CallRecords
  BY Zenon DEF IInv, TypeOK, CallRecords
<1>4. Carries(call[c], q) /\ ~q.alone /\ q.id = call[c].id
  BY Zenon, <1>2, <1>3 DEF At, CallRecords, Carries
<1>5. /\ call'[c] = q /\ \A d \in Callers \ {c} : call'[d] = call[d]
      /\ suspect' = suspect \cup {a}
  BY Zenon, <1>1, <1>2 DEF Doubt, Continue, IInv, TypeOK
<1>6. /\ a \in Accounts
      /\ call[c].alone => Busy(a) = {c}
      /\ ~call[c].alone => \A d \in Busy(a) : ~call[d].alone
  BY Zenon, <1>1, Vouching
<1>7. KindInv'
  <2>1. \A id \in Ids : table'[id].type \in {kind, "bare", "none"}
    BY Zenon DEF PermInv, KindInv, SameOwner
  <2>2. \A d \in Callers : call'[d].op = "put" => call'[d].type = kind
    <3>1. \A d \in Callers : call[d].op = "put" => call[d].type = kind
      BY Zenon DEF PermInv, KindInv
    <3>2. \A d \in Callers : call'[d].op = call[d].op /\ call'[d].type = call[d].type
      BY Zenon, <1>4, <1>5 DEF Carries
    <3> QED
      BY Zenon, <3>1, <3>2
  <2> QED
    BY Zenon, <2>1, <2>2 DEF KindInv
<1>8. OwnerInv'
  <2>1. ASSUME NEW d \in Callers, call'[d].op \in {"delete", "update"}
        PROVE  /\ call'[d].id \in Ids
               /\ table'[call'[d].id].type \in Types
                      => table'[call'[d].id].account = call'[d].account
    <3>1. /\ call[d].op \in {"delete", "update"} /\ call'[d].id = call[d].id
          /\ call'[d].account = call[d].account
      BY Zenon, <1>4, <1>5, <2>1 DEF Carries
    <3>2. /\ call[d].id \in Ids
          /\ table[call[d].id].type \in Types => table[call[d].id].account = call[d].account
      BY Zenon, <3>1 DEF PermInv, OwnerInv
    <3>3. SameOwner(table[call[d].id], table'[call[d].id])
      BY Zenon, <3>1, <3>2
    <3> QED
      BY Zenon, <3>1, <3>2, <3>3 DEF SameOwner
  <2> QED
    BY Zenon, <2>1 DEF OwnerInv
<1>9. AccountInv(a)'
  <2>1. \A d \in Callers : call'[d].account = a => ~call'[d].alone
    <3>1. ASSUME NEW d \in Callers \ {c}, call'[d].account = a
          PROVE  ~call'[d].alone
      <4>1. d \in Busy(a) /\ call'[d] = call[d] /\ d # c
        BY Zenon, <1>5, <3>1 DEF Busy
      <4> QED
        BY Zenon, <1>6, <4>1
    <3> QED
      BY Zenon, <1>4, <1>5, <3>1
  <2>2. Spoiled(a)
    BY Zenon, <1>5, <2>1 DEF Spoiled
  <2> QED
    BY Zenon, <1>6, <2>2, SpoiledInv
<1>10. ASSUME NEW b \in Accounts \ {a}
       PROVE  AccountInv(b)'
  <2>1. call'[c].account = a
    BY Zenon, <1>1, <1>4, <1>5 DEF Carries
  <2>2. \A d \in Callers : call[d].account = b \/ call'[d].account = b => call'[d] = call[d]
    BY Zenon, <1>1, <1>5, <2>1
  <2>3. Untouched(b)
    BY Zenon, <1>1, <1>5, <2>2 DEF Untouched
  <2>4. AccountInv(b)
    BY Zenon DEF PermInv, AccountsInv
  <2> QED
    BY Zenon, <2>3, <2>4, UntouchedInv
<1> QED
  BY Zenon, <1>7, <1>8, <1>9, <1>10 DEF PermInv, AccountsInv

\* DeleteIntegration is misled about the other sources of the account.
LEMMA SiblingsMisledPerm ==
    ASSUME IInv, PermInv, kind' = kind, NEW c \in Callers, SiblingsMisled(c)
    PROVE  PermInv'
<1>1. call[c].pc = "siblings" /\ table' = table /\ policy' = policy
  BY Zenon DEF SiblingsMisled
<1>2. PICK pc \in {"remove", "drop"} : Doubt(c, pc)
  BY Zenon DEF SiblingsMisled
<1>3. call[c] # Idle /\ kind = "aws-s3"
  BY SMTT(30), <1>1, PolicyCall DEF PolicyPcs
<1>4. \A b : LogSources(b)' = LogSources(b)
  BY Zenon, <1>1 DEF LogSources, Stored
<1>5. \A id \in Ids : SameOwner(table[id], table'[id])
  BY Zenon, <1>1 DEF SameOwner
<1> QED
  BY Zenon, <1>1, <1>2, <1>3, <1>4, <1>5, DoubtPerm

\* PutIntegration writes its row: the account has a log source, and nothing else
\* of the table changes.
LEMMA PutItemTable ==
    ASSUME IInv, PermInv, NEW c \in Callers, PutItem(c), NEW a, a = call[c].account
    PROVE  /\ call[c] # Idle /\ call[c] \in CallRecords /\ call[c].op = "put"
           /\ call[c].pc = "store" /\ puts \in Nat /\ puts + 1 \in Ids
           /\ table'[puts + 1].type = kind
           /\ \A id \in Ids \ {puts + 1} : table'[id] = table[id]
           /\ \A d \in Callers : call[d].op \in {"delete", "update"} => call[d].id # puts + 1
           /\ \A b \in Accounts \ {a} : LogSources(b)' = LogSources(b)
           /\ kind = "aws-s3" => LogSources(a)' # {}
<1> DEFINE row == [NoRow EXCEPT !.type = call[c].type, !.account = call[c].account,
                                !.label = call[c].label]
<1>2. /\ call[c] # Idle /\ call[c] \in CallRecords /\ call[c].op = "put" /\ call[c].pc = "store"
      /\ call[c].type = kind /\ kind \in Types /\ puts \in Nat /\ puts + 1 \in Ids
  <2>1. call[c].pc = "store" /\ puts < MaxIds
    BY SMTT(30), SMTT(60) DEF PutItem
  <2>2. call[c] # Idle /\ call[c].op = "put"
    BY SMTT(30), SMTT(60), <2>1 DEF Idle, IInv, CallsShaped, Shape
  <2>3. call[c] \in CallRecords /\ kind \in Types /\ puts \in 0..MaxIds
    BY DEF IInv, TypeOK, CallRecords
  <2> QED
    BY <2>1, <2>2, <2>3, SourceAssumption DEF PermInv, KindInv, Ids
<1>3. /\ table'[puts + 1] = row /\ row.type = kind /\ row.account = a
      /\ \A id \in Ids \ {puts + 1} : table'[id] = table[id]
  BY SMTT(30), SMTT(60), <1>2 DEF PutItem, IInv, TypeOK, NoRow
<1>4. table[puts + 1] = NoRow
  BY SMTT(30), SMTT(60), <1>2 DEF IInv, IdsFresh
<1> HIDE DEF row
<1>5. \A b \in Accounts \ {a} : LogSources(b)' = LogSources(b)
  <2> SUFFICES ASSUME NEW b \in Accounts \ {a}
               PROVE  LogSources(b)' = LogSources(b)
    OBVIOUS
  <2>1. \A id \in Ids : /\ table'[id].type = "aws-s3" /\ table'[id].account = b
                        <=> table[id].type = "aws-s3" /\ table[id].account = b
    BY SMTT(30), <1>3, <1>4 DEF NoRow
  <2> QED
    BY Zenon, <2>1, LogSourcesAre
<1>6. kind = "aws-s3" => LogSources(a)' # {}
  BY <1>2, <1>3, LogSourcesAre
<1>7. \A d \in Callers : call[d].op \in {"delete", "update"} => call[d].id # puts + 1
  BY SMTT(30), SMTT(60), <1>2 DEF IInv, TypeOK, IdsFresh, Ids
<1> QED
  BY Zenon, <1>2, <1>3, <1>5, <1>6, <1>7

\* PutIntegration stores its row.
LEMMA StorePerm ==
    ASSUME IInv, PermInv, kind' = kind, NEW c \in Callers, Store(c)
    PROVE  PermInv'
<1>1. PICK a : a = call[c].account
  OBVIOUS
<1> DEFINE scan == [At(c, "scan") EXCEPT !.id = puts + 1]
<1>2. PutItem(c) /\ policy' = policy /\ suspect' = suspect \ Repaired(c)
  BY Zenon DEF Store
<1>3. /\ call[c] # Idle /\ call[c] \in CallRecords /\ call[c].op = "put" /\ call[c].pc = "store"
      /\ puts \in Nat /\ puts + 1 \in Ids /\ table'[puts + 1].type = kind
      /\ \A id \in Ids \ {puts + 1} : table'[id] = table[id]
      /\ \A d \in Callers : call[d].op \in {"delete", "update"} => call[d].id # puts + 1
      /\ \A b \in Accounts \ {a} : LogSources(b)' = LogSources(b)
      /\ kind = "aws-s3" => LogSources(a)' # {}
  BY Zenon, <1>1, <1>2, PutItemTable
<1>4. call[c].type = kind
  BY Zenon, <1>3 DEF PermInv, KindInv
<1>5. /\ Same(call[c], scan) /\ scan.added = call[c].added /\ scan.pc = "scan"
  BY SMTT(30), <1>3 DEF At, CallRecords, Same
<1> HIDE DEF scan
<1>6. PICK next : /\ Continue(c, next) /\ next \in {Idle, scan}
                  /\ kind = "aws-s3" => next = Idle
  BY <1>4 DEF Store, scan
<1>7. call'[c] = next /\ \A d \in Callers \ {c} : call'[d] = call[d]
  BY <1>6 DEF Continue, IInv, TypeOK
<1>8. KindInv'
  <2>1. \A id \in Ids : table'[id].type \in {kind, "bare", "none"}
    BY Zenon, <1>3 DEF PermInv, KindInv
  <2>2. \A d \in Callers : call'[d].op = "put" => call'[d].type = kind
    <3>1. \A d \in Callers : call[d].op = "put" => call[d].type = kind
      BY Zenon DEF PermInv, KindInv
    <3>2. Idle.op # "put"
      BY SMTT(30), SMTT(60) DEF Idle
    <3> QED
      BY Zenon, <1>4, <1>5, <1>6, <1>7, <3>1, <3>2 DEF Same
  <2>3. kind = "aws-scan" => \A d \in Callers : call'[d].pc \in ScanPcs /\ ~call'[d].added
    BY SMTT(30), SMTT(60), <1>5, <1>6, <1>7 DEF PermInv, KindInv, Idle, ScanPcs
  <2> QED
    BY Zenon, <1>2, <2>1, <2>2, <2>3 DEF PermInv, KindInv
<1>9. OwnerInv'
  <2>1. call'[c].op \notin {"delete", "update"}
    BY SMTT(30), SMTT(60), <1>3, <1>5, <1>6, <1>7 DEF Same, Idle
  <2> QED
    BY SMTT(30), SMTT(60), <1>3, <1>7, <2>1 DEF PermInv, OwnerInv
<1>10. \A b : b \in suspect' <=> b \in suspect /\ ~(b = a /\ call[c].alone)
  BY Zenon, <1>1, <1>2 DEF Repaired
<1>11. CallPerm(c, a) /\ kind = "aws-s3" => Kept(a)'
  BY Zenon, <1>2, <1>3 DEF CallPerm, PutPerm, Kept, Match
<1>12. next = Idle \/ Same(call[c], next)
  BY Zenon, <1>5, <1>6
<1>13. /\ \A b \in Accounts \ {a} : b \in suspect' <=> b \in suspect
       /\ ~call[c].alone => (a \in suspect => a \in suspect')
  BY Zenon, <1>10
<1>14. kind = "aws-s3" => call'[c] = Idle
  BY Zenon, <1>6, <1>7
<1>15. call[c].alone /\ kind = "aws-s3" /\ CallPerm(c, a) =>
           IF call'[c] = Idle THEN Kept(a)' ELSE CallPerm(c, a)'
  BY Zenon, <1>11, <1>14
<1>16. AccountsInv'
  BY Zenon, <1>1, <1>2, <1>3, <1>6, <1>8, <1>12, <1>13, <1>15, ContinueCall
<1> QED
  BY Zenon, <1>8, <1>9, <1>16 DEF PermInv

\* PutIntegration stores its row and does not learn that it did.
LEMMA StoreUnansweredPerm ==
    ASSUME IInv, PermInv, kind' = kind, NEW c \in Callers, StoreUnanswered(c)
    PROVE  PermInv'
<1>1. PutItem(c) /\ call[c].added /\ Doubt(c, "remove") /\ policy' = policy
  BY Zenon DEF StoreUnanswered
<1>2. PICK a : a = call[c].account
  OBVIOUS
<1>3. /\ call[c] # Idle /\ table'[puts + 1].type = kind
      /\ \A id \in Ids \ {puts + 1} : table'[id] = table[id]
      /\ \A d \in Callers : call[d].op \in {"delete", "update"} => call[d].id # puts + 1
      /\ \A b \in Accounts \ {a} : LogSources(b)' = LogSources(b)
  BY Zenon, <1>1, <1>2, PutItemTable
<1>4. kind = "aws-s3"
  BY Zenon, <1>1 DEF PermInv, KindInv, IInv, TypeOK, Types
<1>5. \A id \in Ids \ {puts + 1} : SameOwner(table[id], table'[id])
  BY Zenon, <1>3 DEF SameOwner
<1> QED
  BY Zenon, <1>1, <1>2, <1>3, <1>4, <1>5, DoubtPerm

\* DeleteIntegration deletes its row: the account has one log source less, and
\* the others have what they had.
LEMMA DeleteItemTable ==
    ASSUME IInv, PermInv, NEW c \in Callers, DeleteItem(c), NEW a, a = call[c].account
    PROVE  /\ call[c] # Idle /\ call[c] \in CallRecords /\ call[c].op = "delete"
           /\ call[c].pc = "drop"
           /\ \A i \in Ids : SameOwner(table[i], table'[i])
           /\ \A b \in Accounts \ {a} : LogSources(b)' = LogSources(b)
           /\ LogSources(a)' = LogSources(a) \ {call[c].id}
<1>2. PICK id : id = call[c].id
  OBVIOUS
<1>3. /\ call[c] # Idle /\ call[c] \in CallRecords /\ call[c].op = "delete" /\ call[c].pc = "drop"
      /\ id \in Ids
  <2>1. call[c].pc = "drop" /\ id \in Stored
    BY SMTT(30), <1>2 DEF DeleteItem
  <2>2. call[c] \in CallRecords /\ id \in Ids
    BY Zenon, <2>1 DEF IInv, TypeOK, Stored, CallRecords
  <2>3. call[c] # Idle
    BY SMTT(30), SMTT(60), <2>1 DEF Idle
  <2>4. call[c].op = "delete"
    BY Zenon, <2>1, <2>3 DEF IInv, CallsShaped, Shape
  <2> QED
    BY <2>1, <2>2, <2>3, <2>4
<1>4. table'[id] = NoRow /\ \A i \in Ids \ {id} : table'[i] = table[i]
  BY Zenon, <1>2, <1>3 DEF DeleteItem, IInv, TypeOK
<1>5. \A i \in Ids : SameOwner(table[i], table'[i])
  BY SMTT(30), SMTT(60), <1>4 DEF SameOwner, NoRow, Types
<1>6. \A b \in Accounts \ {a} : LogSources(b)' = LogSources(b)
  <2> SUFFICES ASSUME NEW b \in Accounts \ {a}
               PROVE  LogSources(b)' = LogSources(b)
    BY SMTT(30), SMTT(60)
  <2>1. table[id].type \in Types => table[id].account = a
    BY SMTT(30), <1>2, <1>3 DEF PermInv, OwnerInv
  <2>2. \A i \in Ids : /\ table'[i].type = "aws-s3" /\ table'[i].account = b
                        <=> table[i].type = "aws-s3" /\ table[i].account = b
    BY SMTT(30), SMTT(60), <1>4, <2>1 DEF NoRow, Types
  <2> QED
    BY Zenon, <2>2, LogSourcesAre
<1>7. LogSources(a)' = LogSources(a) \ {id}
  BY SMTT(30), SMTT(60), <1>3, <1>4, LogSourcesAre DEF NoRow
<1> QED
  BY Zenon, <1>2, <1>3, <1>5, <1>6, <1>7

\* DeleteIntegration drops its row.
LEMMA DropPerm ==
    ASSUME IInv, PermInv, kind' = kind, NEW c \in Callers, Drop(c)
    PROVE  PermInv'
<1>1. PICK a : a = call[c].account
  OBVIOUS
<1>2. /\ DeleteItem(c) /\ Continue(c, Idle) /\ policy' = policy
      /\ suspect' = suspect \ {b \in Repaired(c) : call[c].added}
  BY Zenon DEF Drop
<1>3. /\ call[c] # Idle /\ call[c] \in CallRecords /\ call[c].op = "delete" /\ call[c].pc = "drop"
      /\ \A i \in Ids : SameOwner(table[i], table'[i])
      /\ \A b \in Accounts \ {a} : LogSources(b)' = LogSources(b)
      /\ LogSources(a)' = LogSources(a) \ {call[c].id}
  BY Zenon, <1>1, <1>2, DeleteItemTable
<1>4. \A b : b \in suspect' <=> b \in suspect /\ ~(b = a /\ call[c].alone /\ call[c].added)
  BY SMTT(30), <1>1, <1>2 DEF Repaired
<1>5. call'[c] = Idle /\ \A d \in Callers \ {c} : call'[d] = call[d]
  BY Zenon, <1>2 DEF Continue, IInv, TypeOK
<1>6. KindInv' /\ OwnerInv'
  BY SMTT(30), SMTT(60), <1>2, <1>3, <1>5, CallTrace
<1>7. CallPerm(c, a) /\ call[c].alone => Kept(a)'
  BY Zenon, <1>2, <1>3, <1>4 DEF CallPerm, DeletePerm, Kept, Match
<1>8. AccountsInv'
  BY Zenon, <1>1, <1>2, <1>3, <1>4, <1>5, <1>6, <1>7, ContinueCall
<1> QED
  BY <1>6, <1>8 DEF PermInv

\* DeleteIntegration drops its row and does not learn that it did.
LEMMA DropUnansweredPerm ==
    ASSUME IInv, PermInv, kind' = kind, NEW c \in Callers, DropUnanswered(c)
    PROVE  PermInv'
<1>1. DeleteItem(c) /\ call[c].added /\ Doubt(c, "add") /\ policy' = policy
  BY Zenon DEF DropUnanswered
<1>2. PICK a : a = call[c].account
  OBVIOUS
<1>3. /\ call[c] # Idle /\ \A i \in Ids : SameOwner(table[i], table'[i])
      /\ \A b \in Accounts \ {a} : LogSources(b)' = LogSources(b)
  BY Zenon, <1>1, <1>2, DeleteItemTable
<1>4. kind = "aws-s3"
  BY Zenon, <1>1 DEF PermInv, KindInv, IInv, TypeOK, Types
<1> QED
  BY Zenon, <1>1, <1>2, <1>3, <1>4, DoubtPerm

\* UpdateIntegrationSettings writes a label, perhaps to a row that is gone.
LEMMA UpdateItemPerm ==
    ASSUME IInv, PermInv, kind' = kind, NEW c \in Callers, UpdateItem(c)
    PROVE  PermInv'
<1>1. PICK a : a = call[c].account
  OBVIOUS
<1>2. PICK id : id = call[c].id
  BY SMTT(30), SMTT(60)
<1>3. call[c] # Idle /\ call[c].op = "update" /\ id \in Ids
  <2>1. call[c].pc = "update"
    BY DEF UpdateItem
  <2> QED
    BY SMTT(30), SMTT(60), <1>2, <2>1 DEF Idle, IInv, CallsShaped, Shape
<1>4. /\ table'[id].type = IF table[id] = NoRow THEN "bare" ELSE table[id].type
      /\ table'[id].account = table[id].account
      /\ \A i \in Ids \ {id} : table'[i] = table[i]
  <2>1. table[id] \in Rows /\ table \in [Ids -> Rows]
    BY <1>3 DEF IInv, TypeOK
  <2>2. table' = [table EXCEPT ![id] = Upsert(table[id], [table[id] EXCEPT !.label = call[c].label])]
    BY <1>2 DEF UpdateItem
  <2> QED
    BY <1>3, <2>1, <2>2 DEF Upsert, Rows
<1>5. Continue(c, Idle) /\ policy' = policy /\ suspect' = suspect
  BY DEF UpdateItem
<1>6. call'[c] = Idle /\ \A d \in Callers \ {c} : call'[d] = call[d]
  BY <1>5 DEF Continue, IInv, TypeOK
<1>7. \A i \in Ids : SameOwner(table[i], table'[i])
  BY Zenon, <1>4 DEF SameOwner, NoRow, Types
<1>8. KindInv' /\ OwnerInv'
  BY Zenon, <1>5, <1>6, <1>7, CallTrace
<1>9. ASSUME NEW b
      PROVE  LogSources(b)' = LogSources(b)
  <2>1. NoRow.type # "aws-s3" /\ "bare" # "aws-s3"
    BY Zenon DEF NoRow
  <2>2. table'[id].type = "aws-s3" <=> table[id].type = "aws-s3"
    BY SMTT(30), SMTT(60), <1>4, <2>1
  <2>3. \A i \in Ids : /\ table'[i].type = "aws-s3" /\ table'[i].account = b
                        <=> table[i].type = "aws-s3" /\ table[i].account = b
    BY Zenon, <1>4, <2>2
  <2> QED
    BY Zenon, <2>3, LogSourcesAre
<1>10. CallPerm(c, a) => Kept(a)'
  BY Zenon, <1>3, <1>5, <1>9 DEF CallPerm, Kept, Match
<1>11. AccountsInv'
  BY Zenon, <1>1, <1>3, <1>5, <1>6, <1>8, <1>9, <1>10, ContinueCall
<1> QED
  BY <1>8, <1>11 DEF PermInv

\* A call goes on or returns, and nothing else happens.
LEMMA GoOnPerm ==
    ASSUME IInv, PermInv, kind' = kind, NEW c \in Callers, call[c] # Idle,
           NEW a, a = call[c].account, table' = table, policy' = policy,
           NEW next, Continue(c, next), next = Idle \/ Same(call[c], next),
           suspect' \in {suspect, suspect \cup {a}},
           kind = "aws-scan" /\ next # Idle => next.pc \in ScanPcs /\ ~next.added,
           CallPerm(c, a) /\ kind = "aws-s3" =>
               IF call'[c] = Idle THEN Kept(a)' ELSE CallPerm(c, a)'
    PROVE  PermInv'
<1>1. KindInv' /\ OwnerInv'
  BY Zenon, ContinueTrace
<1>2. \A b : LogSources(b)' = LogSources(b)
  BY Zenon DEF LogSources, Stored
<1>3. \A b \in Accounts \ {a} : b \in suspect' <=> b \in suspect
  BY Zenon
<1>4. ~call[c].alone => (a \in suspect => a \in suspect')
  BY Zenon
<1>5. AccountsInv'
  BY Zenon, <1>1, <1>2, <1>3, <1>4, ContinueCall
<1> QED
  BY Zenon, <1>1, <1>5 DEF PermInv

\* A call that runs, and what its steps that leave the table and the policy
\* alone keep.
LEMMA RunningCall ==
    ASSUME IInv, PermInv, NEW c \in Callers, call[c].pc # "idle" \/ call[c] # Idle
    PROVE  /\ call[c] # Idle /\ call[c] \in CallRecords /\ Shape(call[c])
           /\ kind = "aws-scan" => ~call[c].added
<1>1. call[c] \in CallRecords /\ Shape(call[c])
  BY DEF IInv, TypeOK, CallsShaped, CallRecords
<1>2. Idle.pc = "idle"
  BY DEF Idle
<1>3. kind = "aws-scan" => ~call[c].added
  BY DEF PermInv, KindInv
<1> QED
  BY <1>1, <1>2, <1>3

\* PutIntegration could not store its row.
LEMMA StoreFailsPerm ==
    ASSUME IInv, PermInv, kind' = kind, NEW c \in Callers, StoreFails(c)
    PROVE  PermInv'
<1>0. PICK q : q = At(c, "remove")
  OBVIOUS
<1>1. PICK a : a = call[c].account
  OBVIOUS
<1>2. call[c].pc = "store" /\ table' = table /\ policy' = policy /\ suspect' = suspect
  BY Zenon DEF StoreFails, history
<1>3. call[c] # Idle /\ call[c] \in CallRecords /\ Shape(call[c]) /\ (kind = "aws-scan" => ~call[c].added)
  BY <1>2, RunningCall
<1>4. call[c].op = "put"
  BY Zenon, <1>2, <1>3 DEF Shape
<1>5. LogSources(a)' = LogSources(a)
  BY <1>2 DEF LogSources, Stored
<1>6. Same(call[c], q) /\ q.added = call[c].added /\ q.pc = "remove"
  BY SMTT(30), SMTT(60), <1>0, <1>3, MoveSame DEF At
<1>7. q # Idle
  BY Zenon, <1>6, NotIdle
<1>8. PICK next : Continue(c, next) /\ next = IF call[c].added THEN q ELSE Idle
  BY Zenon, <1>0 DEF StoreFails
<1>9. call'[c] = next
  BY <1>8 DEF Continue, IInv, TypeOK
<1>10. CallPerm(c, a) => IF call'[c] = Idle THEN Kept(a)' ELSE CallPerm(c, a)'
  BY Zenon, <1>2, <1>4, <1>5, <1>6, <1>7, <1>8, <1>9 DEF CallPerm, PutPerm, Kept, Match, Same
<1> QED
  BY Zenon, <1>1, <1>2, <1>3, <1>6, <1>8, <1>10, GoOnPerm

\* DeleteIntegration could not delete its row.
LEMMA DropFailsPerm ==
    ASSUME IInv, PermInv, kind' = kind, NEW c \in Callers, DropFails(c)
    PROVE  PermInv'
<1>0. PICK q : q = At(c, "add")
  OBVIOUS
<1>1. PICK a : a = call[c].account
  OBVIOUS
<1>2. call[c].pc = "drop" /\ table' = table /\ policy' = policy /\ suspect' = suspect
  BY Zenon DEF DropFails, history
<1>3. call[c] # Idle /\ call[c] \in CallRecords /\ Shape(call[c]) /\ (kind = "aws-scan" => ~call[c].added)
  BY <1>2, RunningCall
<1>4. call[c].op = "delete"
  BY Zenon, <1>2, <1>3 DEF Shape
<1>5. LogSources(a)' = LogSources(a)
  BY <1>2 DEF LogSources, Stored
<1>6. Same(call[c], q) /\ q.added = call[c].added /\ q.id = call[c].id /\ q.pc = "add"
  BY SMTT(30), SMTT(60), <1>0, <1>3, MoveSame DEF At
<1>7. q # Idle
  BY Zenon, <1>6, NotIdle
<1>8. PICK next : Continue(c, next) /\ next = IF call[c].added THEN q ELSE Idle
  BY Zenon, <1>0 DEF DropFails
<1>9. call'[c] = next
  BY <1>8 DEF Continue, IInv, TypeOK
<1>10. CallPerm(c, a) => IF call'[c] = Idle THEN Kept(a)' ELSE CallPerm(c, a)'
  BY Zenon, <1>2, <1>4, <1>5, <1>6, <1>7, <1>8, <1>9 DEF CallPerm, DeletePerm, Kept, Match, Same
<1> QED
  BY Zenon, <1>1, <1>2, <1>3, <1>6, <1>8, <1>10, GoOnPerm

\* A scan that is asked for, and a failed request.
LEMMA RequestPerm ==
    ASSUME IInv, PermInv, kind' = kind, NEW c \in Callers, ScanNew(c) \/ RequestFails(c)
    PROVE  PermInv'
<1>1. PICK a : a = call[c].account
  OBVIOUS
<1>2. /\ call[c].pc \in {"scan", "siblings", "update"} /\ Continue(c, Idle)
      /\ table' = table /\ policy' = policy /\ suspect' = suspect
  BY Zenon DEF ScanNew, RequestFails, history
<1>3. call[c] # Idle /\ call[c] \in CallRecords /\ Shape(call[c])
  BY SMTT(30), SMTT(60), <1>2, RunningCall
<1>4. LogSources(a)' = LogSources(a)
  BY SMTT(30), SMTT(60), <1>2 DEF LogSources, Stored
<1>5. call'[c] = Idle
  BY <1>2 DEF Continue, IInv, TypeOK
<1>6. CallPerm(c, a) => Kept(a)'
  BY Zenon, <1>2, <1>3, <1>4 DEF CallPerm, PutPerm, DeletePerm, Kept, Match, Shape, Idle
<1> QED
  BY Zenon, <1>1, <1>2, <1>3, <1>5, <1>6, GoOnPerm

\* A call that is killed.
LEMMA KilledPerm ==
    ASSUME IInv, PermInv, kind' = kind, NEW c \in Callers, Killed(c)
    PROVE  PermInv'
<1>1. PICK a : a = call[c].account
  OBVIOUS
<1>2. /\ call[c] # Idle /\ Continue(c, Idle) /\ suspect' = suspect \cup {a}
      /\ table' = table /\ policy' = policy
  BY Zenon, <1>1 DEF Killed
<1>3. call'[c] = Idle
  BY <1>2 DEF Continue, IInv, TypeOK
<1>4. Kept(a)'
  BY <1>2 DEF Kept
<1> QED
  BY Zenon, <1>1, <1>2, <1>3, <1>4, GoOnPerm

\* A call begins.
LEMMA BeginPerm ==
    ASSUME IInv, PermInv, kind' = kind, NEW c \in Callers, NEW new \in CallRecords, Begin(c, new),
           new # Idle, table' = table, policy' = policy, NEW a \in Accounts, new.account = a,
           new.op = "put" => new.type = kind,
           new.op \in {"delete", "update"} => new.id \in Ids /\ table[new.id].account = a,
           kind = "aws-scan" => new.pc \in ScanPcs, ~new.added,
           kind = "aws-s3" /\ Kept(a) =>
               \/ new.op = "put" /\ new.pc = "add"
               \/ new.op = "delete" /\ new.pc = "siblings" /\ new.id \in LogSources(a)
               \/ new.op = "update"
    PROVE  PermInv'
<1> DEFINE q == [new EXCEPT !.alone = Busy(a) = {}]
<1>1. /\ q.op = new.op /\ q.type = new.type /\ q.account = a /\ q.id = new.id /\ q.pc = new.pc
      /\ q.added = new.added /\ (q.alone <=> Busy(a) = {})
  BY Zenon DEF CallRecords
<1>2. /\ call[c] = Idle /\ call'[c] = q
      /\ \A d \in Callers \ {c} :
            call'[d] = IF d \in Busy(a) THEN [call[d] EXCEPT !.alone = FALSE] ELSE call[d]
      /\ \A b : b \in suspect' <=> b \in suspect \/ (b = a /\ Busy(a) # {})
  BY DEF Begin
<1> HIDE DEF q
<1>3. \A d \in Callers : call[d] \in CallRecords
  BY DEF IInv, TypeOK, CallRecords
<1>4. \A d \in Callers \ {c} :
         /\ call'[d].op = call[d].op /\ call'[d].type = call[d].type
         /\ call'[d].account = call[d].account /\ call'[d].id = call[d].id
         /\ call'[d].pc = call[d].pc /\ call'[d].added = call[d].added
         /\ call[d].account = a => ~call'[d].alone
         /\ call[d].account # a => call'[d] = call[d]
  <2> SUFFICES ASSUME NEW d \in Callers \ {c}
               PROVE  /\ call'[d].op = call[d].op /\ call'[d].type = call[d].type
                      /\ call'[d].account = call[d].account /\ call'[d].id = call[d].id
                      /\ call'[d].pc = call[d].pc /\ call'[d].added = call[d].added
                      /\ call[d].account = a => ~call'[d].alone
                      /\ call[d].account # a => call'[d] = call[d]
    BY SMTT(30), SMTT(60)
  <2>1. CASE call[d].account = a
    <3>1. call'[d] = [call[d] EXCEPT !.alone = FALSE]
      BY Zenon, <1>2, <2>1 DEF Busy
    <3> QED
      BY <1>3, <2>1, <3>1 DEF CallRecords
  <2>2. CASE call[d].account # a
    <3>1. call'[d] = call[d]
      BY Zenon, <1>2, <2>2 DEF Busy
    <3> QED
      BY SMTT(30), SMTT(60), <2>2, <3>1
  <2> QED
    BY Zenon, <2>1, <2>2
<1>5. KindInv'
  BY <1>1, <1>2, <1>4 DEF PermInv, KindInv
<1>6. OwnerInv'
  <2>1. ASSUME NEW d \in Callers, call'[d].op \in {"delete", "update"}
        PROVE  /\ call'[d].id \in Ids
               /\ table[call'[d].id].type \in Types => table[call'[d].id].account = call'[d].account
    <3>1. CASE d = c
      BY Zenon, <1>1, <1>2, <2>1, <3>1
    <3>2. CASE d # c
      BY Zenon, <1>4, <2>1, <3>2 DEF PermInv, OwnerInv
    <3> QED
      BY Zenon, <3>1, <3>2
  <2> QED
    BY Zenon, <2>1 DEF OwnerInv
<1>7. \A b : LogSources(b)' = LogSources(b)
  BY Zenon DEF LogSources, Stored
<1>8. Idle.account \notin Accounts
  BY Zenon, SourceAssumption DEF Idle
<1>9. ASSUME NEW b \in Accounts \ {a}
      PROVE  AccountInv(b)'
  <2>1. Untouched(b)
    BY Zenon, <1>1, <1>2, <1>4, <1>7, <1>8 DEF Untouched
  <2>2. AccountInv(b)
    BY Zenon DEF PermInv, AccountsInv
  <2> QED
    BY Zenon, <2>1, <2>2, UntouchedInv
<1>10. CASE Busy(a) = {}
  <2>1. Busy(a)' = {c}
    BY <1>1, <1>2, <1>4, <1>10 DEF Busy
  <2>2. Kept(a) /\ Kept(a)'
    BY <1>2, <1>7, <1>10 DEF PermInv, AccountsInv, AccountInv, Kept, Match
  <2>3. kind = "aws-s3" => CallPerm(c, a)'
    BY <1>1, <1>2, <1>7, <2>2 DEF CallPerm, PutPerm, DeletePerm
  <2>4. AccountInv(a)'
    BY Zenon, <1>1, <1>2, <1>10, <2>1, <2>3 DEF AccountInv
  <2> QED
    BY SMTT(30), <1>5, <1>6, <1>9, <2>4 DEF PermInv, AccountsInv
<1>11. CASE Busy(a) # {}
  <2>1. Spoiled(a)
    BY <1>1, <1>2, <1>4, <1>11 DEF Spoiled
  <2> QED
    BY SMTT(30), <1>5, <1>6, <1>9, <2>1, SpoiledInv DEF PermInv, AccountsInv
<1> QED
  BY Zenon, <1>10, <1>11

\* PutIntegration, DeleteIntegration and UpdateIntegrationSettings begin.
LEMMA StartPerm ==
    ASSUME IInv, PermInv, kind' = kind, NEW c \in Callers,
           \/ \E s \in Sources, listed \in SUBSET Stored :
                  s[1] = kind /\ Put(c, s[1], s[2], s[3], listed)
           \/ \E id \in Ids : Delete(c, id) \/ \E l \in Renames : Update(c, id, l)
    PROVE  PermInv'
<1>0. kind \in Types
  BY Zenon DEF IInv, TypeOK
<1>1. CASE \E s \in Sources, listed \in SUBSET Stored :
                s[1] = kind /\ Put(c, s[1], s[2], s[3], listed)
  <2>1. PICK a \in Accounts, label \in Labels, listed \in SUBSET Stored :
            Put(c, kind, a, label, listed)
    BY <1>1, SourceAssumption
  <2> DEFINE new == [Idle EXCEPT !.op = "put", !.type = kind, !.account = a, !.label = label,
                                 !.pc = IF kind = "aws-s3" THEN "add" ELSE "store"]
  <2>2. /\ new.op = "put" /\ new.type = kind /\ new.account = a /\ ~new.added
        /\ new.pc = (IF kind = "aws-s3" THEN "add" ELSE "store")
        /\ new \in CallRecords /\ new # Idle
    BY Zenon, <1>0, <2>1 DEF Idle, CallRecords
  <2>3. Begin(c, new) /\ UNCHANGED <<table, policy>>
    BY Zenon, <2>1 DEF Put
  <2> HIDE DEF new
  <2> QED
    BY SMTT(30), SMTT(60), <2>2, <2>3, BeginPerm DEF ScanPcs
<1>2. ASSUME NEW id \in Ids, Delete(c, id)
      PROVE  PermInv'
  <2>0. PICK a : a = table[id].account
    OBVIOUS
  <2> DEFINE new == [Idle EXCEPT !.op = "delete", !.id = id, !.account = table[id].account,
                             !.pc = IF table[id].type = "aws-s3" THEN "siblings" ELSE "drop"]
  <2>1. table[id].type \in Types /\ a \in Accounts
    BY Zenon, <1>2, <2>0 DEF Delete, IInv, RowsOwned
  <2>2. /\ new.op = "delete" /\ new.account = a /\ new.id = id /\ ~new.added
        /\ new.pc = (IF table[id].type = "aws-s3" THEN "siblings" ELSE "drop")
        /\ new \in CallRecords /\ new # Idle
    BY Zenon, <2>0, <2>1 DEF Idle, CallRecords
  <2>3. Begin(c, new) /\ UNCHANGED <<table, policy>>
    BY Zenon, <1>2 DEF Delete
  <2>4. table[id].type = kind
    BY Zenon, <2>1 DEF PermInv, KindInv, Types
  <2>5. kind = "aws-s3" => id \in LogSources(a)
    BY SMTT(30), SMTT(60), <2>0, <2>4, LogSourcesAre
  <2> HIDE DEF new
  <2> QED
    BY Zenon, <2>0, <2>1, <2>2, <2>3, <2>4, <2>5, BeginPerm DEF ScanPcs
<1>3. ASSUME NEW id \in Ids, NEW l \in Renames, Update(c, id, l)
      PROVE  PermInv'
  <2>0. PICK a : a = table[id].account
    OBVIOUS
  <2> DEFINE new == [Idle EXCEPT !.op = "update", !.id = id, !.pc = "update",
                                 !.account = table[id].account, !.label = l]
  <2>1. table[id].type \in Types /\ a \in Accounts
    BY Zenon, <1>3, <2>0 DEF Update, IInv, RowsOwned
  <2>2. /\ new.op = "update" /\ new.account = a /\ new.id = id /\ new.pc = "update" /\ ~new.added
        /\ new \in CallRecords /\ new # Idle
    <3>1. l \in Labels
      BY SourceAssumption
    <3> QED
      BY Zenon, <2>0, <2>1, <3>1 DEF Idle, CallRecords
  <2>3. Begin(c, new) /\ UNCHANGED <<table, policy>>
    BY Zenon, <1>3 DEF Update
  <2> HIDE DEF new
  <2> QED
    BY Zenon, <2>0, <2>1, <2>2, <2>3, BeginPerm DEF ScanPcs
<1> QED
  BY <1>1, <1>2, <1>3

\* The scheduler and the scans leave owners, policy and calls alone.
LEMMA ScanPerm ==
    ASSUME IInv, PermInv, kind' = kind, UNCHANGED <<policy, call, suspect>>,
           \A id \in Ids : SameOwner(table[id], table'[id]),
           \A id \in Ids : table[id].type = "aws-s3" => table'[id].type = "aws-s3"
    PROVE  PermInv'
<1>1. KindInv' /\ OwnerInv'
  BY SMTT(30), SMTT(60) DEF PermInv, KindInv, OwnerInv, SameOwner
<1>2. ASSUME NEW b \in Accounts
      PROVE  AccountInv(b)'
  <2>1. \A i \in Ids : /\ table'[i].type = "aws-s3" /\ table'[i].account = b
                        <=> table[i].type = "aws-s3" /\ table[i].account = b
    BY DEF SameOwner, Types
  <2>2. LogSources(b)' = LogSources(b)
    BY Zenon, <2>1, LogSourcesAre
  <2>3. Untouched(b)
    BY <2>2 DEF Untouched
  <2>4. AccountInv(b)
    BY Zenon DEF PermInv, AccountsInv
  <2> QED
    BY Zenon, <2>3, <2>4, UntouchedInv
<1> QED
  BY Zenon, <1>1, <1>2 DEF PermInv, AccountsInv

\* Each of their steps, one by one.
LEMMA SchedulerPerm ==
    ASSUME IInv, PermInv, kind' = kind,
           \/ PollAndIssueNewScans \/ PollFails
           \/ \E id \in Ids : LastScanStart(id) \/ LastScanEnd(id) \/ IntervalElapses(id)
    PROVE  PermInv'
<1>0. table \in [Ids -> Rows]
  BY DEF IInv, TypeOK
<1>1. UNCHANGED <<policy, call, suspect>>
  BY Zenon DEF PollAndIssueNewScans, PollFails, LastScanStart, LastScanEnd, IntervalElapses, history
<1>2. CASE table' = table
  <2>1. \A id \in Ids : SameOwner(table[id], table'[id])
    BY Zenon, <1>2 DEF SameOwner
  <2> QED
    BY SMTT(30), <1>1, <1>2, <2>1, ScanPerm
<1>3. ASSUME NEW id \in Ids, LastScanStart(id) \/ LastScanEnd(id) \/ IntervalElapses(id)
      PROVE  PermInv'
  <2>1. /\ table'[id].type = table[id].type \/ (table[id] = NoRow /\ table'[id].type = "bare")
        /\ table'[id].account = table[id].account
        /\ \A i \in Ids \ {id} : table'[i] = table[i]
    <3>0. table[id] \in Rows
      BY <1>0
    <3>1. CASE LastScanStart(id)
      BY Zenon, <1>0, <3>0, <3>1 DEF LastScanStart, Upsert, Rows
    <3>2. CASE LastScanEnd(id)
      BY <1>0, <3>0, <3>2 DEF LastScanEnd, Rows
    <3>3. CASE IntervalElapses(id)
      BY <1>0, <3>0, <3>3 DEF IntervalElapses, Rows
    <3> QED
      BY SMTT(30), SMTT(60), <1>3, <3>1, <3>2, <3>3
  <2>2. \A i \in Ids : SameOwner(table[i], table'[i])
    BY Zenon, <2>1 DEF SameOwner, NoRow, Types
  <2> QED
    BY SMTT(30), SMTT(60), <1>1, <2>1, <2>2, ScanPerm DEF NoRow
<1> QED
  BY <1>2, <1>3 DEF PollAndIssueNewScans, PollFails

\* PermInv holds in every state.
LEMMA PermInvCorrect == Spec => []PermInv
<1>1. Init => PermInv
  <2> SUFFICES ASSUME Init PROVE PermInv
    OBVIOUS
  <2>1. Idle.op = "none" /\ Idle.pc = "idle" /\ ~Idle.added /\ Idle.account \notin Accounts
    BY SourceAssumption DEF Idle
  <2>2. KindInv /\ OwnerInv
    BY Zenon, <2>1 DEF Init, KindInv, OwnerInv, NoRow, ScanPcs
  <2>3. \A a \in Accounts : Busy(a) = {} /\ LogSources(a) = {}
    BY SMTT(30), SMTT(60), <2>1 DEF Init, Busy, LogSources, Stored
  <2>4. AccountsInv
    BY <2>3 DEF Init, AccountsInv, AccountInv, Kept, Match
  <2> QED
    BY <2>2, <2>4 DEF PermInv
<1>2. IInv /\ PermInv /\ [Next]_vars => PermInv'
  <2> SUFFICES ASSUME IInv, PermInv, [Next]_vars PROVE PermInv'
    OBVIOUS
  <2>1. CASE Next
    <3>1. ASSUME NEW c \in Callers, CallStep(c) \/ Killed(c)
          PROVE  PermInv'
      <4>1. kind' = kind
        BY <2>1 DEF Next
      <4> QED
        BY <3>1, <4>1, StorePerm, DropPerm, UpdateItemPerm, StoreFailsPerm,
           DropFailsPerm, RequestPerm, KilledPerm, AddGetPerm, AddSetPerm,
           AddAgainPerm, RemoveGetPerm, RemoveSetPerm, SiblingsPerm, SiblingsMisledPerm,
           StoreUnansweredPerm, DropUnansweredPerm DEF CallStep
    <3> QED
      BY <2>1, <3>1, StartPerm, SchedulerPerm DEF Next
  <2>2. CASE UNCHANGED vars
    <3>1. \A id \in Ids : SameOwner(table[id], table'[id])
      BY <2>2 DEF vars, SameOwner
    <3> QED
      BY <2>2, <3>1, ScanPerm DEF vars
  <2> QED
    BY <2>1, <2>2
<1> QED
  BY <1>1, <1>2, IInvCorrect, PTL DEF Spec

\* For any number of concurrent calls, and however their requests fail: outside
\* of the calls for an account, the policy of the log processor's queue admits it
\* exactly while it has a log source, unless it is suspect: calls for it
\* overlapped, its undo failed, its call was killed, misled by a scan or not told
\* of its own write, or its statement was lost in a write of an older policy, and
\* no later call put things right.
THEOREM PermissionCorrect == Spec => []PermissionMatches
<1>1. PermInv => PermissionMatches
  BY DEF PermInv, AccountsInv, AccountInv, Kept, Match, PermissionMatches
<1> QED
  BY <1>1, PermInvCorrect, PTL
=============================================================================
