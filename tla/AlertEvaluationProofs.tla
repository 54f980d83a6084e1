----------------------- MODULE AlertEvaluationProofs -----------------------
(***************************************************************************)
(* What TLAPS proves of AlertEvaluation for every set of deployments,      *)
(* users, signals, alerts and sessions and every bound.                    *)
(*                                                                         *)
(* Rows and inboxes need no hypothesis on the sessions.  That no scope     *)
(* ever shows two active alerts of a category, and that the engine         *)
(* implements the AlertBoard, hold if each service is run by one session.  *)
(* (The run AlertDuplicate shows what two sessions of the alert engine     *)
(* do.)  An active row of a category then comes only from the session that *)
(* owns the category, so that its snapshot, however old, holds every       *)
(* active row of the category (Covered); in what it sees, its own writes   *)
(* included, the rows are unique (ViewUnique), because it only adds a row  *)
(* for a condition when every active row of the condition's category has   *)
(* the condition's type (PlanFits); and what it sees is what it commits.   *)
(***************************************************************************)
EXTENDS AlertBoardRefinement, TLAPS

-----------------------------------------------------------------------------
(* The operators of the model.                                              *)

\* What a category's evaluation may find is a level.
LEMMA LevelsOfType ==
  ASSUME NEW c \in Category
  PROVE  LevelsOf(c) \subseteq Level
BY DEF LevelsOf, Level, Firing

\* The scopes a unit evaluates are scopes.
LEMMA ScopesType ==
  ASSUME NEW u \in Unit, NEW levels, NEW rows
  PROVE  Scopes(u, levels, rows) \subseteq Scope
<1>1. u[2] \in Scope
  BY DEF Unit, Scope
<1>2. Platform \in Scope /\ User \subseteq Scope
  BY DEF Scope
<1> QED
  BY <1>1, <1>2 DEF Scopes

\* What an evaluation wants are conditions.
LEMMA DesiredType ==
  ASSUME NEW e, NEW s \in Scope
  PROVE  Desired(e, s) \subseteq Condition
<1>1. ASSUME NEW c, <<s, c>> \in Signal, sample[e][<<s, c>>] \in Firing
      PROVE  [scope |-> s, cat |-> c, level |-> sample[e][<<s, c>>]] \in Condition
  BY <1>1, SignalAssumption DEF Condition
<1> QED
  BY <1>1 DEF Desired

\* A table with the writes of a session over it is a table.
LEMMA OverType ==
  ASSUME NEW e \in Session,
         NEW rows \in [AlertId -> Row \cup {NoRow}],
         adding[e] \in [AlertId -> Row \cup {NoRow}]
  PROVE  Over(rows, e) \in [AlertId -> Row \cup {NoRow}]
<1>1. ASSUME NEW row \in Row \cup {NoRow}
      PROVE  Resolved(row) \in Row \cup {NoRow}
  <2>1. CASE row = NoRow
    BY <2>1 DEF Resolved, NoRow
  <2>2. CASE row \in Row
    <3>1. row.status # "absent"
      BY <2>2 DEF Row
    <3>2. [row EXCEPT !.status = "resolved", !.stamped = TRUE] \in Row
      BY <2>2 DEF Row
    <3> QED
      BY <3>1, <3>2 DEF Resolved
  <2> QED
    BY <2>1, <2>2, <1>1
<1>2. ASSUME NEW a \in AlertId
      PROVE  Over(rows, e)[a] \in Row \cup {NoRow}
  BY <1>1 DEF Over
<1> QED
  BY <1>2 DEF Over

\* The row of a condition.
LEMMA TypeOfType ==
  ASSUME NEW cond \in Condition
  PROVE  /\ TypeOf(cond) \in Category \X (Level \cup {"any"})
         /\ Severity(cond.level) \in {"warning", "critical"}
BY DEF TypeOf, AlertType, Severity, Condition, Level, Firing

LEMMA NoRowsType == NoRows \in [AlertId -> Row \cup {NoRow}]
BY DEF NoRows

\* Resolving a row changes its status and its stamp, and only that.
LEMMA ResolvedRow ==
  ASSUME NEW row \in Row
  PROVE  Resolved(row) = [row EXCEPT !.status = "resolved", !.stamped = TRUE]
BY DEF Resolved, Row

LEMMA RowIsARow == NoRow \notin Row
BY DEF Row, NoRow

\* A row with another status and a stamp is a row.
LEMMA UpdatedRow ==
  ASSUME NEW row \in Row, NEW status \in {"active", "acknowledged", "resolved"},
         NEW stamp \in BOOLEAN
  PROVE  [row EXCEPT !.status = status, !.stamped = stamp] \in Row
BY DEF Row

-----------------------------------------------------------------------------
(* Type correctness.                                                        *)

\* An operator acts on an alert that is in the table: the one fact about the
\* requests that the types of the rows rest on.
RequestsExist ==
  \A o \in Operator : request[o] # NoRequest => alert[request[o].alert] \in Row

LEMMA TypeInit == Init => TypeOK
<1> SUFFICES ASSUME Init PROVE TypeOK
  OBVIOUS
<1>1. "clear" \in Level
  BY DEF Level
<1>2. 0 \in 0..MaxEvents
  BY BoundAssumption
<1> QED
  BY <1>1, <1>2, NoRowsType, SettingsAssumption DEF Init, TypeOK

LEMMA TypeStep == TypeOK /\ RequestsExist /\ [Next]_vars => TypeOK'
<1> SUFFICES ASSUME TypeOK, RequestsExist, [Next]_vars PROVE TypeOK'
  OBVIOUS
<1> USE DEF TypeOK
<1>s. Spend => events' \in 0..MaxEvents
  BY BoundAssumption DEF Spend
<1>1. ASSUME NEW sig \in Signal, Change(sig) PROVE TypeOK'
  <2>1. sig[2] \in Category
    BY SignalAssumption
  <2>2. LevelsOf(sig[2]) \subseteq Level
    BY <2>1, LevelsOfType
  <2> QED
    BY <1>1, <1>s, <2>2 DEF Change, table, local, buffers
<1>2. ASSUME NEW e \in Session, NEW u \in Unit, Begin(e, u) PROVE TypeOK'
  <2>1. Scopes(u, reading, seen'[e]) \subseteq Scope
    BY ScopesType
  <2>2. todo' \in [Session -> SUBSET Unit]
    BY <1>2 DEF Begin, Units
  <2>3. /\ left' \in [Session -> SUBSET Scope]
        /\ unit' \in [Session -> Unit \cup {Idle}]
        /\ open' \in [Session -> BOOLEAN]
        /\ seen' \in [Session -> [AlertId -> Row \cup {NoRow}]]
        /\ known' \in [Session -> SUBSET User]
        /\ sample' \in [Session -> [Signal -> Level]]
    BY <1>2, <2>1 DEF Begin
  <2>4. events' \in 0..MaxEvents
    BY <1>2, <1>s DEF Begin
  <2> QED
    BY <1>2, <2>2, <2>3, <2>4 DEF Begin, table, buffers
<1>3. ASSUME NEW e \in Session, NEW s \in Scope, Sweep(e, s) PROVE TypeOK'
  <2>1. Desired(e, s) \subseteq Condition
    BY DesiredType
  <2>2. Stale(e, s) \subseteq AlertId
    BY DEF Stale, ActiveIn
  <2>3. PICK r \in SUBSET AlertId : resolving' = [resolving EXCEPT ![e] = r]
    BY <1>3, <2>2 DEF Sweep
  <2> QED
    BY <1>3, <2>1, <2>3 DEF Sweep, table
<1>4. ASSUME NEW e \in Session, NEW cond \in plan[e], Keep(e, cond) PROVE TypeOK'
  BY <1>4 DEF Keep, table, buffers
<1>5. ASSUME NEW e \in Session, NEW cond \in plan[e], NEW a \in AlertId,
             Raise(e, cond, a)
      PROVE  TypeOK'
  <2>1. cond \in Condition /\ cond.scope \in Scope
    BY DEF Condition
  <2>2. [scope |-> cond.scope, type |-> TypeOf(cond),
         sev |-> Severity(cond.level),
         status |-> "active", stamped |-> FALSE] \in Row
    BY <2>1, TypeOfType DEF Row
  <2>3. adding' \in [Session -> [AlertId -> Row \cup {NoRow}]]
    BY <1>5, <2>2 DEF Raise
  <2>4. Existing(e, cond) \subseteq AlertId
    BY DEF Existing, ActiveIn
  <2>5. PICK r \in SUBSET AlertId : resolving' = [resolving EXCEPT ![e] = r]
    <3>1. resolving = [resolving EXCEPT ![e] = resolving[e]]
      OBVIOUS
    <3> QED
      BY <1>5, <2>4, <3>1 DEF Raise
  <2>6. ping' \in [Session -> SUBSET (AlertId \X User)]
    BY <1>5, <2>1, RecipientsAssumption DEF Raise
  <2>7. plan' \in [Session -> SUBSET Condition]
    BY <1>5 DEF Raise
  <2> QED
    BY <1>5, <2>3, <2>5, <2>6, <2>7 DEF Raise, table
<1>6. ASSUME NEW e \in Session, NEW p \in ping[e], Deliver(e, p) PROVE TypeOK'
  BY <1>6 DEF Deliver, table
<1>7. ASSUME NEW e \in Session, NEW p \in ping[e], DeliverFirst(e, p) PROVE TypeOK'
  <2>1. alert' \in [AlertId -> Row \cup {NoRow}]
    BY <1>7, OverType DEF DeliverFirst, Flushed
  <2>2. /\ notes' \in SUBSET (AlertId \X User)
        /\ adding' \in [Session -> [AlertId -> Row \cup {NoRow}]]
        /\ resolving' \in [Session -> SUBSET AlertId]
    BY <1>7, NoRowsType DEF DeliverFirst, Flushed
  <2>3. /\ settings' \in SUBSET User
        /\ noting' \in [Session -> SUBSET (AlertId \X User)]
        /\ ping' \in [Session -> SUBSET (AlertId \X User)]
        /\ seen' \in [Session -> [AlertId -> Row \cup {NoRow}]]
        /\ known' \in [Session -> SUBSET User]
    BY <1>7, <2>1 DEF DeliverFirst
  <2> QED
    BY <1>7, <2>1, <2>2, <2>3 DEF DeliverFirst
<1>8. ASSUME NEW e \in Session, Fail(e), events' \in 0..MaxEvents PROVE TypeOK'
  BY <1>8, NoRowsType DEF Fail, table
<1>9. ASSUME NEW e \in Session, Commit(e) PROVE TypeOK'
  <2>1. alert' \in [AlertId -> Row \cup {NoRow}]
    BY <1>9, OverType DEF Commit, Flushed
  <2>2. /\ notes' \in SUBSET (AlertId \X User)
        /\ adding' \in [Session -> [AlertId -> Row \cup {NoRow}]]
        /\ resolving' \in [Session -> SUBSET AlertId]
    BY <1>9, NoRowsType DEF Commit, Flushed
  <2>3. /\ noting' \in [Session -> SUBSET (AlertId \X User)]
        /\ unit' \in [Session -> Unit \cup {Idle}]
    BY <1>9 DEF Commit
  <2>4. open' \in [Session -> BOOLEAN]
    BY <1>9 DEF Commit
  <2> QED
    BY <1>9, <2>1, <2>2, <2>3, <2>4 DEF Commit
<1>10. ASSUME NEW u \in User, OpenSettings(u) PROVE TypeOK'
  BY <1>10 DEF OpenSettings, local, buffers
<1>11. ASSUME NEW o \in Operator, NEW a \in AlertId,
              NEW to \in {"acknowledged", "resolved"}, RequestUpdate(o, a, to)
       PROVE  TypeOK'
  BY <1>11, <1>s DEF RequestUpdate, table, local, buffers
<1>12. ASSUME NEW o \in Operator, WriteUpdate(o) PROVE TypeOK'
  <2> DEFINE a == request[o].alert
             to == request[o].to
  <2>1. a \in AlertId /\ to \in {"acknowledged", "resolved"}
    BY <1>12 DEF WriteUpdate
  <2>2. alert[a] \in Row
    BY <1>12 DEF WriteUpdate, RequestsExist
  <2>3. alert[a].stamped \/ (to = "resolved") \in BOOLEAN
    BY DEF Row
  <2>4. alert' = [alert EXCEPT ![a] = [alert[a] EXCEPT !.status = to,
                    !.stamped = alert[a].stamped \/ (to = "resolved")]]
    BY <1>12, <2>1 DEF WriteUpdate
  <2>5. alert' \in [AlertId -> Row \cup {NoRow}]
    BY <2>1, <2>2, <2>3, <2>4, UpdatedRow
  <2> QED
    BY <1>12, <2>5 DEF WriteUpdate, local, buffers
<1>13. CASE UNCHANGED vars
  BY <1>13 DEF vars, table, local, buffers
<1>14. ASSUME NEW e \in Session, Abort(e) PROVE TypeOK'
  BY <1>14, <1>8, <1>s DEF Abort
<1>15. ASSUME NEW e \in Session, NEW p \in ping[e], DeliverConflict(e, p)
       PROVE  TypeOK'
  <2>1. Fail(e) /\ events' \in 0..MaxEvents
    BY <1>15 DEF DeliverConflict
  <2> QED
    BY <2>1, <1>8
<1> HIDE DEF TypeOK
<1> QED
  BY <1>1, <1>2, <1>3, <1>4, <1>5, <1>6, <1>7, <1>9, <1>10, <1>11, <1>12,
     <1>13, <1>14, <1>15 DEF Next, Step

-----------------------------------------------------------------------------
(* The rows of the table.                                                   *)

\* A flushed row has an id of its own: no row of the table and no other
\* session's row has it, and it is active.
FreshIds ==
  \A e \in Session, a \in AlertId : adding[e][a] # NoRow =>
    /\ alert[a] = NoRow
    /\ \A f \in Session : adding[f][a] # NoRow => f = e
    /\ adding[e][a].status = "active"

\* The inductive invariant about rows: types, requests and fresh ids.
RowInv == TypeOK /\ RequestsExist /\ FreshIds

\* What a commit makes of a row that is in the table already.
LEMMA OverRow ==
  ASSUME RowInv, NEW e \in Session, NEW a \in AlertId, alert[a] # NoRow
  PROVE  Over(alert, e)[a] =
           IF a \in resolving[e]
           THEN [alert[a] EXCEPT !.status = "resolved", !.stamped = TRUE]
           ELSE alert[a]
<1>1. alert[a] \in Row
  BY DEF RowInv, TypeOK
<1>2. adding[e][a] = NoRow
  BY DEF RowInv, FreshIds
<1> QED
  BY <1>1, <1>2, ResolvedRow DEF Over

\* A commit adds no row but the session's own.
LEMMA OverNoRow ==
  ASSUME NEW e \in Session, NEW a \in AlertId, alert[a] = NoRow,
         adding[e][a] = NoRow
  PROVE  Over(alert, e)[a] = NoRow
BY DEF Over, Resolved, NoRow

\* The actions that write the table, and what is true of all the others.
LEMMA Writers ==
  ASSUME TypeOK, [Next]_vars
  PROVE  \/ UNCHANGED alert
         \/ \E e \in Session : Flushed(e)
         \/ \E o \in Operator : WriteUpdate(o)
BY DEF Next, Step, vars, Change, Begin, Sweep, Keep, Raise, Deliver, DeliverFirst,
       DeliverConflict, Commit, Abort, Fail, OpenSettings, RequestUpdate, table

\* A row of the table stays a row; all a step does to it is to give it another
\* status, never "active".
LEMMA RowStep ==
  ASSUME RowInv, [Next]_vars, NEW a \in AlertId, alert[a] # NoRow
  PROVE  /\ alert'[a] \in Row
         /\ \/ alert'[a] = alert[a]
            \/ \E status \in {"acknowledged", "resolved"}, stamp \in BOOLEAN :
                 /\ alert'[a] = [alert[a] EXCEPT !.status = status, !.stamped = stamp]
                 /\ status = "resolved" => stamp
<1>1. alert[a] \in Row
  BY DEF RowInv, TypeOK
<1>2. CASE UNCHANGED alert
  BY <1>1, <1>2
<1>3. ASSUME NEW e \in Session, Flushed(e)
      PROVE  alert'[a] =
               IF a \in resolving[e]
               THEN [alert[a] EXCEPT !.status = "resolved", !.stamped = TRUE]
               ELSE alert[a]
  BY <1>3, OverRow DEF Flushed
<1>4. ASSUME NEW o \in Operator, WriteUpdate(o)
      PROVE  \/ alert'[a] = alert[a]
             \/ \E status \in {"acknowledged", "resolved"}, stamp \in BOOLEAN :
                  /\ alert'[a] = [alert[a] EXCEPT !.status = status, !.stamped = stamp]
                  /\ status = "resolved" => stamp
  <2> DEFINE to == request[o].to
             stamp == alert[a].stamped \/ (to = "resolved")
  <2>1. request[o].alert \in AlertId /\ to \in {"acknowledged", "resolved"}
    BY <1>4 DEF WriteUpdate, RowInv, TypeOK
  <2>2. alert \in [AlertId -> Row \cup {NoRow}]
    BY DEF RowInv, TypeOK
  <2>3. stamp \in BOOLEAN /\ (to = "resolved" => stamp)
    BY <1>1 DEF Row
  <2>4. CASE request[o].alert # a
    BY <1>4, <2>1, <2>2, <2>4 DEF WriteUpdate
  <2>5. CASE request[o].alert = a
    <3>1. alert'[a] = [alert[a] EXCEPT !.status = to, !.stamped = stamp]
      BY <1>4, <2>1, <2>2, <2>5 DEF WriteUpdate
    <3> QED
      BY <2>1, <2>3, <3>1
  <2> QED
    BY <2>4, <2>5
<1>5. /\ alert[a] \in Row
      /\ \A status \in {"acknowledged", "resolved"}, stamp \in BOOLEAN :
           [alert[a] EXCEPT !.status = status, !.stamped = stamp] \in Row
  BY <1>1, UpdatedRow
<1> QED
  BY <1>2, <1>3, <1>4, <1>5, Writers DEF RowInv

\* A row that appears is one that some session had flushed.
LEMMA NewRow ==
  ASSUME RowInv, [Next]_vars, NEW a \in AlertId, alert[a] = NoRow,
         alert'[a] # NoRow
  PROVE  \E e \in Session : adding[e][a] # NoRow /\ Flushed(e)
<1>1. ASSUME NEW o \in Operator, WriteUpdate(o) PROVE alert'[a] = alert[a]
  <2>1. request[o].alert \in AlertId /\ request[o].alert # a
    BY <1>1, RowIsARow DEF WriteUpdate, RowInv, TypeOK, RequestsExist
  <2>2. alert \in [AlertId -> Row \cup {NoRow}]
    BY DEF RowInv, TypeOK
  <2> QED
    BY <1>1, <2>1, <2>2 DEF WriteUpdate
<1> QED
  BY <1>1, Writers, OverNoRow DEF Flushed, RowInv
LEMMA RowInit == Init => RowInv
<1> SUFFICES ASSUME Init PROVE RequestsExist /\ FreshIds
  BY TypeInit DEF RowInv
<1> QED
  BY DEF Init, RequestsExist, FreshIds, NoRows

\* Requests keep naming rows of the table, which are never deleted.
LEMMA RequestsStep == RowInv /\ [Next]_vars => RequestsExist'
<1> SUFFICES ASSUME RowInv, [Next]_vars, NEW o \in Operator,
                    request'[o] # NoRequest
             PROVE  alert'[request'[o].alert] \in Row
  BY DEF RequestsExist
<1> USE DEF RowInv
<1>1. CASE request'[o] = request[o]
  <2>1. request[o].alert \in AlertId /\ alert[request[o].alert] \in Row
    BY <1>1 DEF TypeOK, RequestsExist
  <2> QED
    BY <1>1, <2>1, RowStep, RowIsARow
<1>2. ASSUME NEW q \in Operator, NEW a \in AlertId,
             NEW to \in {"acknowledged", "resolved"}, RequestUpdate(q, a, to)
      PROVE  alert'[request'[o].alert] \in Row
  <2>1. CASE q = o
    <3>1. request'[o].alert = a
      BY <1>2, <2>1 DEF RequestUpdate, TypeOK
    <3>2. alert[a] \in Row
      BY <1>2 DEF RequestUpdate, Allowed, TypeOK, NoRow
    <3> QED
      BY <3>1, <3>2, RowStep, RowIsARow
  <2>2. CASE q # o
    BY <1>1, <1>2, <2>2 DEF RequestUpdate, TypeOK
  <2> QED
    BY <2>1, <2>2
<1>3. ASSUME NEW q \in Operator, WriteUpdate(q)
      PROVE  request'[o] = request[o]
  BY <1>3 DEF WriteUpdate, TypeOK
<1> QED
  BY <1>1, <1>2, <1>3 DEF Next, Step, vars, Change, Begin, Sweep, Keep, Raise,
       Deliver, DeliverFirst, DeliverConflict, Commit, Abort, Fail, OpenSettings,
       buffers

\* How a step may change what a session has flushed: nothing, nothing left of
\* it, or one more active row under an id that nobody has.
LEMMA AddingStep ==
  ASSUME TypeOK, [Next]_vars
  PROVE  \/ UNCHANGED adding
         \/ \E e \in Session :
              /\ adding' = [adding EXCEPT ![e] = NoRows]
              /\ Flushed(e) \/ UNCHANGED alert
         \/ \E e \in Session, a \in AlertId, row \in Row :
              /\ adding' = [adding EXCEPT ![e][a] = row]
              /\ row.status = "active"
              /\ Unused(a) /\ UNCHANGED alert
<1>1. ASSUME NEW e \in Session, NEW cond \in plan[e], NEW a \in AlertId,
             Raise(e, cond, a)
      PROVE  \E row \in Row :
              /\ adding' = [adding EXCEPT ![e][a] = row]
              /\ row.status = "active"
              /\ Unused(a) /\ UNCHANGED alert
  <2>1. cond \in Condition /\ cond.scope \in Scope
    BY DEF Condition, TypeOK
  <2> DEFINE row == [scope |-> cond.scope, type |-> TypeOf(cond),
                     sev |-> Severity(cond.level),
                     status |-> "active", stamped |-> FALSE]
  <2>2. row \in Row /\ row.status = "active"
    BY <2>1, TypeOfType DEF Row
  <2> QED
    BY <1>1, <2>2 DEF Raise, NextId, table
<1> QED
  BY <1>1 DEF Next, Step, vars, Change, Begin, Sweep, Keep, Deliver, DeliverFirst,
       DeliverConflict, Commit, Abort, Fail, Flushed, OpenSettings, RequestUpdate,
       WriteUpdate, buffers, table

LEMMA FreshIdsStep == RowInv /\ [Next]_vars => FreshIds'
<1> SUFFICES ASSUME RowInv, [Next]_vars PROVE FreshIds'
  OBVIOUS
<1> USE DEF RowInv
<1>t. adding \in [Session -> [AlertId -> Row \cup {NoRow}]]
  BY DEF TypeOK
<1>k. ASSUME NEW e \in Session, NEW a \in AlertId, adding[e][a] # NoRow,
             alert'[a] # NoRow
      PROVE  Flushed(e)
  BY <1>k, NewRow DEF FreshIds
<1>1. CASE UNCHANGED adding
  <2>1. ASSUME NEW e \in Session, NEW a \in AlertId, adding[e][a] # NoRow
        PROVE  alert'[a] = NoRow
    BY <1>1, <1>k, <1>t, <2>1 DEF Flushed, NoRows
  <2> QED
    BY <1>1, <2>1 DEF FreshIds
<1>2. ASSUME NEW f \in Session, adding' = [adding EXCEPT ![f] = NoRows],
             Flushed(f) \/ UNCHANGED alert
      PROVE  FreshIds'
  <2>1. ASSUME NEW e \in Session, NEW a \in AlertId, adding'[e][a] # NoRow
        PROVE  e # f /\ adding'[e] = adding[e]
    BY <1>2, <1>t, <2>1 DEF NoRows
  <2>2. ASSUME NEW e \in Session, NEW a \in AlertId, adding'[e][a] # NoRow
        PROVE  alert'[a] = NoRow
    BY <1>2, <2>1, <2>2, OverNoRow DEF FreshIds, Flushed
  <2> QED
    BY <2>1, <2>2 DEF FreshIds
<1>3. ASSUME NEW f \in Session, NEW b \in AlertId, NEW row \in Row,
             adding' = [adding EXCEPT ![f][b] = row], row.status = "active",
             Unused(b), UNCHANGED alert
      PROVE  FreshIds'
  <2>1. ASSUME NEW e \in Session, NEW a \in AlertId, a # b
        PROVE  adding'[e][a] = adding[e][a]
    BY <1>3, <1>t, <2>1
  <2>2. ASSUME NEW e \in Session, e # f
        PROVE  adding'[e][b] = NoRow
    BY <1>3, <1>t, <2>2 DEF Unused
  <2>3. adding'[f][b] = row /\ alert'[b] = NoRow
    BY <1>3, <1>t DEF Unused
  <2> QED
    BY <1>3, <2>1, <2>2, <2>3 DEF FreshIds
<1> QED
  BY <1>1, <1>2, <1>3, AddingStep

LEMMA RowInvariant == Spec => []RowInv
<1>1. RowInv /\ [Next]_vars => RowInv'
  BY TypeStep, RequestsStep, FreshIdsStep DEF RowInv
<1> QED
  BY RowInit, <1>1, PTL DEF Spec

\* Every variable keeps its type for ever; it takes RequestsExist to know that
\* an operator updates a row that is there.
THEOREM TypeCorrect == Spec => []TypeOK
BY RowInvariant, PTL DEF RowInv

\* Whatever sessions, operators and failures do in whatever order, an alert
\* that is not active any more never is again, and no row changes what it says.
THEOREM NoReactivation == Spec => NeverReactivated
<1>1. RowInv /\ [Next]_vars =>
        [\A a \in AlertId : alert[a] # NoRow =>
           /\ alert'[a].status = "active" => alert[a].status = "active"
           /\ alert'[a] = [alert[a] EXCEPT !.status = alert'[a].status,
                                           !.stamped = alert'[a].stamped]]_vars
  <2> SUFFICES ASSUME RowInv, [Next]_vars, NEW a \in AlertId, alert[a] # NoRow
               PROVE  /\ alert'[a].status = "active" => alert[a].status = "active"
                      /\ alert'[a] = [alert[a] EXCEPT !.status = alert'[a].status,
                                           !.stamped = alert'[a].stamped]
    OBVIOUS
  <2>1. alert[a] \in Row
    BY DEF RowInv, TypeOK
  <2> QED
    BY <2>1, RowStep DEF Row
<1> QED
  BY <1>1, RowInvariant, PTL DEF Spec, NeverReactivated
-----------------------------------------------------------------------------
(* Dashboard rows refer to alerts.                                          *)

\* What e is about to record refers to a row of the table or to one of its own.
PairsRefer ==
  /\ \A n \in notes : alert[n[1]] # NoRow
  /\ \A e \in Session : \A n \in ping[e] \cup noting[e] :
       alert[n[1]] # NoRow \/ adding[e][n[1]] # NoRow

\* A commit puts a session's own rows into the table.
LEMMA OwnRow ==
  ASSUME RowInv, NEW e \in Session, NEW a \in AlertId,
         alert[a] # NoRow \/ adding[e][a] # NoRow
  PROVE  Over(alert, e)[a] # NoRow
<1>1. CASE adding[e][a] # NoRow
  <2>1. adding[e][a] \in Row
    BY <1>1 DEF RowInv, TypeOK
  <2>2. Resolved(adding[e][a]) \in Row
    BY <2>1, ResolvedRow, UpdatedRow
  <2> QED
    BY <1>1, <2>1, <2>2, RowIsARow DEF Over
<1>2. CASE adding[e][a] = NoRow
  <2>1. alert[a] \in Row
    BY <1>2 DEF RowInv, TypeOK
  <2>2. [alert[a] EXCEPT !.status = "resolved", !.stamped = TRUE] \in Row
    BY <2>1, UpdatedRow
  <2> QED
    BY <1>2, <2>1, <2>2, OverRow, RowIsARow
<1> QED
  BY <1>1, <1>2

\* How a step may change the inboxes and what is on its way to them.
LEMMA PairsStep == RowInv /\ PairsRefer /\ [Next]_vars => PairsRefer'
<1> SUFFICES ASSUME RowInv, PairsRefer, [Next]_vars PROVE PairsRefer'
  OBVIOUS
<1> USE DEF RowInv
<1>k. ASSUME NEW a \in AlertId, alert[a] # NoRow PROVE alert'[a] # NoRow
  BY <1>k, RowStep, RowIsARow
<1>t. /\ notes \subseteq AlertId \X User
      /\ ping \in [Session -> SUBSET (AlertId \X User)]
      /\ noting \in [Session -> SUBSET (AlertId \X User)]
      /\ adding \in [Session -> [AlertId -> Row \cup {NoRow}]]
  BY DEF TypeOK
<1>1. ASSUME UNCHANGED <<notes, ping, noting, adding>> PROVE PairsRefer'
  BY <1>1, <1>k, <1>t DEF PairsRefer
<1>2. ASSUME NEW e \in Session, NEW cond \in plan[e], NEW a \in AlertId,
             Raise(e, cond, a)
      PROVE  PairsRefer'
  <2>1. notes' = notes /\ noting' = noting
    BY <1>2 DEF Raise, table
  <2>2. /\ cond \in Condition /\ cond.scope \in Scope
        /\ [scope |-> cond.scope, type |-> TypeOf(cond),
            sev |-> Severity(cond.level),
            status |-> "active", stamped |-> FALSE] \in Row
    BY TypeOfType DEF Condition, TypeOK, Row
  <2>3. adding'[e][a] # NoRow
    BY <1>2, <1>t, <2>2, RowIsARow DEF Raise
  <2>4. ASSUME NEW f \in Session, NEW b \in AlertId, adding[f][b] # NoRow
        PROVE  adding'[f][b] # NoRow
    BY <1>2, <1>t, <2>3, <2>4 DEF Raise
  <2>5. ASSUME NEW f \in Session, NEW n \in ping'[f], n \notin ping[f]
        PROVE  f = e /\ n[1] = a
    BY <1>2, <1>t, <2>5 DEF Raise
  <2>6. ASSUME NEW f \in Session, NEW n \in ping'[f] \cup noting'[f]
        PROVE  alert'[n[1]] # NoRow \/ adding'[f][n[1]] # NoRow
    <3>1. CASE n \in ping[f] \cup noting[f]
      <4>1. n[1] \in AlertId
        BY <1>t, <3>1
      <4>2. alert[n[1]] # NoRow \/ adding[f][n[1]] # NoRow
        BY <3>1 DEF PairsRefer
      <4> QED
        BY <1>k, <2>4, <4>1, <4>2
    <3>2. CASE n \notin ping[f] \cup noting[f]
      BY <2>1, <2>3, <2>5, <2>6, <3>2
    <3> QED
      BY <3>1, <3>2
  <2>7. ASSUME NEW n \in notes' PROVE alert'[n[1]] # NoRow
    BY <1>k, <1>t, <2>1, <2>7 DEF PairsRefer
  <2> QED
    BY <2>6, <2>7 DEF PairsRefer
<1>3. ASSUME NEW e \in Session, NEW p \in ping[e], Deliver(e, p)
      PROVE  PairsRefer'
  <2>1. UNCHANGED <<notes, adding, alert>>
    BY <1>3 DEF Deliver, table
  <2>2. ASSUME NEW f \in Session
        PROVE  ping'[f] \cup noting'[f] \subseteq ping[f] \cup noting[f]
    BY <1>3, <1>t DEF Deliver
  <2> QED
    BY <2>1, <2>2, <1>t DEF PairsRefer
<1>4. ASSUME NEW e \in Session, Flushed(e),
             \A f \in Session \ {e} : ping'[f] = ping[f] /\ noting'[f] = noting[f],
             ping'[e] \cup noting'[e] \subseteq ping[e]
      PROVE  PairsRefer'
  <2>1. ASSUME NEW n \in ping[e] \cup noting[e] PROVE alert'[n[1]] # NoRow
    BY <1>4, <1>t, OwnRow DEF PairsRefer, Flushed
  <2>2. ASSUME NEW n \in notes' PROVE alert'[n[1]] # NoRow
    BY <1>4, <1>k, <1>t, <2>1 DEF PairsRefer, Flushed
  <2>3. ASSUME NEW f \in Session, NEW n \in ping'[f] \cup noting'[f]
        PROVE  alert'[n[1]] # NoRow \/ adding'[f][n[1]] # NoRow
    <3>1. CASE f = e
      BY <1>4, <2>1, <2>3, <3>1
    <3>2. CASE f # e
      <4>1. n \in ping[f] \cup noting[f] /\ adding'[f] = adding[f]
        BY <1>4, <1>t, <2>3, <3>2 DEF Flushed
      <4> QED
        BY <1>k, <1>t, <4>1 DEF PairsRefer
    <3> QED
      BY <3>1, <3>2
  <2> QED
    BY <2>2, <2>3 DEF PairsRefer
<1>5. ASSUME NEW e \in Session, NEW p \in ping[e], DeliverFirst(e, p)
      PROVE  PairsRefer'
  BY <1>4, <1>5, <1>t DEF DeliverFirst
<1>6. ASSUME NEW e \in Session, Commit(e) PROVE PairsRefer'
  BY <1>4, <1>6, <1>t DEF Commit
<1>7. ASSUME NEW e \in Session, Fail(e) PROVE PairsRefer'
  <2>1. /\ notes' = notes /\ alert' = alert
        /\ ping' = [ping EXCEPT ![e] = {}]
        /\ noting' = [noting EXCEPT ![e] = {}]
        /\ adding' = [adding EXCEPT ![e] = NoRows]
    BY <1>7 DEF Fail, table
  <2> QED
    BY <1>t, <2>1 DEF PairsRefer
<1> QED
  BY <1>1, <1>2, <1>3, <1>5, <1>6, <1>7 DEF Next, Step, vars, Change, Begin, Sweep,
       Keep, DeliverConflict, Abort, OpenSettings, RequestUpdate, WriteUpdate,
       buffers, table, local

\* No dashboard row refers to an alert that is not in the table: a failed run
\* takes with it what it meant to announce, and the commit inside get_or_create
\* writes every alert whose announcements it writes.
THEOREM NoOrphans == Spec => []NoOrphanNotification
<1>1. Init => PairsRefer
  BY DEF Init, PairsRefer
<1>2. RowInv /\ PairsRefer /\ [Next]_vars => PairsRefer'
  BY PairsStep
<1>3. PairsRefer => NoOrphanNotification
  BY DEF PairsRefer, NoOrphanNotification
<1> QED
  BY <1>1, <1>2, <1>3, RowInvariant, PTL DEF Spec

-----------------------------------------------------------------------------
(* Resolved alerts are stamped.                                             *)

\* Whoever writes "resolved" writes resolved_at with it, and nobody takes it
\* away: an acknowledgement that overwrites a resolution keeps the stamp.
THEOREM ResolvedStamped == Spec => []ResolvedIsStamped
<1>1. Init => ResolvedIsStamped
  BY DEF Init, ResolvedIsStamped, NoRows, NoRow
<1>2. RowInv /\ ResolvedIsStamped /\ [Next]_vars => ResolvedIsStamped'
  <2> SUFFICES ASSUME RowInv, ResolvedIsStamped, [Next]_vars, NEW a \in AlertId,
                      alert'[a].status = "resolved"
               PROVE  alert'[a].stamped
    BY DEF ResolvedIsStamped
  <2>1. CASE alert[a] # NoRow
    <3>1. alert[a] \in Row
      BY <2>1 DEF RowInv, TypeOK
    <3> QED
      BY <2>1, <3>1, RowStep DEF ResolvedIsStamped, Row
  <2>2. CASE alert[a] = NoRow
    <3>1. alert'[a] # NoRow
      BY DEF NoRow
    <3>2. PICK e \in Session : adding[e][a] # NoRow /\ Flushed(e)
      BY <2>2, <3>1, NewRow
    <3>3. adding[e][a] \in Row /\ adding[e][a].status = "active"
      BY <3>2 DEF RowInv, TypeOK, FreshIds
    <3>4. alert'[a] = IF a \in resolving[e] THEN Resolved(adding[e][a])
                      ELSE adding[e][a]
      BY <3>2 DEF Flushed, Over
    <3> QED
      BY <3>3, <3>4, ResolvedRow DEF Row
  <2> QED
    BY <2>1, <2>2
<1> QED
  BY <1>1, <1>2, RowInvariant, PTL DEF Spec
-----------------------------------------------------------------------------
(* Inboxes are complete.                                                    *)

\* Between units, and without a transaction, a session has nothing under way.
Quiet ==
  \A e \in Session :
    /\ unit[e] \in Units(e) \cup {Idle}
    /\ todo[e] \subseteq Units(e)
    /\ unit[e] = Idle \/ ~open[e] =>
         /\ left[e] = {} /\ plan[e] = {} /\ ping[e] = {}
         /\ adding[e] = NoRows /\ resolving[e] = {}

LEMMA QuietInit == Init => Quiet
BY DEF Init, Quiet

LEMMA QuietStep == TypeOK /\ Quiet /\ [Next]_vars => Quiet'
<1> SUFFICES ASSUME TypeOK, Quiet, [Next]_vars PROVE Quiet'
  OBVIOUS
<1> DEFINE QuietAt(e) ==
      /\ unit[e] \in Units(e) \cup {Idle}
      /\ todo[e] \subseteq Units(e)
      /\ unit[e] = Idle \/ ~open[e] =>
           /\ left[e] = {} /\ plan[e] = {} /\ ping[e] = {}
           /\ adding[e] = NoRows /\ resolving[e] = {}
<1>i. ASSUME NEW e \in Session, NEW u \in Units(e) PROVE u # Idle
  BY DEF Units, Unit, Idle
<1>t. /\ DOMAIN todo = Session /\ DOMAIN unit = Session /\ DOMAIN open = Session
      /\ DOMAIN left = Session /\ DOMAIN plan = Session /\ DOMAIN ping = Session
      /\ DOMAIN adding = Session /\ DOMAIN resolving = Session
      /\ todo = [e \in Session |-> todo[e]] /\ unit = [e \in Session |-> unit[e]]
      /\ open = [e \in Session |-> open[e]] /\ left = [e \in Session |-> left[e]]
      /\ plan = [e \in Session |-> plan[e]] /\ ping = [e \in Session |-> ping[e]]
      /\ adding = [e \in Session |-> adding[e]]
      /\ resolving = [e \in Session |-> resolving[e]]
  BY DEF TypeOK
<1>q. ASSUME NEW e \in Session PROVE QuietAt(e)
  BY DEF Quiet
<1>1. ASSUME UNCHANGED <<todo, unit, open, left, plan, ping, adding, resolving>>
      PROVE  Quiet'
  BY <1>1 DEF Quiet, Units
<1>2. ASSUME NEW e \in Session,
             \A f \in Session \ {e} :
               /\ todo'[f] = todo[f] /\ unit'[f] = unit[f] /\ open'[f] = open[f]
               /\ left'[f] = left[f] /\ plan'[f] = plan[f] /\ ping'[f] = ping[f]
               /\ adding'[f] = adding[f] /\ resolving'[f] = resolving[f],
             QuietAt(e)'
      PROVE  Quiet'
  BY <1>2, <1>q DEF Quiet, Units
<1>3. ASSUME NEW e \in Session, NEW u \in Unit, Begin(e, u) PROVE Quiet'
  <2>1. u \in Units(e) /\ todo'[e] \subseteq Units(e)
    BY <1>3, <1>q, <1>t DEF Begin, FirstOf
  <2>2. /\ unit[e] = Idle /\ unit'[e] = u /\ open'[e] = (open[e] \/ Queries(u, reading))
        /\ plan'[e] = plan[e] /\ ping'[e] = ping[e]
        /\ adding'[e] = adding[e] /\ resolving'[e] = resolving[e]
    BY <1>3, <1>t DEF Begin, buffers
  <2>3. ~open'[e] => left'[e] = {}
    <3>1. left'[e] = Scopes(u, reading, seen'[e])
      BY <1>3, <1>t DEF Begin
    <3>2. u[1] \in ClusterCategory =>
            Scopes(u, reading, seen'[e]) = Scopes(u, reading, NoRows)
      BY DEF Scopes, ClusterCategory
    <3> QED
      BY <2>2, <3>1, <3>2 DEF Queries
  <2>4. QuietAt(e)'
    BY <1>i, <1>q, <2>1, <2>2, <2>3 DEF Units
  <2> QED
    BY <1>2, <1>3, <1>t, <2>4 DEF Begin, buffers
<1>4. ASSUME NEW e \in Session, unit[e] # Idle, open[e], UNCHANGED <<todo, unit, open>>,
             \A f \in Session \ {e} :
               /\ left'[f] = left[f] /\ plan'[f] = plan[f] /\ ping'[f] = ping[f]
               /\ adding'[f] = adding[f] /\ resolving'[f] = resolving[f]
      PROVE  Quiet'
  <2>1. QuietAt(e)'
    BY <1>4, <1>q DEF Units
  <2> QED
    BY <1>2, <1>4, <2>1
<1>5. ASSUME NEW e \in Session, NEW s \in Scope, Sweep(e, s) PROVE Quiet'
  <2>1. unit[e] # Idle /\ open[e]
    BY <1>5, <1>q DEF Sweep
  <2> QED
    BY <1>4, <1>5, <1>t, <2>1 DEF Sweep
<1>6. ASSUME NEW e \in Session, NEW cond \in plan[e], Keep(e, cond) PROVE Quiet'
  <2>1. unit[e] # Idle /\ open[e]
    BY <1>6, <1>q
  <2> QED
    BY <1>4, <1>6, <1>t, <2>1 DEF Keep, buffers
<1>7. ASSUME NEW e \in Session, NEW cond \in plan[e], NEW a \in AlertId,
             Raise(e, cond, a)
      PROVE  Quiet'
  <2>1. unit[e] # Idle /\ open[e]
    BY <1>7, <1>q
  <2> QED
    BY <1>4, <1>7, <1>t, <2>1 DEF Raise
<1>8. ASSUME NEW e \in Session, NEW p \in ping[e], Deliver(e, p) PROVE Quiet'
  <2>1. unit[e] # Idle /\ open[e]
    BY <1>8, <1>q
  <2> QED
    BY <1>4, <1>8, <1>t, <2>1 DEF Deliver
<1>9. ASSUME NEW e \in Session, NEW p \in ping[e], DeliverFirst(e, p) PROVE Quiet'
  <2>1. unit[e] # Idle /\ open[e]
    BY <1>9, <1>q
  <2> QED
    BY <1>4, <1>9, <1>t, <2>1 DEF DeliverFirst, Flushed
<1>10. ASSUME NEW e \in Session, Commit(e) PROVE Quiet'
  <2>1. QuietAt(e)'
    BY <1>10, <1>q, <1>t DEF Commit, Flushed, Units
  <2> QED
    BY <1>2, <1>10, <1>t, <2>1 DEF Commit, Flushed
<1>11. ASSUME NEW e \in Session, Fail(e) PROVE Quiet'
  <2>1. QuietAt(e)'
    BY <1>11, <1>q, <1>t DEF Fail, Units
  <2> QED
    BY <1>2, <1>11, <1>t, <2>1 DEF Fail
<1> HIDE DEF QuietAt
<1> QED
  BY <1>1, <1>3, <1>5, <1>6, <1>7, <1>8, <1>9, <1>10, <1>11 DEF Next, Step, vars,
     Change, DeliverConflict, Abort, OpenSettings, RequestUpdate, WriteUpdate,
     buffers, local

\* A flushed alert is announced, or about to be, to each of its recipients.
Announced ==
  \A e \in Session, a \in AlertId : adding[e][a] # NoRow =>
    \A u \in Recipients[adding[e][a].scope] : u \in Owed(e, a)

InboxInv == Announced /\ InboxComplete

\* A step that does not empty a session's buffers leaves what is flushed announced.
LEMMA AnnouncedStep ==
  ASSUME TypeOK, Announced, [Next]_vars
  PROVE  Announced'
<1>t. /\ adding \in [Session -> [AlertId -> Row \cup {NoRow}]]
      /\ ping \in [Session -> SUBSET (AlertId \X User)]
      /\ noting \in [Session -> SUBSET (AlertId \X User)]
  BY DEF TypeOK
<1>1. ASSUME UNCHANGED adding,
             \A f \in Session : ping[f] \cup noting[f] = ping'[f] \cup noting'[f]
      PROVE  Announced'
  BY <1>1 DEF Announced, Owed
<1>2. ASSUME NEW e \in Session, adding' = [adding EXCEPT ![e] = NoRows],
             \A f \in Session \ {e} : ping'[f] = ping[f] /\ noting'[f] = noting[f]
      PROVE  Announced'
  <2>1. ASSUME NEW f \in Session, NEW a \in AlertId, adding'[f][a] # NoRow
        PROVE  f # e /\ adding'[f] = adding[f]
    BY <1>2, <1>t, <2>1 DEF NoRows
  <2> QED
    BY <1>2, <2>1 DEF Announced, Owed
<1>3. ASSUME NEW e \in Session, NEW cond \in plan[e], NEW n \in AlertId,
             Raise(e, cond, n)
      PROVE  Announced'
  <2>1. /\ ping[e] = {} /\ noting' = noting
        /\ ping' = [ping EXCEPT ![e] = {n} \X Recipients[cond.scope]]
    BY <1>3 DEF Raise
  <2>2. adding'[e][n].scope = cond.scope
    BY <1>3, <1>t DEF Raise
  <2>3. ASSUME NEW f \in Session, NEW a \in AlertId, f # e \/ a # n
        PROVE  adding'[f][a] = adding[f][a]
    BY <1>3, <1>t, <2>3 DEF Raise
  <2>4. ASSUME NEW f \in Session, NEW a \in AlertId PROVE Owed(f, a) \subseteq Owed(f, a)'
    BY <1>t, <2>1 DEF Owed
  <2>5. Recipients[cond.scope] \subseteq User
    BY RecipientsAssumption DEF TypeOK, Condition
  <2>6. ASSUME NEW u \in Recipients[cond.scope] PROVE u \in Owed(e, n)'
    BY <1>t, <2>1, <2>5 DEF Owed
  <2>7. ASSUME NEW f \in Session, NEW a \in AlertId, adding'[f][a] # NoRow,
               NEW u \in Recipients[adding'[f][a].scope]
        PROVE  u \in Owed(f, a)'
    <3>1. CASE f = e /\ a = n
      BY <2>2, <2>6, <2>7, <3>1
    <3>2. CASE f # e \/ a # n
      BY <2>3, <2>4, <2>7, <3>2 DEF Announced
    <3> QED
      BY <3>1, <3>2
  <2> QED
    BY <2>7 DEF Announced
<1>4. ASSUME NEW e \in Session, NEW p \in ping[e], Deliver(e, p) PROVE Announced'
  <2>1. \A f \in Session : ping[f] \cup noting[f] = ping'[f] \cup noting'[f]
    BY <1>4, <1>t DEF Deliver
  <2> QED
    BY <1>1, <1>4, <2>1 DEF Deliver
<1>5. ASSUME NEW e \in Session, Commit(e) PROVE Announced'
  BY <1>2, <1>5, <1>t DEF Commit, Flushed
<1>6. ASSUME NEW e \in Session, Fail(e) PROVE Announced'
  BY <1>2, <1>6, <1>t DEF Fail
<1>7. ASSUME UNCHANGED <<adding, ping, noting>> PROVE Announced'
  BY <1>1, <1>7
<1>8. ASSUME NEW e \in Session, NEW p \in ping[e], DeliverFirst(e, p) PROVE Announced'
  BY <1>2, <1>8, <1>t DEF DeliverFirst, Flushed
<1> QED
  BY <1>3, <1>4, <1>5, <1>6, <1>7, <1>8 DEF Next, Step, vars, Change, Begin, Sweep,
     Keep, DeliverConflict, Abort, OpenSettings, RequestUpdate, WriteUpdate, buffers,
     local

\* No inbox loses a row.
LEMMA NotesStay ==
  ASSUME [Next]_vars
  PROVE  notes \subseteq notes' /\ cut \subseteq cut'
<1>1. ASSUME NEW e \in Session, Fail(e) PROVE notes' = notes /\ cut \subseteq cut'
  BY <1>1 DEF Fail, table
<1>2. ASSUME NEW e \in Session, NEW p \in ping[e], DeliverFirst(e, p)
      PROVE  notes \subseteq notes' /\ cut' = cut
  BY <1>2 DEF DeliverFirst, Flushed
<1>3. ASSUME NEW e \in Session, Commit(e) PROVE notes \subseteq notes' /\ cut' = cut
  BY <1>3 DEF Commit, Flushed
<1>4. ASSUME NEW o \in Operator, WriteUpdate(o) PROVE notes' = notes /\ cut' = cut
  BY <1>4 DEF WriteUpdate
<1> QED
  BY <1>1, <1>2, <1>3, <1>4 DEF Next, Step, vars, Change, Begin, Sweep, Keep, Raise,
     Deliver, DeliverConflict, Abort, OpenSettings, RequestUpdate, table

\* What a session owes it goes on owing, unless it has written it or has failed.
LEMMA OwedStep ==
  ASSUME TypeOK, [Next]_vars, NEW e \in Session, NEW a \in AlertId, NEW u \in Owed(e, a)
  PROVE  u \in Owed(e, a)' \/ <<a, u>> \in notes' \/ Fail(e)
<1>t. /\ ping \in [Session -> SUBSET (AlertId \X User)]
      /\ noting \in [Session -> SUBSET (AlertId \X User)]
  BY DEF TypeOK
<1>o. u \in User /\ <<a, u>> \in ping[e] \cup noting[e]
  BY DEF Owed
<1>1. ASSUME UNCHANGED <<ping, noting>> PROVE u \in Owed(e, a)'
  BY <1>o, <1>1 DEF Owed
<1>2. ASSUME NEW f \in Session, NEW cond \in plan[f], NEW n \in AlertId,
             Raise(f, cond, n)
      PROVE  u \in Owed(e, a)'
  BY <1>t, <1>o, <1>2 DEF Raise, Owed
<1>3. ASSUME NEW f \in Session, NEW p \in ping[f], Deliver(f, p) PROVE u \in Owed(e, a)'
  BY <1>t, <1>o, <1>3 DEF Deliver, Owed
<1>4. ASSUME NEW f \in Session, NEW p \in ping[f], DeliverFirst(f, p)
      PROVE  u \in Owed(e, a)' \/ <<a, u>> \in notes'
  BY <1>t, <1>o, <1>4 DEF DeliverFirst, Flushed, Owed
<1>5. ASSUME NEW f \in Session, Commit(f)
      PROVE  u \in Owed(e, a)' \/ <<a, u>> \in notes'
  BY <1>t, <1>o, <1>5 DEF Commit, Flushed, Owed
<1>6. ASSUME NEW f \in Session, Fail(f) PROVE u \in Owed(e, a)' \/ Fail(e)
  <2>1. CASE f = e
    BY <1>6, <2>1
  <2>2. CASE f # e
    BY <1>t, <1>o, <1>6, <2>2 DEF Fail, Owed
  <2> QED
    BY <2>1, <2>2
<1> QED
  BY <1>1, <1>2, <1>3, <1>4, <1>5, <1>6 DEF Next, Step, vars, Change, Begin, Sweep,
     Keep, DeliverConflict, Abort, OpenSettings, RequestUpdate, WriteUpdate, buffers,
     local

LEMMA InboxStep ==
  ASSUME RowInv, Announced, InboxComplete, [Next]_vars
  PROVE  InboxComplete'
<1> SUFFICES ASSUME NEW a \in AlertId, alert'[a] # NoRow, a \notin cut',
                    NEW u \in Recipients[alert'[a].scope]
             PROVE  <<a, u>> \in notes' \/ \E e \in Session : u \in Owed(e, a)'
  BY DEF InboxComplete
<1>t. TypeOK
  BY DEF RowInv
<1>1. notes \subseteq notes' /\ a \notin cut
  BY NotesStay
<1>2. ASSUME NEW e \in Session, u \in Owed(e, a), alert[a] # NoRow PROVE ~Fail(e)
  BY <1>2 DEF Fail
<1>3. CASE alert[a] # NoRow
  <2>1. alert[a] \in Row
    BY <1>3 DEF RowInv, TypeOK
  <2>2. alert'[a].scope = alert[a].scope
    <3>1. \/ alert'[a] = alert[a]
          \/ \E status \in {"acknowledged", "resolved"}, stamp \in BOOLEAN :
               alert'[a] = [alert[a] EXCEPT !.status = status, !.stamped = stamp]
      BY <1>3, RowStep
    <3> QED
      BY <2>1, <3>1 DEF Row
  <2>3. <<a, u>> \in notes \/ \E e \in Session : u \in Owed(e, a)
    BY <1>1, <1>3, <2>2 DEF InboxComplete
  <2>4. ASSUME NEW e \in Session, u \in Owed(e, a)
        PROVE  u \in Owed(e, a)' \/ <<a, u>> \in notes'
    BY <1>t, <1>2, <1>3, <2>4, OwedStep
  <2> QED
    BY <1>1, <2>3, <2>4
<1>4. CASE alert[a] = NoRow
  <2>1. PICK e \in Session : adding[e][a] # NoRow /\ Flushed(e)
    BY <1>4, NewRow
  <2>2. adding[e][a] \in Row
    BY <2>1 DEF RowInv, TypeOK
  <2>3. alert'[a].scope = adding[e][a].scope
    <3>1. alert'[a] = IF a \in resolving[e] THEN Resolved(adding[e][a])
                      ELSE adding[e][a]
      BY <2>1 DEF Flushed, Over
    <3>2. Resolved(adding[e][a]).scope = adding[e][a].scope
      BY <2>2, ResolvedRow DEF Row
    <3> QED
      BY <3>1, <3>2
  <2>4. u \in Owed(e, a)
    BY <2>1, <2>3 DEF Announced
  <2>5. ~Fail(e)
    BY <1>4 DEF Fail, table
  <2> QED
    BY <1>t, <2>4, <2>5, OwedStep
<1> QED
  BY <1>3, <1>4

\* Whoever has a settings row from the start, and wherever runs commit in the
\* middle of a dispatch, conflict or fail: an alert of the table has, or its
\* session is still to write, the dashboard rows of all its recipients, unless
\* its run failed after get_or_create had committed it.
THEOREM InboxesComplete == Spec => []InboxComplete
<1>1. Init => InboxInv
  BY DEF Init, InboxInv, Announced, InboxComplete, NoRows
<1>2. RowInv /\ InboxInv /\ [Next]_vars => InboxInv'
  BY AnnouncedStep, InboxStep DEF InboxInv, RowInv
<1>3. InboxInv => InboxComplete
  BY DEF InboxInv
<1> QED
  BY <1>1, <1>2, <1>3, RowInvariant, PTL DEF Spec

-----------------------------------------------------------------------------
(* The inductive invariant.                                                 *)

\* Each service is run by one session: the scheduler's max_instances=1, and
\* nobody calls the on-demand evaluation.
OneSessionEach ==
  /\ \A e, f \in Evaluator : e = f
  /\ \A e, f \in Optimizer : e = f

\* The categories whose alerts the session raises.
Owns(e, c) == (c = "resource_optimization") <=> (e \in Optimizer)

\* A session adds rows of its own categories.
OwnRows ==
  \A e \in Session, a \in AlertId :
    adding[e][a] # NoRow => Owns(e, adding[e][a].type[1])

\* A snapshot holds every active row of the categories of its session.
Covered ==
  \A e \in Session, a \in AlertId :
    open[e] /\ alert[a].status = "active" /\ Owns(e, alert[a].type[1])
      => seen[e][a] = alert[a]

\* Two rows are active and of the same scope and category.
Clash(r, q) ==
  /\ r.status = "active" /\ q.status = "active"
  /\ r.scope = q.scope
  /\ r.type[1] = q.type[1]

\* What a session sees of its own categories has no duplicates.
ViewUnique ==
  \A e \in Session : open[e] =>
    \A a, b \in AlertId :
      Clash(View(e)[a], View(e)[b]) /\ Owns(e, View(e)[a].type[1]) => a = b

\* The conditions a session still has to handle are of its own categories, one
\* for each scope and category, and the active rows it sees of a condition's
\* category are of the condition's type: the other tiers have been resolved.
PlanFits ==
  \A e \in Session : \A cond \in plan[e] :
    /\ Owns(e, cond.cat)
    /\ \A other \in plan[e] :
         other.scope = cond.scope /\ other.cat = cond.cat => other = cond
    /\ \A a \in AlertId :
         /\ View(e)[a].status = "active"
         /\ View(e)[a].scope = cond.scope
         /\ View(e)[a].type[1] = cond.cat
         => View(e)[a].type = TypeOf(cond)

UniqueInv ==
  /\ Quiet
  /\ OwnRows
  /\ Covered
  /\ ViewUnique
  /\ PlanFits
  /\ OneAlertPerCategory

-----------------------------------------------------------------------------
(* Facts about sessions, categories and views.                              *)

\* Two sessions own no category in common, and every category has an owner's
\* side: what is not the one session's is not raised by it.
LEMMA OwnersDiffer ==
  ASSUME OneSessionEach, NEW e \in Session, NEW f \in Session, NEW c,
         Owns(e, c), Owns(f, c)
  PROVE  e = f
BY DEF OneSessionEach, Session, Owns

\* The units of a session raise the session's categories only, and what a unit
\* raises it also clears.
LEMMA UnitsRaise ==
  ASSUME NEW e \in Session, NEW u \in Units(e), NEW c \in Raises(u[1])
  PROVE  Owns(e, c) /\ c \in Clears(u[1])
<1>1. u[1] \in {"deployment", "optimization", "project", "security", "platform",
                "node_failure", "container_failure"}
  BY DEF Units, Unit
<1>2. (u[1] = "optimization") = (e \in Optimizer)
  BY DEF Units
<1>3. c \in Category /\ (c = "resource_optimization" <=> u[1] = "optimization")
  BY <1>1 DEF Raises, DeploymentCategory, Category, ClusterCategory, Tiered
<1> QED
  BY <1>1, <1>2, <1>3 DEF Owns, Clears

\* An active row seen through a session's writes is one that the session has
\* not resolved, its own or the table's.
LEMMA ActiveOver ==
  ASSUME TypeOK, NEW e \in Session, NEW rows \in [AlertId -> Row \cup {NoRow}],
         NEW a \in AlertId, Over(rows, e)[a].status = "active"
  PROVE  /\ a \notin resolving[e]
         /\ Over(rows, e)[a] = IF adding[e][a] # NoRow THEN adding[e][a] ELSE rows[a]
<1> DEFINE row == IF adding[e][a] # NoRow THEN adding[e][a] ELSE rows[a]
<1>1. row \in Row \cup {NoRow}
  BY DEF TypeOK
<1>2. Resolved(row).status # "active"
  BY <1>1, ResolvedRow DEF Resolved, NoRow, Row
<1>3. Over(rows, e)[a] = IF a \in resolving[e] THEN Resolved(row) ELSE row
  BY DEF Over
<1> QED
  BY <1>2, <1>3

\* An active row is a row.
LEMMA ActiveIsRow ==
  ASSUME NEW row \in Row \cup {NoRow}, row.status = "active"
  PROVE  row \in Row
BY DEF NoRow

\* What a session would commit of its own categories is what it sees.
LEMMA CommitView ==
  ASSUME TypeOK, Covered, NEW e \in Session, open[e], NEW a \in AlertId,
         Over(alert, e)[a].status = "active", Owns(e, Over(alert, e)[a].type[1])
  PROVE  View(e)[a] = Over(alert, e)[a]
<1>1. alert \in [AlertId -> Row \cup {NoRow}]
  BY DEF TypeOK
<1>2. /\ a \notin resolving[e]
      /\ Over(alert, e)[a] = IF adding[e][a] # NoRow THEN adding[e][a] ELSE alert[a]
  BY <1>1, ActiveOver
<1>3. adding[e][a] = NoRow => seen[e][a] = alert[a]
  BY <1>2 DEF Covered
<1> QED
  BY <1>2, <1>3 DEF View, Over

\* Only the owner of a category puts active rows of it into the table.
LEMMA NewActive ==
  ASSUME RowInv, OwnRows, [Next]_vars, NEW a \in AlertId,
         alert'[a].status = "active", alert'[a] # alert[a]
  PROVE  \E e \in Session : /\ Flushed(e)
                            /\ adding[e][a] # NoRow
                            /\ alert'[a] = adding[e][a]
                            /\ Owns(e, alert'[a].type[1])
<1>1. alert[a] = NoRow
  <2>1. SUFFICES ASSUME alert[a] # NoRow PROVE FALSE
    OBVIOUS
  <2>2. alert[a] \in Row
    BY <2>1 DEF RowInv, TypeOK
  <2> QED
    BY <2>1, <2>2, RowStep DEF Row
<1>2. alert'[a] # NoRow
  BY DEF NoRow
<1>3. PICK e \in Session : adding[e][a] # NoRow /\ Flushed(e)
  BY <1>1, <1>2, NewRow
<1>4. Over(alert, e)[a].status = "active" /\ alert'[a] = Over(alert, e)[a]
  BY <1>3 DEF Flushed, Over
<1>5. alert'[a] = adding[e][a]
  <2>1. TypeOK /\ alert \in [AlertId -> Row \cup {NoRow}]
    BY DEF RowInv, TypeOK
  <2> QED
    BY <1>3, <1>4, <2>1, ActiveOver
<1> QED
  BY <1>3, <1>5 DEF OwnRows
-----------------------------------------------------------------------------
(* Each part of the invariant is kept by every step.                        *)

LEMMA UniqueInit == Init => UniqueInv
BY DEF Init, UniqueInv, Quiet, OwnRows, Covered, ViewUnique, PlanFits,
       OneAlertPerCategory, NoRows, NoRow

\* A session adds rows of its own categories, for a condition has one.
LEMMA OwnRowsStep == TypeOK /\ OwnRows /\ PlanFits /\ [Next]_vars => OwnRows'
<1> SUFFICES ASSUME TypeOK, OwnRows, PlanFits, [Next]_vars PROVE OwnRows'
  OBVIOUS
<1>t. adding \in [Session -> [AlertId -> Row \cup {NoRow}]]
  BY DEF TypeOK
<1>1. CASE UNCHANGED adding
  BY <1>1 DEF OwnRows, Owns
<1>2. ASSUME NEW e \in Session, adding' = [adding EXCEPT ![e] = NoRows]
      PROVE  OwnRows'
  BY <1>2, <1>t DEF OwnRows, Owns, NoRows
<1>3. ASSUME NEW e \in Session, NEW cond \in plan[e], NEW a \in AlertId,
             Raise(e, cond, a)
      PROVE  OwnRows'
  <2>1. Owns(e, TypeOf(cond)[1])
    BY DEF PlanFits, TypeOf, AlertType
  <2>2. adding'[e][a].type = TypeOf(cond)
    BY <1>3, <1>t DEF Raise
  <2>3. ASSUME NEW f \in Session, NEW b \in AlertId, f # e \/ b # a
        PROVE  adding'[f][b] = adding[f][b]
    BY <1>3, <1>t, <2>3 DEF Raise
  <2> QED
    BY <2>1, <2>2, <2>3 DEF OwnRows, Owns
<1> QED
  BY <1>1, <1>2, <1>3 DEF Next, Step, vars, Change, Begin, Sweep, Keep, Deliver,
     DeliverFirst, DeliverConflict, Commit, Abort, Fail, Flushed, OpenSettings,
     RequestUpdate, WriteUpdate, buffers

\* How a step may change what a session with a transaction sees: a new
\* snapshot, a row of its own, or at most some more rows resolved.
LEMMA ViewStep ==
  ASSUME TypeOK, Quiet, [Next]_vars, NEW e \in Session, open'[e]
  PROVE  \/ /\ seen'[e] = alert' /\ adding'[e] = NoRows /\ resolving'[e] = {}
            /\ open[e] => Flushed(e)
         \/ /\ open[e] /\ seen'[e] = seen[e] /\ adding'[e] = adding[e]
            /\ resolving[e] \subseteq resolving'[e]
         \/ /\ open[e] /\ UNCHANGED alert
            /\ \E cond \in plan[e], a \in AlertId : Raise(e, cond, a)
<1> DEFINE Fresh == /\ seen'[e] = alert' /\ adding'[e] = NoRows /\ resolving'[e] = {}
                    /\ open[e] => Flushed(e)
           Same == /\ open[e] /\ seen'[e] = seen[e] /\ adding'[e] = adding[e]
                   /\ resolving[e] \subseteq resolving'[e]
<1>t. /\ open \in [Session -> BOOLEAN]
      /\ seen \in [Session -> [AlertId -> Row \cup {NoRow}]]
      /\ adding \in [Session -> [AlertId -> Row \cup {NoRow}]]
      /\ resolving \in [Session -> SUBSET AlertId]
  BY DEF TypeOK
<1>q. unit[e] = Idle \/ ~open[e] =>
        adding[e] = NoRows /\ resolving[e] = {} /\ plan[e] = {}
        /\ left[e] = {} /\ ping[e] = {}
  BY DEF Quiet
<1>1. ASSUME UNCHANGED <<open, seen, adding, resolving>> PROVE Same
  BY <1>1
<1>2. ASSUME NEW f \in Session, NEW u \in Unit, Begin(f, u) PROVE Same \/ Fresh
  <2>1. CASE f = e
    <3>1. CASE open[e]
      BY <1>2, <1>t, <2>1, <3>1 DEF Begin, buffers
    <3>2. CASE ~open[e]
      BY <1>2, <1>t, <1>q, <2>1, <3>2 DEF Begin, buffers, table
    <3> QED
      BY <3>1, <3>2
  <2>2. CASE f # e
    BY <1>2, <1>t, <2>2 DEF Begin, buffers
  <2> QED
    BY <2>1, <2>2
<1>3. ASSUME NEW f \in Session, NEW s \in Scope, Sweep(f, s) PROVE Same
  BY <1>3, <1>t DEF Sweep
<1>4. ASSUME NEW f \in Session, NEW cond \in plan[f], Keep(f, cond) PROVE Same
  BY <1>4, <1>t DEF Keep, buffers
<1>5. ASSUME NEW f \in Session, NEW cond \in plan[f], NEW a \in AlertId,
             Raise(f, cond, a)
      PROVE  \/ Same
             \/ /\ open[e] /\ UNCHANGED alert
                /\ \E c \in plan[e], b \in AlertId : Raise(e, c, b)
  <2>1. CASE f = e
    BY <1>5, <1>q, <2>1 DEF Raise, table
  <2>2. CASE f # e
    BY <1>5, <1>t, <2>2 DEF Raise
  <2> QED
    BY <2>1, <2>2
<1>6. ASSUME NEW f \in Session, NEW p \in ping[f], Deliver(f, p) PROVE Same
  BY <1>6, <1>t DEF Deliver
<1>7. ASSUME NEW f \in Session, NEW p \in ping[f], DeliverFirst(f, p)
      PROVE  Same \/ Fresh
  BY <1>7, <1>t, <1>q DEF DeliverFirst, Flushed
<1>8. ASSUME NEW f \in Session, Commit(f) PROVE Same
  <2>1. CASE f = e
    BY <1>8, <1>t, <1>q, <2>1 DEF Commit, Flushed
  <2>2. CASE f # e
    BY <1>8, <1>t, <2>2 DEF Commit, Flushed
  <2> QED
    BY <2>1, <2>2
<1>9. ASSUME NEW f \in Session, Fail(f) PROVE Same
  <2>1. f # e
    BY <1>9, <1>t DEF Fail
  <2> QED
    BY <1>9, <1>t, <2>1 DEF Fail
<1> HIDE DEF Same, Fresh
<1>10. Same \/ Fresh \/ (/\ open[e] /\ UNCHANGED alert
                        /\ \E c \in plan[e], b \in AlertId : Raise(e, c, b))
  BY <1>1, <1>2, <1>3, <1>4, <1>5, <1>6, <1>7, <1>8, <1>9 DEF Next, Step, vars,
     Change, DeliverConflict, Abort, OpenSettings, RequestUpdate, WriteUpdate,
     buffers, local
<1> QED
  BY <1>10 DEF Same, Fresh

\* An active row of a category that a session's snapshot misses would have to
\* come from that session.
LEMMA CoveredStep ==
  ASSUME OneSessionEach, RowInv, Quiet, OwnRows, Covered, [Next]_vars
  PROVE  Covered'
<1> SUFFICES ASSUME NEW e \in Session, NEW a \in AlertId, open'[e],
                    alert'[a].status = "active", Owns(e, alert'[a].type[1])
             PROVE  seen'[e][a] = alert'[a]
  BY DEF Covered, Owns
<1>t. TypeOK /\ adding[e] \in [AlertId -> Row \cup {NoRow}]
  BY DEF RowInv, TypeOK
<1>1. CASE seen'[e] = alert'
  BY <1>1
<1>2. CASE alert'[a] = alert[a] /\ open[e] /\ seen'[e] = seen[e]
  BY <1>2 DEF Covered
<1>3. CASE open[e] /\ seen'[e] = seen[e] /\ adding'[e] = adding[e]
  <2>1. SUFFICES ASSUME alert'[a] # alert[a] PROVE FALSE
    BY <1>2, <1>3
  <2>2. PICK f \in Session : /\ Flushed(f) /\ adding[f][a] # NoRow
                             /\ Owns(f, alert'[a].type[1])
    BY <2>1, NewActive
  <2>3. f = e
    BY <2>2, OwnersDiffer
  <2>4. adding'[e][a] = NoRow
    BY <2>2, <2>3, <1>t DEF Flushed, NoRows, TypeOK
  <2> QED
    BY <1>3, <2>2, <2>3, <2>4
<1>4. CASE open[e] /\ UNCHANGED alert /\ \E cond \in plan[e], b \in AlertId : Raise(e, cond, b)
  <2>1. seen'[e] = seen[e]
    BY <1>4 DEF Raise
  <2> QED
    BY <1>2, <1>4, <2>1
<1> QED
  BY <1>1, <1>3, <1>4, <1>t, ViewStep
\* A resolved row is not active.
LEMMA ResolvedInactive ==
  ASSUME NEW row \in Row \cup {NoRow}
  PROVE  Resolved(row).status # "active"
BY ResolvedRow DEF Resolved, NoRow, Row

\* ActiveOver, for what a session sees after a step.
LEMMA NextView ==
  ASSUME TypeOK', NEW e \in Session, NEW x \in AlertId,
         View(e)'[x].status = "active"
  PROVE  /\ x \notin resolving'[e]
         /\ View(e)'[x] = IF adding'[e][x] # NoRow THEN adding'[e][x] ELSE seen'[e][x]
<1> DEFINE row == IF adding'[e][x] # NoRow THEN adding'[e][x] ELSE seen'[e][x]
<1>1. row \in Row \cup {NoRow}
  BY DEF TypeOK
<1>2. View(e)'[x] = IF x \in resolving'[e] THEN Resolved(row) ELSE row
  BY DEF View, Over, Resolved
<1> QED
  BY <1>1, <1>2, ResolvedInactive

\* The rows that a session adds to what it sees for a condition.
LEMMA RaisedView ==
  ASSUME TypeOK, TypeOK', NEW e \in Session, NEW cond \in plan[e], NEW n \in AlertId,
         Raise(e, cond, n), NEW x \in AlertId, View(e)'[x].status = "active"
  PROVE  /\ x # n => View(e)'[x] = View(e)[x] /\ x \notin resolving'[e]
         /\ x = n => /\ View(e)'[x].scope = cond.scope
                     /\ View(e)'[x].type = TypeOf(cond)
                     /\ View(e)'[x].type[1] = cond.cat
<1> DEFINE row == [scope |-> cond.scope, type |-> TypeOf(cond),
                   sev |-> Severity(cond.level),
                   status |-> "active", stamped |-> FALSE]
<1>1. /\ adding \in [Session -> [AlertId -> Row \cup {NoRow}]]
      /\ resolving \in [Session -> SUBSET AlertId]
  BY DEF TypeOK
<1>2. /\ adding'[e] = [adding[e] EXCEPT ![n] = row]
      /\ seen'[e] = seen[e]
      /\ resolving[e] \subseteq resolving'[e]
  BY <1>1 DEF Raise
<1>3. /\ x \notin resolving'[e]
      /\ View(e)'[x] = IF adding'[e][x] # NoRow THEN adding'[e][x] ELSE seen'[e][x]
  BY NextView
<1>4. CASE x # n
  BY <1>1, <1>2, <1>3, <1>4 DEF View, Over
<1>5. CASE x = n
  <2>1. row \in Row /\ TypeOf(cond)[1] = cond.cat
    BY TypeOfType DEF Condition, Row, TypeOf, AlertType, TypeOK
  <2>2. adding'[e][x] = row
    BY <1>1, <1>2, <1>5
  <2>3. row # NoRow
    BY <2>1, RowIsARow
  <2>4. row.scope = cond.scope /\ row.type = TypeOf(cond)
    OBVIOUS
  <2> HIDE DEF row
  <2> QED
    BY <1>3, <1>5, <2>1, <2>2, <2>3, <2>4
<1> QED
  BY <1>4, <1>5

\* In what a session sees of its own categories no two active rows clash.
LEMMA ViewUniqueStep ==
  ASSUME RowInv, RowInv', Quiet, ViewUnique, PlanFits, OneAlertPerCategory',
         [Next]_vars
  PROVE  ViewUnique'
<1> SUFFICES ASSUME NEW e \in Session, open'[e], NEW a \in AlertId, NEW b \in AlertId,
                    Clash(View(e)'[a], View(e)'[b]), Owns(e, View(e)'[a].type[1])
             PROVE  a = b
  BY DEF ViewUnique, Clash, Owns
<1>t. TypeOK /\ TypeOK'
  BY DEF RowInv
<1>w. View(e)'[a].status = "active" /\ View(e)'[b].status = "active"
  BY DEF Clash
<1>1. CASE seen'[e] = alert' /\ adding'[e] = NoRows /\ resolving'[e] = {}
  <2>1. View(e)'[a] = alert'[a] /\ View(e)'[b] = alert'[b]
    BY <1>1, <1>t, <1>w, NextView DEF NoRows
  <2> QED
    BY <2>1 DEF OneAlertPerCategory, Clash
<1>2. CASE /\ open[e] /\ seen'[e] = seen[e] /\ adding'[e] = adding[e]
           /\ resolving[e] \subseteq resolving'[e]
  <2>1. View(e)'[a] = View(e)[a] /\ View(e)'[b] = View(e)[b]
    BY <1>2, <1>t, <1>w, NextView DEF View, Over
  <2> QED
    BY <1>2, <2>1 DEF ViewUnique
<1>3. CASE open[e] /\ \E cond \in plan[e], n \in AlertId : Raise(e, cond, n)
  <2>1. PICK cond \in plan[e], n \in AlertId : Raise(e, cond, n)
    BY <1>3
  <2>2. ASSUME NEW x \in AlertId, x # n, View(e)'[x].status = "active",
               View(e)'[x].scope = cond.scope, View(e)'[x].type[1] = cond.cat
        PROVE  FALSE
    <3>1. View(e)'[x] = View(e)[x] /\ x \notin resolving'[e]
      BY <1>t, <2>1, <2>2, RaisedView
    <3>2. x \in Existing(e, cond)
      BY <2>2, <3>1 DEF Existing, ActiveIn, PlanFits
    <3>3. PICK old \in Existing(e, cond) : old \in resolving'[e]
      BY <1>t, <2>1, <3>2 DEF Raise, TypeOK
    <3>4. /\ old \in AlertId /\ View(e)[old].status = "active"
          /\ View(e)[old].scope = cond.scope /\ View(e)[old].type[1] = cond.cat
      BY DEF Existing, ActiveIn, TypeOf, AlertType
    <3>5. Owns(e, cond.cat)
      BY DEF PlanFits
    <3>6. x = old
      BY <1>3, <2>2, <3>1, <3>4, <3>5 DEF ViewUnique, Clash
    <3> QED
      BY <3>1, <3>3, <3>6
  <2>3. CASE a # n /\ b # n
    BY <1>3, <1>t, <1>w, <2>1, <2>3, RaisedView DEF ViewUnique
  <2>4. CASE a = n /\ b # n
    BY <1>t, <1>w, <2>1, <2>2, <2>4, RaisedView DEF Clash
  <2>5. CASE a # n /\ b = n
    BY <1>t, <1>w, <2>1, <2>2, <2>5, RaisedView DEF Clash
  <2> QED
    BY <2>3, <2>4, <2>5
<1> QED
  BY <1>1, <1>2, <1>3, <1>t, ViewStep

\* What a commit makes of the table has no duplicates: of the session's own
\* categories it is what the session saw, the others it only resolves.
LEMMA OneAlertStep ==
  ASSUME OneSessionEach, RowInv, Quiet, OwnRows, Covered, ViewUnique,
         OneAlertPerCategory, [Next]_vars
  PROVE  OneAlertPerCategory'
<1> SUFFICES ASSUME NEW a \in AlertId, NEW b \in AlertId,
                    Clash(alert'[a], alert'[b])
             PROVE  a = b
  BY DEF OneAlertPerCategory, Clash
<1>w. /\ alert'[a].status = "active" /\ alert'[b].status = "active"
      /\ alert'[a].scope = alert'[b].scope
      /\ alert'[a].type[1] = alert'[b].type[1]
  BY DEF Clash
<1>1. CASE alert'[a] = alert[a] /\ alert'[b] = alert[b]
  BY <1>1, <1>w DEF OneAlertPerCategory
<1>2. ASSUME NEW x \in AlertId, NEW y \in AlertId, x \in {a, b}, y \in {a, b},
             alert'[x] # alert[x]
      PROVE  x = y
  <2>1. /\ alert'[x].status = "active" /\ alert'[y].status = "active"
        /\ alert'[x].scope = alert'[y].scope
        /\ alert'[x].type[1] = alert'[y].type[1]
    BY <1>w, <1>2
  <2>2. PICK e \in Session : /\ Flushed(e) /\ adding[e][x] # NoRow
                             /\ Owns(e, alert'[x].type[1])
    BY <1>2, <2>1, NewActive
  <2>3. open[e]
    BY <2>2 DEF Quiet, NoRows
  <2>4. /\ alert'[x] = Over(alert, e)[x]
        /\ alert'[y] = Over(alert, e)[y]
    BY <2>2 DEF Flushed
  <2>5. View(e)[x] = alert'[x] /\ View(e)[y] = alert'[y]
    BY <2>1, <2>2, <2>3, <2>4, CommitView DEF RowInv
  <2> QED
    BY <2>1, <2>2, <2>3, <2>5 DEF ViewUnique, Clash
<1> QED
  BY <1>1, <1>2
\* After a sweep, the active rows a session sees of a category it is about to
\* handle are of the type it wants.
LEMMA SweepFits ==
  ASSUME TypeOK, TypeOK', Quiet, ViewUnique, NEW e \in Session, NEW s \in Scope,
         Sweep(e, s), NEW cond \in plan'[e]
  PROVE  /\ Owns(e, cond.cat)
         /\ \A other \in plan'[e] :
              other.scope = cond.scope /\ other.cat = cond.cat => other = cond
         /\ \A a \in AlertId :
              /\ View(e)'[a].status = "active"
              /\ View(e)'[a].scope = cond.scope
              /\ View(e)'[a].type[1] = cond.cat
              => View(e)'[a].type = TypeOf(cond)
<1> DEFINE kind == unit[e][1]
<1>1. unit[e] \in Units(e) /\ open[e]
  BY DEF Sweep, Quiet
<1>2. plan'[e] = Desired(e, s)
  BY DEF Sweep, TypeOK
<1> DEFINE Wants(k) == [scope |-> s, cat |-> k, level |-> sample[e][<<s, k>>]]
<1>3. ASSUME NEW c \in Desired(e, s)
      PROVE  c.scope = s /\ c.cat \in Raises(kind) /\ c = Wants(c.cat)
  <2>1. PICK k \in Raises(kind) : c = Wants(k)
    BY DEF Desired
  <2> QED
    BY <2>1
<1>4. Owns(e, cond.cat) /\ cond.cat \in Clears(kind)
  BY <1>1, <1>2, <1>3, UnitsRaise
<1>5. \A other \in plan'[e] :
        other.scope = cond.scope /\ other.cat = cond.cat => other = cond
  <2> HIDE DEF Wants
  <2> QED
    BY <1>2, <1>3
<1>6. ASSUME NEW a \in AlertId, View(e)'[a].status = "active",
             View(e)'[a].scope = cond.scope, View(e)'[a].type[1] = cond.cat,
             View(e)'[a].type # TypeOf(cond)
      PROVE  FALSE
  <2>1. a \notin resolving'[e] /\ View(e)'[a] = View(e)[a]
    <3>1. /\ seen'[e] = seen[e] /\ adding'[e] = adding[e]
          /\ resolving[e] \subseteq resolving'[e]
      BY DEF Sweep, TypeOK
    <3>2. /\ a \notin resolving'[e]
          /\ View(e)'[a] = IF adding'[e][a] # NoRow THEN adding'[e][a] ELSE seen'[e][a]
      BY <1>6, NextView
    <3> QED
      BY <3>1, <3>2 DEF View, Over
  <2>2. View(e)[a].type \notin {TypeOf(c) : c \in Desired(e, s)}
    <3> SUFFICES ASSUME NEW c \in Desired(e, s), View(e)[a].type = TypeOf(c)
                 PROVE  FALSE
      OBVIOUS
    <3>1. c.cat = cond.cat
      BY <1>6, <2>1 DEF TypeOf, AlertType
    <3>2. c = cond
      BY <1>2, <1>3, <1>5, <3>1
    <3> QED
      BY <1>6, <2>1, <3>2
  <2>3. a \in Stale(e, s)
    BY <1>2, <1>3, <1>4, <1>6, <2>1, <2>2 DEF Stale, ActiveIn
  <2>4. CASE kind \in Lists
    BY <2>1, <2>3, <2>4 DEF Sweep, TypeOK
  <2>5. CASE kind \notin Lists
    <3>1. PICK b \in Stale(e, s) : b \in resolving'[e]
      BY <2>3, <2>5 DEF Sweep, TypeOK
    <3>2. /\ b \in AlertId /\ View(e)[b].status = "active"
          /\ View(e)[b].scope = s /\ View(e)[b].type[1] \in Clears(kind)
      BY DEF Stale, ActiveIn
    <3>3. \A c, d \in Clears(kind) : c = d
      BY <1>1, <2>5 DEF Clears, Raises, Lists, Units, Unit
    <3>4. View(e)[b].type[1] = cond.cat
      BY <1>4, <3>2, <3>3
    <3>5. a = b
      BY <1>1, <1>2, <1>3, <1>4, <1>6, <2>1, <3>2, <3>4 DEF ViewUnique, Clash
    <3> QED
      BY <2>1, <3>1, <3>5
  <2> QED
    BY <2>4, <2>5
<1> QED
  BY <1>4, <1>5, <1>6

\* How a step may change what a session still has to handle.
LEMMA PlanStep ==
  ASSUME TypeOK, [Next]_vars, NEW e \in Session
  PROVE  \/ plan'[e] \subseteq plan[e]
         \/ \E s \in Scope : Sweep(e, s)
<1>t. plan \in [Session -> SUBSET Condition]
  BY DEF TypeOK
<1>1. ASSUME NEW f \in Session, NEW s \in Scope, Sweep(f, s)
      PROVE  plan'[e] \subseteq plan[e] \/ Sweep(e, s)
  BY <1>1, <1>t DEF Sweep
<1>2. ASSUME NEW f \in Session, Fail(f) PROVE plan'[e] \subseteq plan[e]
  BY <1>2, <1>t DEF Fail
<1>3. ASSUME NEW f \in Session, NEW cond \in plan[f],
             Keep(f, cond) \/ \E a \in AlertId : Raise(f, cond, a)
      PROVE  plan'[e] \subseteq plan[e]
  <2>1. plan' = [plan EXCEPT ![f] = @ \ {cond}]
    BY <1>3 DEF Keep, Raise
  <2> QED
    BY <1>t, <2>1
<1> QED
  BY <1>1, <1>2, <1>3 DEF Next, Step, vars, Change, Begin, Deliver, DeliverFirst,
     DeliverConflict, Commit, Abort, OpenSettings, RequestUpdate, WriteUpdate, local

\* What a session has still to handle keeps fitting what it sees.
LEMMA PlanFitsStep ==
  ASSUME RowInv, RowInv', Quiet, Quiet', Covered, ViewUnique, PlanFits, [Next]_vars
  PROVE  PlanFits'
<1> SUFFICES ASSUME NEW e \in Session, NEW cond \in plan'[e]
             PROVE  /\ Owns(e, cond.cat)
                    /\ \A other \in plan'[e] :
                         other.scope = cond.scope /\ other.cat = cond.cat
                           => other = cond
                    /\ \A a \in AlertId :
                         /\ View(e)'[a].status = "active"
                         /\ View(e)'[a].scope = cond.scope
                         /\ View(e)'[a].type[1] = cond.cat
                         => View(e)'[a].type = TypeOf(cond)
  BY DEF PlanFits, Owns, TypeOf, AlertType
<1>t. TypeOK /\ TypeOK'
  BY DEF RowInv
<1>1. CASE \E s \in Scope : Sweep(e, s)
  BY <1>1, <1>t, SweepFits
<1>2. CASE plan'[e] \subseteq plan[e]
  <2>1. /\ Owns(e, cond.cat)
        /\ \A other \in plan'[e] :
             other.scope = cond.scope /\ other.cat = cond.cat => other = cond
    BY <1>2 DEF PlanFits
  <2>2. open[e] /\ open'[e]
    BY <1>2 DEF Quiet
  <2> SUFFICES ASSUME NEW a \in AlertId, View(e)'[a].status = "active",
                      View(e)'[a].scope = cond.scope,
                      View(e)'[a].type[1] = cond.cat
               PROVE  View(e)'[a].type = TypeOf(cond)
    BY <2>1
  <2>3. ASSUME View(e)'[a] = View(e)[a] PROVE View(e)'[a].type = TypeOf(cond)
    BY <1>2, <2>3 DEF PlanFits
  <2>4. CASE /\ seen'[e] = alert' /\ adding'[e] = NoRows /\ resolving'[e] = {}
             /\ Flushed(e)
    <3>1. View(e)'[a] = Over(alert, e)[a]
      BY <1>t, <2>4, NextView DEF NoRows, Flushed
    <3> QED
      BY <1>t, <2>1, <2>2, <2>3, <3>1, CommitView
  <2>5. CASE /\ seen'[e] = seen[e] /\ adding'[e] = adding[e]
             /\ resolving[e] \subseteq resolving'[e]
    BY <1>t, <2>3, <2>5, NextView DEF View, Over
  <2>6. CASE \E c \in plan[e], n \in AlertId : Raise(e, c, n)
    <3>1. PICK c \in plan[e], n \in AlertId : Raise(e, c, n)
      BY <2>6
    <3>2. CASE a # n
      BY <1>t, <2>3, <3>1, <3>2, RaisedView
    <3>3. CASE a = n
      <4>1. c.scope = cond.scope /\ c.cat = cond.cat
        BY <1>t, <3>1, <3>3, RaisedView
      <4>2. c = cond
        BY <1>2, <4>1 DEF PlanFits
      <4>3. cond \notin plan'[e]
        BY <3>1, <4>2, <1>t DEF Raise, TypeOK
      <4> QED
        BY <4>3
    <3> QED
      BY <3>2, <3>3
  <2> QED
    BY <1>t, <2>2, <2>4, <2>5, <2>6, ViewStep
<1> QED
  BY <1>1, <1>2, <1>t, PlanStep

-----------------------------------------------------------------------------

LEMMA UniqueInvariant ==
  ASSUME OneSessionEach
  PROVE  Spec => []UniqueInv
<1>1. Init => UniqueInv
  BY UniqueInit
<1>2. RowInv /\ RowInv' /\ UniqueInv /\ [Next]_vars => UniqueInv'
  <2> SUFFICES ASSUME RowInv, RowInv', UniqueInv, [Next]_vars PROVE UniqueInv'
    OBVIOUS
  <2> USE DEF UniqueInv
  <2>1. TypeOK
    BY DEF RowInv
  <2>2. Quiet'
    BY <2>1, QuietStep
  <2>3. OwnRows'
    BY <2>1, OwnRowsStep
  <2>4. Covered'
    BY CoveredStep
  <2>5. OneAlertPerCategory'
    BY OneAlertStep
  <2>6. ViewUnique'
    BY <2>5, ViewUniqueStep
  <2>7. PlanFits'
    BY <2>2, PlanFitsStep
  <2> QED
    BY <2>2, <2>3, <2>4, <2>5, <2>6, <2>7
<1> QED
  BY <1>1, <1>2, RowInvariant, PTL DEF Spec

\* With one session of each service, no scope ever shows two active alerts of a
\* category: not the same alert twice, not two tiers at once; whatever the
\* operators do, wherever runs fail, and although get_or_create commits half a
\* run and each session looks at a snapshot that may be long out of date.
THEOREM NoDuplicates ==
  ASSUME OneSessionEach
  PROVE  Spec => []OneAlertPerCategory
BY UniqueInvariant, PTL DEF UniqueInv

-----------------------------------------------------------------------------
(* What is raised is what was sampled.                                      *)

\* The conditions a session still has to handle are those of its sample.
PlanSampled ==
  \A e \in Session : \A cond \in plan[e] :
    /\ <<cond.scope, cond.cat>> \in Signal
    /\ cond.level = sample[e][<<cond.scope, cond.cat>>]

\* A row shows what session e has sampled of the row's signal.
ShowsSample(e, row) ==
  LET sig == <<row.scope, row.type[1]>> IN
  /\ sig \in Signal
  /\ sample[e][sig] \in Firing
  /\ row.type = AlertType(sig[2], sample[e][sig])
  /\ row.sev = Severity(sample[e][sig])

\* What a session has flushed shows what it has sampled.
AddedSampled ==
  \A e \in Session, a \in AlertId :
    adding[e][a] # NoRow => ShowsSample(e, adding[e][a])

SampledInv == Quiet /\ PlanSampled /\ AddedSampled

\* The actions that change what is measured, or what was sampled.
LEMMA Movers ==
  ASSUME [Next]_vars
  PROVE  \/ UNCHANGED <<reading, sample>>
         \/ \E sig \in Signal : Change(sig)
         \/ \E e \in Session, u \in Unit : Begin(e, u)
<1>1. ASSUME NEW e \in Session, Step(e)
      PROVE  UNCHANGED <<reading, sample>> \/ \E u \in Unit : Begin(e, u)
  BY <1>1 DEF Step, Sweep, Keep, Raise, Deliver, DeliverFirst, DeliverConflict,
     Commit, Fail
<1>2. ASSUME NEW e \in Session, Abort(e) PROVE UNCHANGED <<reading, sample>>
  BY <1>2 DEF Abort, Fail
<1>3. ASSUME NEW o \in Operator, WriteUpdate(o) PROVE UNCHANGED <<reading, sample>>
  BY <1>3 DEF WriteUpdate, local
<1> QED
  BY <1>1, <1>2, <1>3 DEF Next, vars, OpenSettings, RequestUpdate, local

\* A session samples only between two units, with nothing under way.
LEMMA SampleStep ==
  ASSUME TypeOK, Quiet, [Next]_vars, NEW e \in Session
  PROVE  \/ sample'[e] = sample[e]
         \/ /\ unit[e] = Idle
            /\ \E u \in Unit : Begin(e, u)
<1>t. sample \in [Session -> [Signal -> Level]]
  BY DEF TypeOK
<1>1. ASSUME NEW f \in Session, NEW u \in Unit, Begin(f, u)
      PROVE  \/ sample'[e] = sample[e]
             \/ unit[e] = Idle /\ Begin(e, u)
  BY <1>1, <1>t DEF Begin
<1>2. \/ UNCHANGED sample
      \/ \E f \in Session, u \in Unit : Begin(f, u)
  BY Movers DEF Change, local
<1> QED
  BY <1>1, <1>2 DEF Begin

LEMMA PlanSampledStep ==
  ASSUME TypeOK, Quiet, PlanSampled, [Next]_vars
  PROVE  PlanSampled'
<1> SUFFICES ASSUME NEW e \in Session, NEW cond \in plan'[e]
             PROVE  /\ <<cond.scope, cond.cat>> \in Signal
                    /\ cond.level = sample'[e][<<cond.scope, cond.cat>>]
  BY DEF PlanSampled
<1>1. ASSUME NEW s \in Scope, Sweep(e, s)
      PROVE  /\ <<cond.scope, cond.cat>> \in Signal
             /\ cond.level = sample'[e][<<cond.scope, cond.cat>>]
  <2>1. plan'[e] = Desired(e, s) /\ sample' = sample
    BY <1>1 DEF Sweep, TypeOK
  <2>2. PICK c : /\ <<s, c>> \in Signal
                 /\ cond = [scope |-> s, cat |-> c, level |-> sample[e][<<s, c>>]]
    BY <2>1 DEF Desired
  <2> QED
    BY <2>1, <2>2
<1>2. CASE plan'[e] \subseteq plan[e]
  <2>1. sample'[e] = sample[e]
    <3>1. unit[e] # Idle
      BY <1>2 DEF Quiet
    <3> QED
      BY <3>1, SampleStep
  <2> QED
    BY <1>2, <2>1 DEF PlanSampled
<1> QED
  BY <1>1, <1>2, PlanStep

\* The row that Raise adds shows the sample its condition comes from.
LEMMA RaisedShowsSample ==
  ASSUME TypeOK, PlanSampled, NEW e \in Session, NEW cond \in plan[e],
         NEW a \in AlertId, Raise(e, cond, a)
  PROVE  ShowsSample(e, adding'[e][a])
<1>1. adding'[e][a] = [scope |-> cond.scope, type |-> TypeOf(cond),
                       sev |-> Severity(cond.level),
                       status |-> "active", stamped |-> FALSE]
  BY DEF Raise, TypeOK
<1>2. cond \in Condition
  BY DEF TypeOK
<1>3. TypeOf(cond)[1] = cond.cat
  BY DEF TypeOf, AlertType
<1> QED
  BY <1>1, <1>2, <1>3 DEF PlanSampled, ShowsSample, Condition, TypeOf

LEMMA AddedSampledStep ==
  ASSUME TypeOK, Quiet, PlanSampled, AddedSampled, [Next]_vars
  PROVE  AddedSampled'
<1> SUFFICES ASSUME NEW e \in Session, NEW a \in AlertId, adding'[e][a] # NoRow
             PROVE  ShowsSample(e, adding[e][a])'
  BY DEF AddedSampled
<1>t. adding \in [Session -> [AlertId -> Row \cup {NoRow}]]
  BY DEF TypeOK
<1>1. CASE adding'[e][a] = adding[e][a]
  <2>1. unit[e] # Idle
    BY <1>1 DEF Quiet, NoRows
  <2>2. sample'[e] = sample[e]
    BY <2>1, SampleStep
  <2> QED
    BY <1>1, <2>2 DEF AddedSampled, ShowsSample
<1>2. ASSUME NEW f \in Session, adding' = [adding EXCEPT ![f] = NoRows]
      PROVE  adding'[e][a] = adding[e][a]
  BY <1>2, <1>t DEF NoRows
<1>3. ASSUME NEW f \in Session, NEW cond \in plan[f], NEW b \in AlertId,
             Raise(f, cond, b)
      PROVE  ShowsSample(e, adding[e][a])'
  <2>1. CASE f = e /\ b = a
    <3>1. ShowsSample(e, adding'[e][a]) /\ sample' = sample
      BY <1>3, <2>1, RaisedShowsSample DEF Raise
    <3> QED
      BY <3>1 DEF ShowsSample
  <2>2. CASE ~(f = e /\ b = a)
    BY <1>1, <1>3, <1>t, <2>2 DEF Raise
  <2> QED
    BY <2>1, <2>2
<1> QED
  BY <1>1, <1>2, <1>3 DEF Next, Step, vars, Change, Begin, Sweep, Keep, Deliver,
     DeliverFirst, DeliverConflict, Commit, Abort, Fail, Flushed, OpenSettings,
     RequestUpdate, WriteUpdate, buffers

LEMMA SampledInvariant == Spec => []SampledInv
<1>1. Init => SampledInv
  <2> SUFFICES ASSUME Init PROVE PlanSampled /\ AddedSampled
    BY QuietInit DEF SampledInv
  <2> QED
    BY DEF Init, PlanSampled, AddedSampled, NoRows
<1>2. RowInv /\ SampledInv /\ [Next]_vars => SampledInv'
  BY QuietStep, PlanSampledStep, AddedSampledStep DEF SampledInv, RowInv
<1> QED
  BY <1>1, <1>2, RowInvariant, PTL DEF Spec
-----------------------------------------------------------------------------
(* The refinement of AlertBoard.                                            *)

\* The two jobs and nobody else.
JobsOnly == \E job, other : job # other /\ Evaluator = {job} /\ Optimizer = {other}

LEMMA RaiserRaises ==
  ASSUME JobsOnly, NEW sig \in Signal
  PROVE  Raiser(sig) \in Session /\ Owns(Raiser(sig), sig[2])
<1>1. \E e \in Session : (e \in Optimizer) = (sig[2] = "resource_optimization")
  BY DEF JobsOnly, Session
<1> QED
  BY <1>1 DEF Raiser, Owns

LEMMA JobsAreOne == JobsOnly => OneSessionEach
BY DEF JobsOnly, OneSessionEach

\* Where everything that is shown is one thing, that is what is placed.
LEMMA ChooseOnly ==
  ASSUME NEW S, NEW x \in S, \A y \in S : y = x
  PROVE  (IF S = {} THEN Blank ELSE CHOOSE y \in S : TRUE) = x
OBVIOUS

\* With no two active alerts of a category a place shows the active alert of
\* its signal.
LEMMA PlacedIs ==
  ASSUME OneAlertPerCategory, NEW sig \in Signal, NEW a \in AlertId,
         alert[a].status = "active", alert[a].scope = sig[1],
         alert[a].type[1] = sig[2]
  PROVE  Placed[sig] = <<alert[a].type, alert[a].sev>>
<1> DEFINE x == <<alert[a].type, alert[a].sev>>
<1>1. x \in Shown(sig)
  BY DEF Shown, ActiveIn
<1>2. \A y \in Shown(sig) : y = x
  BY DEF Shown, ActiveIn, OneAlertPerCategory
<1> HIDE DEF x
<1>3. Placed[sig] = IF Shown(sig) = {} THEN Blank ELSE CHOOSE y \in Shown(sig) : TRUE
  BY DEF Placed
<1> QED
  BY <1>1, <1>2, <1>3, ChooseOnly DEF x

\* PlacedIs, after a step.
LEMMA NextPlacedIs ==
  ASSUME OneAlertPerCategory', NEW sig \in Signal, NEW a \in AlertId,
         alert'[a].status = "active", alert'[a].scope = sig[1],
         alert'[a].type[1] = sig[2]
  PROVE  Placed'[sig] = <<alert'[a].type, alert'[a].sev>>
<1> DEFINE x == <<alert'[a].type, alert'[a].sev>>
<1>1. x \in Shown(sig)'
  BY DEF Shown, ActiveIn
<1>2. \A y \in Shown(sig)' : y = x
  BY DEF Shown, ActiveIn, OneAlertPerCategory
<1> HIDE DEF x
<1>3. Placed'[sig] = IF Shown(sig)' = {} THEN Blank ELSE CHOOSE y \in Shown(sig)' : TRUE
  BY DEF Placed
<1> QED
  BY <1>1, <1>2, <1>3, ChooseOnly DEF x

\* All a step does to a place is to blank it, or to show there what the
\* session that raises its alerts has found.
LEMMA PlaceStep ==
  ASSUME JobsOnly, RowInv, UniqueInv, OneAlertPerCategory', AddedSampled,
         [Next]_vars, NEW sig \in Signal
  PROVE  Placed'[sig] \in {Placed[sig], Blank, AlertFace(sig, Looked[sig])}
<1> USE DEF UniqueInv
<1>s. sig \in Scope \X Category
  BY SignalAssumption
<1>1. CASE Shown(sig)' = {}
  <2>1. Placed'[sig] = IF Shown(sig)' = {} THEN Blank ELSE CHOOSE y \in Shown(sig)' : TRUE
    BY DEF Placed
  <2> QED
    BY <1>1, <2>1
<1>2. CASE Shown(sig)' # {}
  <2>1. PICK a \in AlertId : /\ alert'[a].status = "active"
                             /\ alert'[a].scope = sig[1]
                             /\ alert'[a].type[1] = sig[2]
    BY <1>2 DEF Shown, ActiveIn
  <2>2. Placed'[sig] = <<alert'[a].type, alert'[a].sev>>
    BY <2>1, NextPlacedIs
  <2>3. CASE alert'[a] = alert[a]
    BY <2>1, <2>2, <2>3, PlacedIs
  <2>4. CASE alert'[a] # alert[a]
    <3>1. PICK e \in Session : /\ adding[e][a] # NoRow
                               /\ alert'[a] = adding[e][a]
                               /\ Owns(e, alert'[a].type[1])
      BY <2>1, <2>4, NewActive
    <3>2. e = Raiser(sig)
      BY <2>1, <3>1, RaiserRaises, JobsAreOne, OwnersDiffer
    <3>3. <<alert'[a].scope, alert'[a].type[1]>> = sig
      BY <1>s, <2>1
    <3>4. Looked[sig] = sample[e][sig]
      BY <3>2 DEF Looked
    <3>5. ShowsSample(e, alert'[a])
      BY <3>1 DEF AddedSampled
    <3> QED
      BY <2>2, <3>3, <3>4, <3>5 DEF ShowsSample, AlertFace
  <2> QED
    BY <2>3, <2>4
<1> QED
  BY <1>1, <1>2

LEMMA PlacedStays == UNCHANGED alert => UNCHANGED Placed
BY DEF Placed, Shown, ActiveIn

LEMMA BoardInit ==
  ASSUME JobsOnly, TypeOK, Init
  PROVE  Board!Init
<1>1. reading \in [Signal -> Level]
  BY DEF TypeOK
<1>2. Looked \in [Signal -> Level]
  BY RaiserRaises DEF Looked, TypeOK
<1>3. ASSUME NEW sig \in Signal PROVE Shown(sig) = {}
  BY DEF Init, Shown, ActiveIn, NoRows, NoRow
<1>4. Placed = [sig \in Signal |-> Blank]
  BY <1>3 DEF Placed
<1> QED
  BY <1>1, <1>2, <1>4 DEF Board!Init

\* A change of what is measured is a move, ...
LEMMA ChangeMoves ==
  ASSUME TypeOK, NEW sig \in Signal, Change(sig)
  PROVE  Board!Next
<1>1. sig[2] \in Category
  BY SignalAssumption
<1>2. PICK level \in Level : reading' = [reading EXCEPT ![sig] = level]
  BY <1>1, LevelsOfType DEF Change
<1>3. UNCHANGED <<Looked, Placed>>
  BY PlacedStays DEF Change, local, table, Looked
<1>4. Board!Move(sig)
  BY <1>2, <1>3 DEF Board!Move
<1> QED
  BY <1>4 DEF Board!Next

\* ... the beginning of a unit a look at the signals the session raises, ...
LEMMA BeginLooks ==
  ASSUME JobsOnly, TypeOK, NEW e \in Session, NEW u \in Unit, Begin(e, u)
  PROVE  Board!Next
<1> DEFINE sigs == {sig \in Signal : Raiser(sig) = e}
<1>1. UNCHANGED <<reading, Placed>>
  BY PlacedStays DEF Begin, table
<1>2. sample' = [sample EXCEPT ![e] = reading]
  BY DEF Begin
<1>3. ASSUME NEW sig \in Signal
      PROVE  sample'[Raiser(sig)][sig] =
               IF sig \in sigs THEN reading[sig] ELSE Looked[sig]
  BY <1>2, RaiserRaises DEF TypeOK, Looked
<1>4. Looked' = [sig \in Signal |-> IF sig \in sigs THEN reading[sig] ELSE Looked[sig]]
  <2>1. Looked' = [sig \in Signal |-> sample'[Raiser(sig)][sig]]
    BY DEF Looked, Raiser
  <2> HIDE DEF sigs
  <2> QED
    BY <1>3, <2>1
<1>5. Board!Look(sigs)
  BY <1>1, <1>4 DEF Board!Look
<1> QED
  BY <1>5 DEF Board!Next

\* ... and everything else publishes, or leaves the board alone.
LEMMA RestPublishes ==
  ASSUME JobsOnly, RowInv, UniqueInv, OneAlertPerCategory', AddedSampled,
         [Next]_vars, UNCHANGED <<reading, sample>>
  PROVE  Board!Next
<1>1. UNCHANGED Looked
  BY DEF Looked, Raiser
<1>2. Placed' = [sig \in Signal |-> Placed'[sig]]
  BY DEF Placed
<1>3. Board!Publish
  BY <1>1, <1>2, PlaceStep DEF Board!Publish
<1> QED
  BY <1>3 DEF Board!Next

LEMMA BoardStep ==
  ASSUME JobsOnly, RowInv, UniqueInv, OneAlertPerCategory', AddedSampled, [Next]_vars
  PROVE  Board!Next
BY Movers, ChangeMoves, BeginLooks, RestPublishes DEF RowInv

\* With one session for each service, the tables, seen through Looked and
\* Placed, take only steps of the AlertBoard: what appears for a signal is what
\* its session sampled last, whatever snapshots, operators, the commit inside
\* dispatch and runs that fail do.
THEOREM BoardImplemented ==
  ASSUME JobsOnly
  PROVE  Spec => ImplementsBoard
<1>1. RowInv /\ Init => Board!Init
  BY BoardInit DEF RowInv
<1>2. RowInv /\ UniqueInv /\ UniqueInv' /\ SampledInv /\ [Next]_vars => [Board!Next]_(Board!vars)
  BY BoardStep DEF UniqueInv, SampledInv
<1>3. Spec => []UniqueInv
  BY JobsAreOne, UniqueInvariant
<1> QED
  BY <1>1, <1>2, <1>3, RowInvariant, SampledInvariant, PTL
     DEF Spec, ImplementsBoard, Board!Spec

-----------------------------------------------------------------------------
(* A cluster that does not answer is skipped.                               *)

\* A unit that still has the platform's alerts to sweep is one of the
\* platform's, and if it is about the cluster, the cluster has answered.
LeftKnown ==
  \A e \in Session : Platform \in left[e] =>
    \/ unit[e][1] = "platform"
    \/ /\ unit[e][1] \in ClusterCategory
       /\ sample[e][<<Platform, unit[e][1]>>] # "unknown"

\* What a session has read of a row is in the table.
SeenStays ==
  \A e \in Session, a \in AlertId : seen[e][a] # NoRow => alert[a] # NoRow

\* What is resolved is a row, and not of a cluster that could not be read.
SkipAt(e, row) ==
  /\ row # NoRow
  /\ LET sig == <<row.scope, row.type[1]>> IN
     sig \in Signal /\ sig[2] \in ClusterCategory => sample[e][sig] # "unknown"

ResolvesKnown == \A e \in Session : \A a \in resolving[e] : SkipAt(e, View(e)[a])

SkipInv == LeftKnown /\ SeenStays /\ ResolvesKnown

\* The platform's scope is swept by the platform's units only, and by a unit
\* of the cluster only if it was answered.
LEMMA ScopesKnown ==
  ASSUME NEW u \in Unit, NEW levels, NEW rows, Platform \in Scopes(u, levels, rows)
  PROVE  \/ u[1] = "platform"
         \/ /\ u[1] \in ClusterCategory
            /\ levels[<<Platform, u[1]>>] # "unknown"
<1>1. CASE u[1] = "security"
  BY <1>1, ClusterAssumption DEF Scopes
<1>2. CASE u[1] \in ClusterCategory
  BY <1>2 DEF Scopes, ClusterCategory
<1>3. CASE u[1] \notin ClusterCategory \cup {"security"}
  <2>1. u[2] = Platform
    BY <1>3 DEF Scopes, ClusterCategory
  <2> QED
    BY <1>3, <2>1, ClusterAssumption DEF Unit, ClusterCategory
<1> QED
  BY <1>1, <1>2, <1>3

LEMMA LeftKnownStep ==
  ASSUME TypeOK, Quiet, LeftKnown, [Next]_vars
  PROVE  LeftKnown'
<1> SUFFICES ASSUME NEW e \in Session, Platform \in left'[e]
             PROVE  \/ unit'[e][1] = "platform"
                    \/ /\ unit'[e][1] \in ClusterCategory
                       /\ sample'[e][<<Platform, unit'[e][1]>>] # "unknown"
  BY DEF LeftKnown
<1>t. /\ DOMAIN left = Session /\ DOMAIN unit = Session /\ DOMAIN sample = Session
      /\ left = [f \in Session |-> left[f]] /\ unit = [f \in Session |-> unit[f]]
      /\ sample = [f \in Session |-> sample[f]]
  BY DEF TypeOK
<1>1. ASSUME Platform \in left[e], unit'[e] = unit[e], sample'[e] = sample[e]
      PROVE  \/ unit'[e][1] = "platform"
             \/ /\ unit'[e][1] \in ClusterCategory
                /\ sample'[e][<<Platform, unit'[e][1]>>] # "unknown"
  BY <1>1 DEF LeftKnown
<1>2. ASSUME NEW f \in Session, NEW u \in Unit, Begin(f, u)
      PROVE  \/ unit'[e][1] = "platform"
             \/ /\ unit'[e][1] \in ClusterCategory
                /\ sample'[e][<<Platform, unit'[e][1]>>] # "unknown"
  <2>1. CASE f = e
    <3>1. unit'[e] = u /\ sample'[e] = reading
          /\ left'[e] = Scopes(u, reading, seen'[e])
      BY <1>2, <1>t, <2>1 DEF Begin
    <3> QED
      BY <3>1, ScopesKnown
  <2>2. CASE f # e
    BY <1>1, <1>2, <1>t, <2>2 DEF Begin
  <2> QED
    BY <2>1, <2>2
<1>3. ASSUME NEW f \in Session, NEW s \in Scope, Sweep(f, s)
      PROVE  Platform \in left[e] /\ unit'[e] = unit[e] /\ sample'[e] = sample[e]
  BY <1>3, <1>t DEF Sweep
<1>4. ASSUME NEW f \in Session, Commit(f)
      PROVE  Platform \in left[e] /\ unit'[e] = unit[e] /\ sample'[e] = sample[e]
  BY <1>4, <1>t DEF Commit
<1>5. ASSUME NEW f \in Session, Fail(f)
      PROVE  Platform \in left[e] /\ unit'[e] = unit[e] /\ sample'[e] = sample[e]
  BY <1>5, <1>t DEF Fail
<1>6. ASSUME UNCHANGED <<left, unit, sample>>
      PROVE  Platform \in left[e] /\ unit'[e] = unit[e] /\ sample'[e] = sample[e]
  BY <1>6
<1> QED
  BY <1>1, <1>2, <1>3, <1>4, <1>5, <1>6 DEF Next, Step, vars, Change, Keep, Raise,
     Deliver, DeliverFirst, DeliverConflict, Abort, OpenSettings, RequestUpdate,
     WriteUpdate, local

\* Rows are never deleted, so what was read is there.
LEMMA SeenStaysStep ==
  ASSUME RowInv, SeenStays, [Next]_vars
  PROVE  SeenStays'
<1> SUFFICES ASSUME NEW e \in Session, NEW a \in AlertId, seen'[e][a] # NoRow
             PROVE  alert'[a] # NoRow
  BY DEF SeenStays
<1>t. seen \in [Session -> [AlertId -> Row \cup {NoRow}]]
  BY DEF RowInv, TypeOK
<1>k. alert[a] # NoRow => alert'[a] # NoRow
  BY RowStep, RowIsARow
<1>1. \/ UNCHANGED seen
      \/ \E f \in Session : seen' = [seen EXCEPT ![f] = alert']
      \/ \E f \in Session : UNCHANGED alert /\ seen' = [seen EXCEPT ![f] = alert]
  <2>1. ASSUME NEW f \in Session, NEW u \in Unit, Begin(f, u)
        PROVE  \/ UNCHANGED seen
               \/ UNCHANGED alert /\ seen' = [seen EXCEPT ![f] = alert]
    BY <2>1, <1>t DEF Begin, table
  <2>2. ASSUME NEW f \in Session, Commit(f) \/ Fail(f) PROVE UNCHANGED seen
    BY <2>2 DEF Commit, Fail
  <2> QED
    BY <2>1, <2>2 DEF Next, Step, vars, Change, Sweep, Keep, Raise, Deliver,
       DeliverFirst, DeliverConflict, Abort, OpenSettings, RequestUpdate, WriteUpdate,
       local
<1> QED
  BY <1>t, <1>k, <1>1 DEF SeenStays

\* What a session has newly decided to resolve.
LEMMA ResolvingStep ==
  ASSUME TypeOK, [Next]_vars, NEW e \in Session, NEW a \in resolving'[e],
         a \notin resolving[e]
  PROVE  \/ \E s \in Scope : Sweep(e, s) /\ a \in Stale(e, s)
         \/ \E cond \in plan[e] : /\ \E n \in AlertId : Raise(e, cond, n)
                                  /\ a \in Existing(e, cond)
<1>t. resolving \in [Session -> SUBSET AlertId]
  BY DEF TypeOK
<1>1. ASSUME NEW f \in Session, NEW s \in Scope, Sweep(f, s)
      PROVE  f = e /\ a \in Stale(e, s)
  BY <1>1, <1>t DEF Sweep
<1>2. ASSUME NEW f \in Session, NEW cond \in plan[f], NEW n \in AlertId, Raise(f, cond, n)
      PROVE  f = e /\ a \in Existing(e, cond)
  BY <1>2, <1>t DEF Raise
<1>3. ASSUME NEW f \in Session, resolving' = [resolving EXCEPT ![f] = {}] PROVE FALSE
  BY <1>3, <1>t
<1>4. ASSUME NEW f \in Session,
             \/ \E p \in ping[f] : DeliverFirst(f, p) \/ DeliverConflict(f, p)
             \/ Commit(f) \/ Abort(f)
      PROVE  FALSE
  BY <1>3, <1>4 DEF DeliverFirst, DeliverConflict, Commit, Abort, Fail, Flushed
<1>5. resolving' # resolving
  BY DEF TypeOK
<1>6. ASSUME NEW f \in Session, Step(f)
      PROVE  \/ \E s \in Scope : Sweep(f, s)
             \/ \E cond \in plan[f], n \in AlertId : Raise(f, cond, n)
  BY <1>4, <1>5, <1>6 DEF Step, Begin, Keep, Deliver, buffers
<1>7. ASSUME NEW o \in Operator, WriteUpdate(o) PROVE FALSE
  BY <1>5, <1>7 DEF WriteUpdate, buffers
<1>8. \E f \in Session : Step(f)
  BY <1>4, <1>5, <1>7 DEF Next, vars, Change, OpenSettings, RequestUpdate, buffers
<1>9. PICK f \in Session : Step(f)
  BY <1>8
<1>10. CASE \E s \in Scope : Sweep(f, s)
  BY <1>1, <1>10
<1>11. CASE \E cond \in plan[f], n \in AlertId : Raise(f, cond, n)
  BY <1>2, <1>11
<1> QED
  BY <1>6, <1>9, <1>10, <1>11

\* What a sweep resolves belongs to a signal that could be read.
LEMMA SweepSkips ==
  ASSUME TypeOK, Quiet, LeftKnown, NEW e \in Session,
         NEW s \in Scope, Sweep(e, s), NEW a \in Stale(e, s)
  PROVE  SkipAt(e, View(e)[a])
<1> DEFINE c == View(e)[a].type[1]
<1>1. /\ View(e)[a].status = "active" /\ View(e)[a].scope = s
      /\ c \in Clears(unit[e][1])
  BY DEF Stale, ActiveIn
<1>2. View(e)[a] # NoRow
  BY <1>1 DEF NoRow
<1>3. ASSUME <<s, c>> \in Signal, c \in ClusterCategory,
             sample[e][<<s, c>>] = "unknown"
      PROVE  FALSE
  <2>1. c \in ClusterCategory
    BY <1>3
  <2>2. s = Platform /\ Platform \in left[e]
    BY <1>3, <2>1, ClusterAssumption DEF Sweep, ClusterCategory
  <2>3. CASE unit[e][1] = "platform"
    BY <1>1, <2>1, <2>3 DEF Clears, Raises, ClusterCategory
  <2>4. CASE /\ unit[e][1] \in ClusterCategory
             /\ sample[e][<<Platform, unit[e][1]>>] # "unknown"
    <3>1. c = unit[e][1]
      BY <1>1, <2>4 DEF Clears, Raises, ClusterCategory
    <3> QED
      BY <1>3, <2>2, <2>4, <3>1
  <2> QED
    BY <2>2, <2>3, <2>4 DEF LeftKnown
<1> QED
  BY <1>1, <1>2, <1>3 DEF SkipAt

\* What a raise resolves belongs to a signal that fires.
LEMMA RaiseSkips ==
  ASSUME TypeOK, PlanSampled, NEW e \in Session, NEW cond \in plan[e],
         NEW a \in Existing(e, cond)
  PROVE  SkipAt(e, View(e)[a])
<1>1. /\ View(e)[a].status = "active" /\ View(e)[a].scope = cond.scope
      /\ View(e)[a].type[1] = cond.cat
  BY DEF Existing, ActiveIn, TypeOf, AlertType
<1>2. View(e)[a] # NoRow
  BY <1>1 DEF NoRow
<1>3. cond.level = sample[e][<<cond.scope, cond.cat>>]
  BY DEF PlanSampled
<1>4. cond.level # "unknown"
  <2>1. plan[e] \subseteq Condition
    BY DEF TypeOK
  <2> QED
    BY <2>1 DEF Condition, Firing
<1> QED
  BY <1>1, <1>2, <1>3, <1>4 DEF SkipAt

\* A row that is resolved keeps its scope and type.
LEMMA ResolvedSame ==
  ASSUME NEW row \in Row \cup {NoRow}, row # NoRow
  PROVE  /\ Resolved(row) # NoRow
         /\ Resolved(row).scope = row.scope /\ Resolved(row).type = row.type
<1>1. row \in Row
  OBVIOUS
<1>2. Resolved(row) = [row EXCEPT !.status = "resolved", !.stamped = TRUE]
  BY <1>1, ResolvedRow
<1>3. Resolved(row) \in Row
  BY <1>1, <1>2, UpdatedRow
<1> QED
  BY <1>1, <1>2, <1>3, RowIsARow DEF Row

\* What a session sees of a row keeps scope and type if neither its snapshot
\* nor what it has flushed changes there.
LEMMA ViewSame ==
  ASSUME TypeOK, NEW e \in Session, NEW a \in AlertId, View(e)[a] # NoRow,
         seen'[e][a] = seen[e][a], adding'[e][a] = adding[e][a]
  PROVE  /\ View(e)'[a] # NoRow
         /\ View(e)'[a].scope = View(e)[a].scope
         /\ View(e)'[a].type = View(e)[a].type
<1> DEFINE row == IF adding[e][a] # NoRow THEN adding[e][a] ELSE seen[e][a]
<1>1. row \in Row \cup {NoRow}
  BY DEF TypeOK
<1>2. /\ View(e)[a] = IF a \in resolving[e] THEN Resolved(row) ELSE row
      /\ View(e)'[a] = IF a \in resolving'[e] THEN Resolved(row) ELSE row
  BY DEF View, Over, Resolved
<1>3. row # NoRow
  BY <1>2 DEF Resolved, NoRow
<1> HIDE DEF row
<1> QED
  BY <1>1, <1>2, <1>3, ResolvedSame

LEMMA ResolvesKnownStep ==
  ASSUME TypeOK, TypeOK', SampledInv, Quiet', SkipInv, [Next]_vars
  PROVE  ResolvesKnown'
<1> USE DEF SampledInv, SkipInv
<1> SUFFICES ASSUME NEW e \in Session, NEW a \in resolving'[e]
             PROVE  SkipAt(e, View(e)[a])'
  BY DEF ResolvesKnown
<1>a. a \in AlertId
  BY DEF TypeOK
<1>1. SkipAt(e, View(e)[a])
  <2>1. CASE a \in resolving[e]
    BY <2>1 DEF ResolvesKnown
  <2>2. CASE a \notin resolving[e]
    BY <2>2, ResolvingStep, SweepSkips, RaiseSkips
  <2> QED
    BY <2>1, <2>2
<1>2. open'[e]
  BY DEF Quiet
<1>3. seen'[e][a] = seen[e][a] /\ adding'[e][a] = adding[e][a]
  <2>1. CASE seen'[e] = seen[e] /\ adding'[e] = adding[e]
    BY <2>1
  <2>2. CASE \E cond \in plan[e], n \in AlertId : Raise(e, cond, n)
    <3>1. PICK cond \in plan[e], n \in AlertId : Raise(e, cond, n)
      BY <2>2
    <3>2. View(e)[n] = NoRow
      <4>1. adding[e][n] = NoRow /\ seen[e][n] = NoRow
        BY <3>1 DEF Raise, NextId, Unused, SeenStays
      <4> QED
        BY <4>1 DEF View, Over, Resolved, NoRow
    <3>3. a # n
      BY <1>1, <3>2 DEF SkipAt
    <3> QED
      BY <1>a, <3>1, <3>3 DEF Raise, TypeOK
  <2> QED
    BY <1>2, <2>1, <2>2, ViewStep
<1>4. sample'[e] = sample[e]
  <2>1. unit[e] = Idle => resolving[e] = {}
    BY DEF Quiet
  <2>2. ASSUME NEW u \in Unit, Begin(e, u), unit[e] = Idle PROVE FALSE
    BY <2>1, <2>2 DEF Begin, buffers
  <2> QED
    BY <2>2, SampleStep
<1>5. /\ View(e)'[a] # NoRow
      /\ View(e)'[a].scope = View(e)[a].scope
      /\ View(e)'[a].type = View(e)[a].type
  BY <1>a, <1>1, <1>3, ViewSame DEF SkipAt
<1> QED
  BY <1>1, <1>4, <1>5 DEF SkipAt

\* A lookup of the cluster that returned None is skipped: no session resolves,
\* in a sweep or for an alert of another tier, what it could not read, whatever
\* it has seen and flushed before.
THEOREM UnknownSkipped == Spec => []UnknownIsSkipped
<1>1. Init => SkipInv
  BY DEF Init, SkipInv, LeftKnown, SeenStays, ResolvesKnown, NoRows
<1>2. RowInv /\ RowInv' /\ SampledInv /\ SampledInv' /\ SkipInv /\ [Next]_vars => SkipInv'
  <2> SUFFICES ASSUME RowInv, RowInv', SampledInv, SampledInv', SkipInv, [Next]_vars
               PROVE  SkipInv'
    OBVIOUS
  <2>1. TypeOK /\ TypeOK' /\ Quiet /\ Quiet'
    BY DEF RowInv, SampledInv
  <2>2. LeftKnown' /\ SeenStays'
    BY <2>1, LeftKnownStep, SeenStaysStep DEF SkipInv
  <2> QED
    BY <2>1, <2>2, ResolvesKnownStep DEF SkipInv
<1>3. SkipInv => UnknownIsSkipped
  BY DEF SkipInv, ResolvesKnown, SkipAt, UnknownIsSkipped
<1> QED
  BY <1>1, <1>2, <1>3, RowInvariant, SampledInvariant, PTL DEF Spec
=============================================================================
