-------------------------- MODULE RequestBrokerProofs --------------------------
(***************************************************************************)
(* Theorems about RequestBroker, and about ApproveCli which extends it,    *)
(* for every set of ids, codes and handlers and for all time limits; at    *)
(* the end, about BrokerDiscovery.                                         *)
(***************************************************************************)
EXTENDS ApproveCli, BrokerDiscovery, TLAPS

USE TTLAssumption, CodeAssumption

(* A deadline one tick nearer is a deadline.                               *)
LEMMA SoonerType == \A t \in Nat : Sooner(t) \in Nat
BY DEF Sooner

(* An absent record is typed.                                              *)
LEMMA GoneType == Gone \in Record
BY DEF Gone, Record, States

(* A new pending record is one (create).                                   *)
LEMMA NewRecordType == \A c \in Codes : NewRecord(c) \in Record
BY DEF NewRecord, Record, States

(* A record whose state changes stays one (approve, deny, sweep).          *)
LEMMA BecomeType == \A rec \in Record, s \in States : Become(rec, s) \in Record
BY DEF Become, Record

(* So does one that gets its result (complete).                            *)
LEMMA CompletedType == \A rec \in Record : Completed(rec) \in Record
BY DEF Completed, Become, Record, States

(* So does one whose result is handed out (deliver).                       *)
LEMMA DeliveredType == \A rec \in Record : [rec EXCEPT !.delivered = TRUE] \in Record
BY DEF Record

(* So does one the sweeper looks at (sweep).                               *)
LEMMA SweptType == \A rec \in Record : Swept(rec) \in Record
BY GoneType DEF Swept, Lapsed, Become, Record, States

(* Time brings the two deadlines of a record nearer and keeps its type.    *)
Older(rec) == [rec EXCEPT !.expires = Sooner(@), !.purge = Sooner(@)]

(* So does one that grows older.                                           *)
LEMMA OlderType == \A rec \in Record : Older(rec) \in Record
BY SoonerType DEF Older, Record

(* The states an approve handler goes through are approver states.         *)
LEMMA ApproverTypes ==
  ASSUME NEW s \in ApproverState, s.pc # "idle"
  PROVE  s.id \in Ids
<1>1. CASE s = IdleApprover
  BY <1>1 DEF IdleApprover
<1>2. CASE s \in [pc: {"checked"}, id: Ids, expected: Codes \cup {NoCode},
                  given: Codes \cup {NoCode}, yes: BOOLEAN]
  BY <1>2
<1>3. CASE s \in [pc: {"approved"}, id: Ids]
  BY <1>3
<1> QED
  BY <1>1, <1>2, <1>3 DEF ApproverState

(* The states a status handler goes through are reader states.             *)
LEMMA ReaderTypes ==
  ASSUME NEW s \in ReaderState, s.pc # "idle"
  PROVE  s \in [pc: {"seen", "took"}, id: Ids, status: States \ {"none"}] /\ s.id \in Ids
BY DEF ReaderState, IdleReader

(* Idle handlers are typed.                                                *)
LEMMA IdleTypes == IdleApprover \in ApproverState /\ IdleReader \in ReaderState
BY DEF ApproverState, ReaderState

(* Logging an event keeps the type of the audit counters.                  *)
LEMMA LogType ==
  ASSUME TypeOK, NEW id \in Ids, NEW e \in Events, Log(id, e)
  PROVE  audit' \in [Ids -> [Events -> Nat]]
BY DEF TypeOK, Log

(* Every step keeps the types, one case per action.                        *)
LEMMA TypeStep == TypeOK /\ [Next]_vars => TypeOK'
<1> SUFFICES ASSUME TypeOK, [Next]_vars
             PROVE  TypeOK'
  OBVIOUS
<1> USE IdleTypes DEF TypeOK
<1>1. ASSUME NEW id \in Ids, Create(id) PROVE TypeOK'
  BY <1>1, NewRecordType DEF Create
<1>2. ASSUME NEW id \in Ids, Announce(id) PROVE TypeOK'
  BY <1>2, LogType DEF Announce, Events
<1>3. ASSUME NEW id \in Ids, Deny(id) \/ DenyTooLate(id) PROVE TypeOK'
  <2>1. Become(store[id], "denied") \in Record /\ Become(store[id], "expired") \in Record
    BY BecomeType DEF States
  <2> QED
    BY <1>3, <2>1 DEF Deny, DenyTooLate
<1>4. ASSUME NEW id \in Ids, DenyLog(id) PROVE TypeOK'
  BY <1>4, LogType DEF DenyLog, Events
<1>5. ASSUME NEW a \in Approvers, NEW id \in Ids, NEW given \in Codes \cup {NoCode},
             NEW yes \in BOOLEAN, ApproveCheck(a, id, given, yes)
      PROVE  TypeOK'
  <2>1. store[id].code \in Codes \cup {NoCode}
    BY DEF Record
  <2> QED
    BY <1>5, <2>1 DEF ApproveCheck, ApproverState
<1>6. ASSUME NEW a \in Approvers, NEW id \in Ids, NEW given \in Codes \cup {NoCode},
             ApproveReject(a, id, given)
      PROVE  TypeOK'
  BY <1>6, LogType DEF ApproveReject, Events
<1>7. ASSUME NEW a \in Approvers, ApproveGrant(a) PROVE TypeOK'
  <2>1. approver[a].id \in Ids
    BY <1>7, ApproverTypes DEF ApproveGrant
  <2> QED
    BY <1>7, <2>1, BecomeType DEF ApproveGrant, ApproverState, States
<1>8. ASSUME NEW a \in Approvers, ApproveRefuse(a) PROVE TypeOK'
  <2>1. approver[a].id \in Ids
    BY <1>8, ApproverTypes DEF ApproveRefuse
  <2> QED
    BY <1>8, <2>1, BecomeType DEF ApproveRefuse, States
<1>9. ASSUME NEW a \in Approvers, ApproveSpawn(a) PROVE TypeOK'
  <2>1. approver[a].id \in Ids
    BY <1>9, ApproverTypes DEF ApproveSpawn
  <2> QED
    BY <1>9, <2>1, LogType DEF ApproveSpawn, Events
<1>10. ASSUME NEW r \in Readers, NEW id \in Ids, StatusSee(r, id) PROVE TypeOK'
  <2>1. store[id].state \in States \ {"none"}
    BY <1>10 DEF StatusSee, Record
  <2> QED
    BY <1>10, <2>1 DEF StatusSee, ReaderState
<1>11. ASSUME NEW r \in Readers, StatusTake(r) PROVE TypeOK'
  <2>1. reader[r] \in [pc: {"seen", "took"}, id: Ids, status: States \ {"none"}]
    BY <1>11, ReaderTypes DEF StatusTake
  <2>2. [reader[r] EXCEPT !.pc = "took"] \in ReaderState
    BY <2>1 DEF ReaderState
  <2>3. [store[reader[r].id] EXCEPT !.delivered = TRUE] \in Record
    BY <2>1, DeliveredType
  <2> QED
    BY <1>11, <2>1, <2>2, <2>3 DEF StatusTake
<1>12. ASSUME NEW r \in Readers, StatusAnswer(r) PROVE TypeOK'
  BY <1>12 DEF StatusAnswer
<1>13. ASSUME NEW r \in Readers, StatusDeliver(r) PROVE TypeOK'
  <2>1. reader[r].id \in Ids
    BY <1>13, ReaderTypes DEF StatusDeliver
  <2> QED
    BY <1>13, <2>1, LogType DEF StatusDeliver, Events
<1>14. ASSUME NEW id \in Ids, WorkReport(id) PROVE TypeOK'
  BY <1>14, LogType DEF WorkReport, Events
<1>15. ASSUME NEW id \in Ids, WorkComplete(id) PROVE TypeOK'
  BY <1>15, CompletedType DEF WorkComplete
<1>16. ASSUME NEW id \in Ids, SweepLog(id) PROVE TypeOK'
  BY <1>16, LogType DEF SweepLog, Events
<1>17. ASSUME Sweep PROVE TypeOK'
  BY <1>17, SweptType DEF Sweep
<1>18. ASSUME Tick PROVE TypeOK'
  BY <1>18, SoonerType, OlderType DEF Tick, Older
<1>19. ASSUME Restart PROVE TypeOK'
  BY <1>19, GoneType DEF Restart
<1>20. CASE UNCHANGED vars
  BY <1>20 DEF vars
<1> HIDE IdleTypes DEF TypeOK
<1> QED
  BY <1>1, <1>2, <1>3, <1>4, <1>5, <1>6, <1>7, <1>8, <1>9, <1>10, <1>11, <1>12, <1>13,
     <1>14, <1>15, <1>16, <1>17, <1>18, <1>19, <1>20
     DEF Next, RequestNext, ApproveNext, StatusNext, DaemonNext

(* The initial state is typed.                                             *)
LEMMA TypeInit == Init => TypeOK
BY GoneType, IdleTypes DEF Init, TypeOK

(* Every reachable state is well typed.                                    *)
THEOREM TypeCorrect == Spec => []TypeOK
BY TypeInit, TypeStep, PTL DEF Spec

-----------------------------------------------------------------------------
(* What the table operators do to the state of a record.                   *)

(* A state change keeps purge_at and drops code and deadline.              *)
LEMMA BecomeState ==
  ASSUME NEW rec \in Record, NEW s \in States
  PROVE  /\ Become(rec, s).state = s
         /\ Become(rec, s).purge = rec.purge
         /\ Become(rec, s).delivered = rec.delivered
BY DEF Become, Record

(* What complete leaves in the table is an undelivered result.             *)
LEMMA CompletedState ==
  ASSUME NEW rec \in Record
  PROVE  Completed(rec).state = "completed" /\ ~Completed(rec).delivered
BY DEF Completed, Become, Record

(* A sweep expires, drops or keeps a record, and completes none.           *)
LEMMA SweptState ==
  ASSUME NEW rec \in Record
  PROVE  /\ Lapsed(rec) => Swept(rec).state = "expired"
         /\ ~Lapsed(rec) => Swept(rec) \in {rec, Gone}
         /\ Swept(rec).state = "executing" => Swept(rec) = rec
BY DEF Swept, Lapsed, Become, Gone, Record, Purgeable

(* The passing of time changes deadlines only.                             *)
LEMMA OlderState ==
  ASSUME NEW rec \in Record
  PROVE  /\ Older(rec).state = rec.state
         /\ Older(rec).delivered = rec.delivered
         /\ Older(rec).expires = Sooner(rec.expires)
         /\ Older(rec).purge = Sooner(rec.purge)
BY DEF Older, Record

(* An audit event changes one counter of one request.                      *)
LEMMA LogEffect ==
  ASSUME TypeOK, NEW id \in Ids, NEW e \in Events, Log(id, e)
  PROVE  /\ \A y \in Ids, f \in Events : ~(y = id /\ f = e) => audit'[y][f] = audit[y][f]
         /\ audit'[id][e] = audit[id][e] + 1
         /\ \A y \in Ids, f \in Events : audit[y][f] \in Nat
BY DEF TypeOK, Log

(* No step lets a request be decided twice.                                *)
LEMMA FateStep ==
  ASSUME TypeOK, TypeOK', [Next]_vars, \A id \in Ids : Fate(id) /\ Execution(id),
         NEW x \in Ids
  PROVE  Fate(x)'
<1> USE DEF TypeOK, Fate, Undecided, Granting
<1>1. ASSUME NEW id \in Ids, Create(id) PROVE Fate(x)'
  BY <1>1 DEF Create, NewRecord
<1>2. ASSUME NEW id \in Ids, Announce(id) PROVE Fate(x)'
  <2>1. Log(id, "requested")
    BY <1>2 DEF Announce
  <2>2. \A f \in {"approved", "denied", "expired"} : audit'[x][f] = audit[x][f]
    BY <2>1, LogEffect DEF Events
  <2>3. UNCHANGED <<store, drawn, approver, denying, sweeping, work>>
    BY <1>2 DEF Announce
  <2> QED
    BY <2>1, <2>2, <2>3
<1>3. ASSUME NEW id \in Ids, Deny(id) PROVE Fate(x)'
  <2>1. store' = [store EXCEPT ![id] = Become(store[id], "denied")]
    BY <1>3 DEF Deny
  <2>2. store'[id].state = "denied" /\ store[id].state = "pending" /\ id \in drawn
    BY <1>3, <2>1, BecomeState DEF Deny, Open, States, Gone
  <2> QED
    BY <1>3, <2>1, <2>2 DEF Deny
<1>4. ASSUME NEW id \in Ids, DenyTooLate(id) PROVE Fate(x)'
  <2>1. store' = [store EXCEPT ![id] = Become(store[id], "expired")]
    BY <1>4 DEF DenyTooLate
  <2>2. store'[id].state = "expired" /\ id \in drawn
    BY <1>4, <2>1, BecomeState DEF DenyTooLate, Lapsed, States, Gone
  <2> QED
    BY <1>4, <2>1, <2>2 DEF DenyTooLate
<1>5. ASSUME NEW id \in Ids, DenyLog(id) PROVE Fate(x)'
  <2>1. Log(id, "denied")
    BY <1>5 DEF DenyLog
  <2>2. /\ audit'[x]["approved"] = audit[x]["approved"] /\ audit'[x]["expired"] = audit[x]["expired"]
        /\ x # id => audit'[x]["denied"] = audit[x]["denied"]
        /\ x = id => audit'[x]["denied"] = audit[x]["denied"] + 1
    BY <2>1, LogEffect DEF Events
  <2>3. UNCHANGED <<store, drawn, approver, sweeping, work>> /\ id \in denying /\ denying' = denying \ {id}
    BY <1>5 DEF DenyLog
  <2> QED
    BY <2>1, <2>2, <2>3
<1>6. ASSUME NEW a \in Approvers, NEW id \in Ids, NEW given \in Codes \cup {NoCode},
             NEW yes \in BOOLEAN, ApproveCheck(a, id, given, yes)
      PROVE  Fate(x)'
  BY <1>6 DEF ApproveCheck
<1>7. ASSUME NEW a \in Approvers, NEW id \in Ids, NEW given \in Codes \cup {NoCode},
             ApproveReject(a, id, given)
      PROVE  Fate(x)'
  <2>1. Log(id, "rejected")
    BY <1>7 DEF ApproveReject
  <2>2. \A f \in {"approved", "denied", "expired"} : audit'[x][f] = audit[x][f]
    BY <2>1, LogEffect DEF Events
  <2>3. UNCHANGED <<store, drawn, approver, denying, sweeping, work>>
    BY <1>7 DEF ApproveReject
  <2> QED
    BY <2>1, <2>2, <2>3
<1>8. ASSUME NEW a \in Approvers, ApproveGrant(a) PROVE Fate(x)'
  <2> DEFINE id == approver[a].id
  <2>1. id \in Ids
    BY <1>8, ApproverTypes DEF ApproveGrant
  <2>2. store' = [store EXCEPT ![id] = Become(store[id], "executing")]
    BY <1>8 DEF ApproveGrant
  <2>3. store'[id].state = "executing" /\ store[id].state = "pending" /\ id \in drawn
    BY <1>8, <2>1, <2>2, BecomeState DEF ApproveGrant, Open, States, Gone
  <2>4. approver' = [approver EXCEPT ![a] = [pc |-> "approved", id |-> id]]
    BY <1>8 DEF ApproveGrant
  <2> HIDE DEF id
  <2> QED
    BY <1>8, <2>1, <2>2, <2>3, <2>4 DEF ApproveGrant
<1>9. ASSUME NEW a \in Approvers, ApproveRefuse(a) PROVE Fate(x)'
  <2> DEFINE id == approver[a].id
  <2>1. id \in Ids
    BY <1>9, ApproverTypes DEF ApproveRefuse
  <2>2. CASE Lapsed(store[id])
    <3>1. store' = [store EXCEPT ![id] = Become(store[id], "expired")]
      BY <1>9, <2>2 DEF ApproveRefuse
    <3>2. store'[id].state = "expired" /\ id \in drawn
      BY <2>1, <2>2, <3>1, BecomeState DEF Lapsed, States, Gone
    <3> QED
      BY <1>9, <2>1, <3>1, <3>2 DEF ApproveRefuse, IdleApprover
  <2>3. CASE ~Lapsed(store[id])
    <3>1. store' = store
      BY <1>9, <2>1, <2>3 DEF ApproveRefuse
    <3> QED
      BY <1>9, <3>1 DEF ApproveRefuse, IdleApprover
  <2> QED
    BY <2>2, <2>3
<1>10. ASSUME NEW a \in Approvers, ApproveSpawn(a) PROVE Fate(x)'
  <2> DEFINE id == approver[a].id
  <2>1. id \in Ids
    BY <1>10, ApproverTypes DEF ApproveSpawn
  <2>2. Granting(a, id) /\ Undecided(id)
    BY <1>10, <2>1 DEF ApproveSpawn
  <2>3. Log(id, "approved")
    BY <1>10 DEF ApproveSpawn
  <2>4. work' = [work EXCEPT ![id] = "running"] /\ approver' = [approver EXCEPT ![a] = IdleApprover]
    BY <1>10 DEF ApproveSpawn
  <2>5. /\ audit'[x]["denied"] = audit[x]["denied"] /\ audit'[x]["expired"] = audit[x]["expired"]
        /\ x # id => audit'[x]["approved"] = audit[x]["approved"]
        /\ x = id => audit'[x]["approved"] = audit[x]["approved"] + 1
    BY <2>1, <2>3, LogEffect DEF Events
  <2>6. UNCHANGED <<store, drawn, denying, sweeping>>
    BY <1>10 DEF ApproveSpawn
  <2> HIDE DEF id
  <2> QED
    BY <2>1, <2>2, <2>4, <2>5, <2>6 DEF IdleApprover
<1>11. ASSUME NEW r \in Readers, NEW id \in Ids, StatusSee(r, id) PROVE Fate(x)'
  BY <1>11 DEF StatusSee
<1>12. ASSUME NEW r \in Readers, StatusTake(r) PROVE Fate(x)'
  <2>1. reader[r].id \in Ids
    BY <1>12, ReaderTypes DEF StatusTake
  <2>2. store'[x].state = store[x].state
    BY <1>12, <2>1 DEF StatusTake, Record
  <2> QED
    BY <1>12, <2>2 DEF StatusTake
<1>13. ASSUME NEW r \in Readers, StatusAnswer(r) PROVE Fate(x)'
  BY <1>13 DEF StatusAnswer
<1>14. ASSUME NEW r \in Readers, StatusDeliver(r) PROVE Fate(x)'
  <2>1. reader[r].id \in Ids /\ Log(reader[r].id, "delivered")
    BY <1>14, ReaderTypes DEF StatusDeliver
  <2>2. \A f \in {"approved", "denied", "expired"} : audit'[x][f] = audit[x][f]
    BY <2>1, LogEffect DEF Events
  <2>3. UNCHANGED <<store, drawn, approver, denying, sweeping, work>>
    BY <1>14 DEF StatusDeliver
  <2> QED
    BY <2>1, <2>2, <2>3
<1>15. ASSUME NEW id \in Ids, WorkReport(id) PROVE Fate(x)'
  <2>1. Log(id, "executed")
    BY <1>15 DEF WorkReport
  <2>2. \A f \in {"approved", "denied", "expired"} : audit'[x][f] = audit[x][f]
    BY <2>1, LogEffect DEF Events
  <2>3. UNCHANGED <<store, drawn, approver, denying, sweeping>> /\ work[id] = "running" /\ work' = [work EXCEPT ![id] = "reported"]
    BY <1>15 DEF WorkReport
  <2> QED
    BY <2>1, <2>2, <2>3
<1>16. ASSUME NEW id \in Ids, WorkComplete(id) PROVE Fate(x)'
  <2>1. id \in drawn /\ store[id].state # "pending"
    BY <1>16 DEF WorkComplete
  <2>2. store'[id].state \in {"none", "completed"}
    BY <1>16, CompletedState DEF WorkComplete
  <2> QED
    BY <1>16, <2>1, <2>2 DEF WorkComplete
<1>17. ASSUME NEW id \in Ids, SweepLog(id) PROVE Fate(x)'
  <2>1. Log(id, "expired")
    BY <1>17 DEF SweepLog
  <2>2. /\ audit'[x]["approved"] = audit[x]["approved"] /\ audit'[x]["denied"] = audit[x]["denied"]
        /\ x # id => audit'[x]["expired"] = audit[x]["expired"]
        /\ x = id => audit'[x]["expired"] = audit[x]["expired"] + 1
    BY <2>1, LogEffect DEF Events
  <2>3. UNCHANGED <<store, drawn, approver, denying, work>> /\ id \in sweeping /\ sweeping' = sweeping \ {id}
    BY <1>17 DEF SweepLog
  <2> QED
    BY <2>1, <2>2, <2>3
<1>18. ASSUME Sweep PROVE Fate(x)'
  <2>1. store'[x] = Swept(store[x])
    BY <1>18 DEF Sweep
  <2>2. store'[x].state = "pending" => store'[x] = store[x]
    <3>1. Swept(store[x]) = store[x] \/ Swept(store[x]) = Gone \/ Swept(store[x]).state = "expired"
      BY SweptState
    <3> QED
      BY <2>1, <3>1 DEF Gone
  <2>3. Lapsed(store[x]) => Undecided(x) /\ x \notin denying /\ x \in drawn /\ \A a \in Approvers : ~Granting(a, x)
    BY DEF Lapsed, Gone
  <2>4. Lapsed(store[x]) => store'[x].state = "expired"
    BY <2>1, SweptState
  <2>5. x \notin drawn => store'[x].state = "none"
    BY <2>1, <2>3, SweptState DEF Gone
  <2>6. UNCHANGED <<drawn, approver, denying, work, audit>>
    BY <1>18 DEF Sweep
  <2>7. sweeping = {} /\ (x \in sweeping' <=> Lapsed(store[x]))
    BY <1>18 DEF Sweep
  <2>8. CASE Lapsed(store[x])
    BY <2>2, <2>3, <2>4, <2>5, <2>6, <2>7, <2>8
  <2>9. CASE ~Lapsed(store[x])
    BY <2>2, <2>5, <2>6, <2>7, <2>9
  <2> QED
    BY <2>8, <2>9
<1>19. ASSUME Tick PROVE Fate(x)'
  <2>1. store'[x] = Older(store[x])
    BY <1>19 DEF Tick, Older
  <2>2. store'[x].state = store[x].state
    BY <2>1, OlderState
  <2>3. UNCHANGED <<drawn, approver, denying, sweeping, work, audit>>
    BY <1>19 DEF Tick
  <2> QED
    BY <2>2, <2>3
<1>20. ASSUME Restart PROVE Fate(x)'
  BY <1>20 DEF Restart, Gone, IdleApprover
<1>21. CASE UNCHANGED vars
  BY <1>21 DEF vars
<1> HIDE DEF TypeOK, Fate
<1> QED
  BY <1>1, <1>2, <1>3, <1>4, <1>5, <1>6, <1>7, <1>8, <1>9, <1>10, <1>11, <1>12, <1>13,
     <1>14, <1>15, <1>16, <1>17, <1>18, <1>19, <1>20, <1>21
     DEF Next, RequestNext, ApproveNext, StatusNext, DaemonNext

(* No step lets the execution and its events get out of step.              *)
LEMMA ExecutionStep ==
  ASSUME TypeOK, TypeOK', [Next]_vars, \A id \in Ids : Fate(id) /\ Execution(id),
         NEW x \in Ids
  PROVE  Execution(x)'
<1> USE DEF TypeOK, Execution, InFlight, Granting
<1>1. ASSUME NEW id \in Ids, Create(id) PROVE Execution(x)'
  BY <1>1 DEF Create, NewRecord
<1>2. ASSUME NEW id \in Ids, Announce(id) PROVE Execution(x)'
  <2>1. Log(id, "requested")
    BY <1>2 DEF Announce
  <2>2. \A f \in {"approved", "executed"} : audit'[x][f] = audit[x][f]
    BY <2>1, LogEffect DEF Events
  <2>3. UNCHANGED <<store, approver, work>>
    BY <1>2 DEF Announce
  <2> QED
    BY <2>2, <2>3
<1>3. ASSUME NEW id \in Ids, Deny(id) PROVE Execution(x)'
  <2>1. store' = [store EXCEPT ![id] = Become(store[id], "denied")]
    BY <1>3 DEF Deny
  <2>2. store'[id].state = "denied"
    BY <2>1, BecomeState DEF States
  <2>3. UNCHANGED <<approver, work, audit>>
    BY <1>3 DEF Deny
  <2> QED
    BY <2>1, <2>2, <2>3
<1>4. ASSUME NEW id \in Ids, DenyTooLate(id) PROVE Execution(x)'
  <2>1. store' = [store EXCEPT ![id] = Become(store[id], "expired")]
    BY <1>4 DEF DenyTooLate
  <2>2. store'[id].state = "expired"
    BY <2>1, BecomeState DEF States
  <2>3. UNCHANGED <<approver, work, audit>>
    BY <1>4 DEF DenyTooLate
  <2> QED
    BY <2>1, <2>2, <2>3
<1>5. ASSUME NEW id \in Ids, DenyLog(id) PROVE Execution(x)'
  <2>1. Log(id, "denied")
    BY <1>5 DEF DenyLog
  <2>2. \A f \in {"approved", "executed"} : audit'[x][f] = audit[x][f]
    BY <2>1, LogEffect DEF Events
  <2>3. UNCHANGED <<store, approver, work>>
    BY <1>5 DEF DenyLog
  <2> QED
    BY <2>2, <2>3
<1>6. ASSUME NEW a \in Approvers, NEW id \in Ids, NEW given \in Codes \cup {NoCode},
             NEW yes \in BOOLEAN, ApproveCheck(a, id, given, yes)
      PROVE  Execution(x)'
  BY <1>6 DEF ApproveCheck
<1>7. ASSUME NEW a \in Approvers, NEW id \in Ids, NEW given \in Codes \cup {NoCode}, ApproveReject(a, id, given) PROVE Execution(x)'
  <2>1. Log(id, "rejected")
    BY <1>7 DEF ApproveReject
  <2>2. \A f \in {"approved", "executed"} : audit'[x][f] = audit[x][f]
    BY <2>1, LogEffect DEF Events
  <2>3. UNCHANGED <<store, approver, work>>
    BY <1>7 DEF ApproveReject
  <2> QED
    BY <2>2, <2>3
<1>8. ASSUME NEW a \in Approvers, ApproveGrant(a) PROVE Execution(x)'
  <2> DEFINE id == approver[a].id
  <2>1. id \in Ids
    BY <1>8, ApproverTypes DEF ApproveGrant
  <2>2. store' = [store EXCEPT ![id] = Become(store[id], "executing")]
    BY <1>8 DEF ApproveGrant
  <2>3. store'[id].state = "executing"
    BY <2>1, <2>2, BecomeState DEF States
  <2>4. approver' = [approver EXCEPT ![a] = [pc |-> "approved", id |-> id]] /\ approver[a].pc = "checked"
    BY <1>8 DEF ApproveGrant
  <2>5. UNCHANGED <<work, audit>>
    BY <1>8 DEF ApproveGrant
  <2> HIDE DEF id
  <2> QED
    BY <2>1, <2>2, <2>3, <2>4, <2>5
<1>9. ASSUME NEW a \in Approvers, ApproveRefuse(a) PROVE Execution(x)'
  <2> DEFINE id == approver[a].id
  <2>1. id \in Ids
    BY <1>9, ApproverTypes DEF ApproveRefuse
  <2>2. store'[x].state = store[x].state \/ store'[x].state = "expired"
    BY <1>9, <2>1, BecomeState DEF ApproveRefuse, States
  <2>3. approver' = [approver EXCEPT ![a] = IdleApprover] /\ approver[a].pc = "checked"
    BY <1>9 DEF ApproveRefuse
  <2>4. UNCHANGED <<work, audit>>
    BY <1>9 DEF ApproveRefuse
  <2> HIDE DEF id
  <2> QED
    BY <2>2, <2>3, <2>4
<1>10. ASSUME NEW a \in Approvers, ApproveSpawn(a) PROVE Execution(x)'
  <2> DEFINE id == approver[a].id
  <2>1. id \in Ids
    BY <1>10, ApproverTypes DEF ApproveSpawn
  <2>2. Granting(a, id) /\ Undecided(id)
    BY <1>10, <2>1 DEF ApproveSpawn, Fate
  <2>3. Log(id, "approved")
    BY <1>10 DEF ApproveSpawn
  <2>4. work' = [work EXCEPT ![id] = "running"] /\ approver' = [approver EXCEPT ![a] = IdleApprover]
    BY <1>10 DEF ApproveSpawn
  <2>5. /\ audit'[x]["executed"] = audit[x]["executed"]
        /\ x # id => audit'[x]["approved"] = audit[x]["approved"]
        /\ x = id => audit'[x]["approved"] = audit[x]["approved"] + 1
    BY <2>1, <2>3, LogEffect DEF Events
  <2>6. UNCHANGED store
    BY <1>10 DEF ApproveSpawn
  <2> HIDE DEF id
  <2>7. CASE x = id
    BY <2>1, <2>2, <2>4, <2>5, <2>6, <2>7 DEF Undecided
  <2>8. CASE x # id
    BY <2>1, <2>2, <2>4, <2>5, <2>6, <2>8 DEF IdleApprover
  <2> QED
    BY <2>7, <2>8
<1>11. ASSUME NEW r \in Readers, NEW id \in Ids, StatusSee(r, id) PROVE Execution(x)'
  BY <1>11 DEF StatusSee
<1>12. ASSUME NEW r \in Readers, StatusTake(r) PROVE Execution(x)'
  <2>1. reader[r].id \in Ids
    BY <1>12, ReaderTypes DEF StatusTake
  <2>2. store'[x].state = store[x].state
    BY <1>12, <2>1 DEF StatusTake, Record
  <2>3. UNCHANGED <<approver, work, audit>>
    BY <1>12 DEF StatusTake
  <2> QED
    BY <2>2, <2>3
<1>13. ASSUME NEW r \in Readers, StatusAnswer(r) PROVE Execution(x)'
  BY <1>13 DEF StatusAnswer
<1>14. ASSUME NEW r \in Readers, StatusDeliver(r) PROVE Execution(x)'
  <2>1. reader[r].id \in Ids /\ Log(reader[r].id, "delivered")
    BY <1>14, ReaderTypes DEF StatusDeliver
  <2>2. \A f \in {"approved", "executed"} : audit'[x][f] = audit[x][f]
    BY <2>1, LogEffect DEF Events
  <2>3. UNCHANGED <<store, approver, work>>
    BY <1>14 DEF StatusDeliver
  <2> QED
    BY <2>2, <2>3
<1>15. ASSUME NEW id \in Ids, WorkReport(id) PROVE Execution(x)'
  <2>1. Log(id, "executed")
    BY <1>15 DEF WorkReport
  <2>2. /\ audit'[x]["approved"] = audit[x]["approved"]
        /\ x # id => audit'[x]["executed"] = audit[x]["executed"]
        /\ x = id => audit'[x]["executed"] = audit[x]["executed"] + 1
    BY <2>1, LogEffect DEF Events
  <2>3. UNCHANGED <<store, approver>> /\ work[id] = "running" /\ work' = [work EXCEPT ![id] = "reported"]
    BY <1>15 DEF WorkReport
  <2> QED
    BY <2>2, <2>3
<1>16. ASSUME NEW id \in Ids, WorkComplete(id) PROVE Execution(x)'
  <2>1. store'[id].state \in {"none", "completed"}
    BY <1>16, CompletedState DEF WorkComplete
  <2>2. /\ UNCHANGED <<approver, audit>>
        /\ work[id] = "reported" /\ work' = [work EXCEPT ![id] = "done"]
        /\ x # id => store'[x] = store[x]
    BY <1>16 DEF WorkComplete
  <2> QED
    BY <2>1, <2>2
<1>17. ASSUME NEW id \in Ids, SweepLog(id) PROVE Execution(x)'
  <2>1. Log(id, "expired")
    BY <1>17 DEF SweepLog
  <2>2. \A f \in {"approved", "executed"} : audit'[x][f] = audit[x][f]
    BY <2>1, LogEffect DEF Events
  <2>3. UNCHANGED <<store, approver, work>>
    BY <1>17 DEF SweepLog
  <2> QED
    BY <2>2, <2>3
<1>18. ASSUME Sweep PROVE Execution(x)'
  <2>1. store'[x] = Swept(store[x])
    BY <1>18 DEF Sweep
  <2>2. store'[x].state = store[x].state \/ store'[x].state \in {"none", "expired"}
    BY <2>1, SweptState DEF Gone
  <2>3. UNCHANGED <<approver, work, audit>>
    BY <1>18 DEF Sweep
  <2> QED
    BY <2>2, <2>3
<1>19. ASSUME Tick PROVE Execution(x)'
  <2>1. store'[x] = Older(store[x])
    BY <1>19 DEF Tick, Older
  <2>2. store'[x].state = store[x].state
    BY <2>1, OlderState
  <2>3. UNCHANGED <<approver, work, audit>>
    BY <1>19 DEF Tick
  <2> QED
    BY <2>2, <2>3
<1>20. ASSUME Restart PROVE Execution(x)'
  BY <1>20 DEF Restart, Gone
<1>21. CASE UNCHANGED vars
  BY <1>21 DEF vars
<1> HIDE DEF TypeOK, Execution
<1> QED
  BY <1>1, <1>2, <1>3, <1>4, <1>5, <1>6, <1>7, <1>8, <1>9, <1>10, <1>11, <1>12, <1>13,
     <1>14, <1>15, <1>16, <1>17, <1>18, <1>19, <1>20, <1>21
     DEF Next, RequestNext, ApproveNext, StatusNext, DaemonNext

(* A step that hands out no result and produces none keeps Delivery.       *)
LEMMA DeliveryQuiet ==
  ASSUME NEW x \in Ids, Delivery(x),
         Deliverable(store'[x]) => Deliverable(store[x]),
         reader' = reader,
         audit'[x]["delivered"] = audit[x]["delivered"],
         work[x] = "done" => work'[x] = "done"
  PROVE  Delivery(x)'
BY DEF Delivery, Took

(* No step puts a result in two places.                                    *)
LEMMA DeliveryStep ==
  ASSUME TypeOK, TypeOK', [Next]_vars,
         \A id \in Ids : Fate(id) /\ Execution(id) /\ Delivery(id),
         NEW x \in Ids
  PROVE  Delivery(x)'
<1> USE DEF TypeOK
<1>1. ASSUME NEW id \in Ids, Create(id) PROVE Delivery(x)'
  <2>1. ~Deliverable(store'[id]) /\ (x # id => store'[x] = store[x])
    BY <1>1 DEF Create, NewRecord, Deliverable
  <2>2. UNCHANGED <<reader, work, audit>>
    BY <1>1 DEF Create
  <2> QED
    BY <2>1, <2>2, DeliveryQuiet
<1>2. ASSUME NEW id \in Ids, Announce(id) PROVE Delivery(x)'
  <2>1. Log(id, "requested")
    BY <1>2 DEF Announce
  <2>2. audit'[x]["delivered"] = audit[x]["delivered"]
    BY <2>1, LogEffect DEF Events
  <2>3. UNCHANGED <<store, reader, work>>
    BY <1>2 DEF Announce
  <2> QED
    BY <2>2, <2>3, DeliveryQuiet
<1>3. ASSUME NEW id \in Ids, Deny(id) PROVE Delivery(x)'
  <2>1. store' = [store EXCEPT ![id] = Become(store[id], "denied")]
    BY <1>3 DEF Deny
  <2>2. ~Deliverable(store'[id]) /\ (x # id => store'[x] = store[x])
    BY <2>1, BecomeState DEF States, Deliverable
  <2>3. UNCHANGED <<reader, work, audit>>
    BY <1>3 DEF Deny
  <2> QED
    BY <2>2, <2>3, DeliveryQuiet
<1>4. ASSUME NEW id \in Ids, DenyTooLate(id) PROVE Delivery(x)'
  <2>1. store' = [store EXCEPT ![id] = Become(store[id], "expired")]
    BY <1>4 DEF DenyTooLate
  <2>2. ~Deliverable(store'[id]) /\ (x # id => store'[x] = store[x])
    BY <2>1, BecomeState DEF States, Deliverable
  <2>3. UNCHANGED <<reader, work, audit>>
    BY <1>4 DEF DenyTooLate
  <2> QED
    BY <2>2, <2>3, DeliveryQuiet
<1>5. ASSUME NEW id \in Ids, DenyLog(id) PROVE Delivery(x)'
  <2>1. Log(id, "denied")
    BY <1>5 DEF DenyLog
  <2>2. audit'[x]["delivered"] = audit[x]["delivered"]
    BY <2>1, LogEffect DEF Events
  <2>3. UNCHANGED <<store, reader, work>>
    BY <1>5 DEF DenyLog
  <2> QED
    BY <2>2, <2>3, DeliveryQuiet
<1>6. ASSUME NEW a \in Approvers, NEW id \in Ids, NEW given \in Codes \cup {NoCode},
             NEW yes \in BOOLEAN, ApproveCheck(a, id, given, yes)
      PROVE  Delivery(x)'
  BY <1>6, DeliveryQuiet DEF ApproveCheck
<1>7. ASSUME NEW a \in Approvers, NEW id \in Ids, NEW given \in Codes \cup {NoCode},
             ApproveReject(a, id, given)
      PROVE  Delivery(x)'
  <2>1. Log(id, "rejected")
    BY <1>7 DEF ApproveReject
  <2>2. audit'[x]["delivered"] = audit[x]["delivered"]
    BY <2>1, LogEffect DEF Events
  <2>3. UNCHANGED <<store, reader, work>>
    BY <1>7 DEF ApproveReject
  <2> QED
    BY <2>2, <2>3, DeliveryQuiet
<1>8. ASSUME NEW a \in Approvers, ApproveGrant(a) PROVE Delivery(x)'
  <2> DEFINE id == approver[a].id
  <2>1. id \in Ids
    BY <1>8, ApproverTypes DEF ApproveGrant
  <2>2. store' = [store EXCEPT ![id] = Become(store[id], "executing")]
    BY <1>8 DEF ApproveGrant
  <2>3. ~Deliverable(store'[id]) /\ (x # id => store'[x] = store[x])
    BY <2>1, <2>2, BecomeState DEF States, Deliverable
  <2>4. UNCHANGED <<reader, work, audit>>
    BY <1>8 DEF ApproveGrant
  <2> QED
    BY <2>3, <2>4, DeliveryQuiet
<1>9. ASSUME NEW a \in Approvers, ApproveRefuse(a) PROVE Delivery(x)'
  <2>1. approver[a].id \in Ids
    BY <1>9, ApproverTypes DEF ApproveRefuse
  <2>2. store'[x] = store[x] \/ store'[x].state = "expired"
    BY <1>9, <2>1, BecomeState DEF ApproveRefuse, States
  <2>3. UNCHANGED <<reader, work, audit>>
    BY <1>9 DEF ApproveRefuse
  <2> QED
    BY <2>2, <2>3, DeliveryQuiet DEF Deliverable
<1>10. ASSUME NEW a \in Approvers, ApproveSpawn(a) PROVE Delivery(x)'
  <2> DEFINE id == approver[a].id
  <2>1. id \in Ids
    BY <1>10, ApproverTypes DEF ApproveSpawn
  <2>2. work[id] = "none"
    BY <1>10, <2>1 DEF ApproveSpawn, Fate, Granting, Undecided
  <2>3. Log(id, "approved")
    BY <1>10 DEF ApproveSpawn
  <2>4. audit'[x]["delivered"] = audit[x]["delivered"]
    BY <2>1, <2>3, LogEffect DEF Events
  <2>5. work[x] = "done" => work'[x] = "done"
    BY <1>10, <2>1, <2>2 DEF ApproveSpawn
  <2>6. UNCHANGED <<store, reader>>
    BY <1>10 DEF ApproveSpawn
  <2> QED
    BY <2>4, <2>5, <2>6, DeliveryQuiet
<1>11. ASSUME NEW r \in Readers, NEW id \in Ids, StatusSee(r, id) PROVE Delivery(x)'
  BY <1>11 DEF StatusSee, Delivery, Took
<1>12. ASSUME NEW r \in Readers, StatusTake(r) PROVE Delivery(x)'
  <2> DEFINE id == reader[r].id
  <2>1. id \in Ids
    BY <1>12, ReaderTypes DEF StatusTake
  <2>2. store[id].state = "completed" /\ Deliverable(store[id])
    BY <1>12 DEF StatusTake, Deliverable
  <2>3. work[id] = "done" /\ audit[id]["delivered"] = 0 /\ \A s \in Readers : ~Took(s, id)
    BY <2>1, <2>2 DEF Execution, Delivery
  <2>4. ~Deliverable(store'[id]) /\ (x # id => store'[x] = store[x])
    BY <1>12, <2>1 DEF StatusTake, Deliverable, Record
  <2>5. reader' = [reader EXCEPT ![r].pc = "took"] /\ UNCHANGED <<work, audit>>
    BY <1>12 DEF StatusTake
  <2>6. \A s \in Readers, y \in Ids : Took(s, y)' => Took(s, y) \/ (s = r /\ y = id)
    BY <2>5 DEF Took
  <2> HIDE DEF id
  <2>7. CASE x = id
    BY <2>1, <2>3, <2>4, <2>5, <2>6, <2>7 DEF Delivery
  <2>8. CASE x # id
    BY <2>4, <2>5, <2>6, <2>8 DEF Delivery
  <2> QED
    BY <2>7, <2>8
<1>13. ASSUME NEW r \in Readers, StatusAnswer(r) PROVE Delivery(x)'
  BY <1>13 DEF StatusAnswer, Delivery, Took, IdleReader
<1>14. ASSUME NEW r \in Readers, StatusDeliver(r) PROVE Delivery(x)'
  <2> DEFINE id == reader[r].id
  <2>1. id \in Ids /\ Took(r, id)
    BY <1>14, ReaderTypes DEF StatusDeliver, Took
  <2>2. Log(id, "delivered") /\ reader' = [reader EXCEPT ![r] = IdleReader] /\ UNCHANGED <<store, work>>
    BY <1>14 DEF StatusDeliver
  <2>3. /\ x # id => audit'[x]["delivered"] = audit[x]["delivered"]
        /\ x = id => audit'[x]["delivered"] = audit[x]["delivered"] + 1
    BY <2>1, <2>2, LogEffect DEF Events
  <2>4. \A s \in Readers, y \in Ids : Took(s, y)' => Took(s, y) /\ s # r
    BY <2>2 DEF Took, IdleReader
  <2> HIDE DEF id
  <2>5. CASE x = id
    <3>1. audit[x]["delivered"] = 0 /\ work[x] = "done" /\ ~Deliverable(store[x])
      BY <2>1, <2>5 DEF Delivery
    <3>2. \A s \in Readers : ~Took(s, x)'
      BY <2>1, <2>4, <2>5 DEF Delivery
    <3> QED
      BY <2>2, <2>3, <2>5, <3>1, <3>2 DEF Delivery
  <2>6. CASE x # id
    BY <2>2, <2>3, <2>4, <2>6 DEF Delivery
  <2> QED
    BY <2>5, <2>6
<1>15. ASSUME NEW id \in Ids, WorkReport(id) PROVE Delivery(x)'
  <2>1. Log(id, "executed") /\ work[id] = "running" /\ work' = [work EXCEPT ![id] = "reported"]
    BY <1>15 DEF WorkReport
  <2>2. audit'[x]["delivered"] = audit[x]["delivered"]
    BY <2>1, LogEffect DEF Events
  <2>3. UNCHANGED <<store, reader>>
    BY <1>15 DEF WorkReport
  <2> QED
    BY <2>1, <2>2, <2>3 DEF Delivery, Took
<1>16. ASSUME NEW id \in Ids, WorkComplete(id) PROVE Delivery(x)'
  <2>1. /\ UNCHANGED <<reader, audit>>
        /\ work[id] = "reported" /\ work' = [work EXCEPT ![id] = "done"]
        /\ x # id => store'[x] = store[x]
    BY <1>16 DEF WorkComplete
  <2>2. CASE x = id
    <3>1. audit[x]["delivered"] = 0 /\ \A s \in Readers : ~Took(s, x)
      BY <2>1, <2>2 DEF Delivery
    <3> QED
      BY <2>1, <2>2, <3>1 DEF Delivery, Took
  <2>3. CASE x # id
    BY <2>1, <2>3, DeliveryQuiet
  <2> QED
    BY <2>2, <2>3
<1>17. ASSUME NEW id \in Ids, SweepLog(id) PROVE Delivery(x)'
  <2>1. Log(id, "expired")
    BY <1>17 DEF SweepLog
  <2>2. audit'[x]["delivered"] = audit[x]["delivered"]
    BY <2>1, LogEffect DEF Events
  <2>3. UNCHANGED <<store, reader, work>>
    BY <1>17 DEF SweepLog
  <2> QED
    BY <2>2, <2>3, DeliveryQuiet
<1>18. ASSUME Sweep PROVE Delivery(x)'
  <2>1. store'[x] = Swept(store[x])
    BY <1>18 DEF Sweep
  <2>2. store'[x] = store[x] \/ store'[x].state \in {"none", "expired"}
    BY <2>1, SweptState DEF Gone
  <2>3. UNCHANGED <<reader, work, audit>>
    BY <1>18 DEF Sweep
  <2> QED
    BY <2>2, <2>3, DeliveryQuiet DEF Deliverable
<1>19. ASSUME Tick PROVE Delivery(x)'
  <2>1. store'[x] = Older(store[x])
    BY <1>19 DEF Tick, Older
  <2>2. Deliverable(store'[x]) => Deliverable(store[x])
    BY <2>1, OlderState DEF Deliverable
  <2>3. UNCHANGED <<reader, work, audit>>
    BY <1>19 DEF Tick
  <2> QED
    BY <2>2, <2>3, DeliveryQuiet
<1>20. ASSUME Restart PROVE Delivery(x)'
  BY <1>20 DEF Restart, Delivery, Took, Gone, Deliverable, IdleReader
<1>21. CASE UNCHANGED vars
  BY <1>21, DeliveryQuiet DEF vars
<1> HIDE DEF TypeOK
<1> QED
  BY <1>1, <1>2, <1>3, <1>4, <1>5, <1>6, <1>7, <1>8, <1>9, <1>10, <1>11, <1>12, <1>13,
     <1>14, <1>15, <1>16, <1>17, <1>18, <1>19, <1>20, <1>21
     DEF Next, RequestNext, ApproveNext, StatusNext, DaemonNext

(* A step that starts no deadline keeps Timing.                            *)
LEMMA TimingQuiet ==
  ASSUME NEW x \in Ids, Timing(x), left'[x] = left[x],
         store'[x] = store[x] \/ store'[x].state \notin {"pending", "executing"}
  PROVE  Timing(x)'
BY DEF Timing, Open

(* No step breaks the relation of the deadlines to each other.             *)
LEMMA TimingStep ==
  ASSUME TypeOK, TypeOK', [Next]_vars, \A id \in Ids : Execution(id) /\ Timing(id),
         NEW x \in Ids
  PROVE  Timing(x)'
<1> USE DEF TypeOK
<1>1. ASSUME NEW id \in Ids, Create(id) PROVE Timing(x)'
  <2>1. x # id => store'[x] = store[x]
    BY <1>1 DEF Create
  <2>2. /\ store'[id].state = "pending" /\ store'[id].expires = PendingTTL
        /\ store'[id].purge = PendingTTL + ResultTTL
    BY <1>1 DEF Create, NewRecord
  <2>3. left' = left
    BY <1>1 DEF Create
  <2> QED
    BY <2>1, <2>2, <2>3 DEF Timing, Open
<1>2. ASSUME NEW id \in Ids, Deny(id) PROVE Timing(x)'
  <2>1. store' = [store EXCEPT ![id] = Become(store[id], "denied")] /\ left' = left
    BY <1>2 DEF Deny
  <2> QED
    BY <2>1, BecomeState, TimingQuiet DEF States
<1>3. ASSUME NEW id \in Ids, DenyTooLate(id) PROVE Timing(x)'
  <2>1. store' = [store EXCEPT ![id] = Become(store[id], "expired")] /\ left' = left
    BY <1>3 DEF DenyTooLate
  <2> QED
    BY <2>1, BecomeState, TimingQuiet DEF States
<1>4. ASSUME NEW a \in Approvers, ApproveGrant(a) PROVE Timing(x)'
  <2> DEFINE id == approver[a].id
  <2>1. id \in Ids
    BY <1>4, ApproverTypes DEF ApproveGrant
  <2>2. store' = [store EXCEPT ![id] = Become(store[id], "executing")] /\ left' = [left EXCEPT ![id] = RunLimit]
    BY <1>4 DEF ApproveGrant
  <2>3. Open(store[id])
    BY <1>4 DEF ApproveGrant
  <2> HIDE DEF id
  <2>4. store'[id].state = "executing" /\ store'[id].purge = store[id].purge /\ left'[id] = RunLimit
    BY <2>1, <2>2, BecomeState DEF States
  <2>5. store[id].expires \in Nat /\ store[id].purge \in Nat
    BY <2>1 DEF Record
  <2>6. store[id].purge >= ResultTTL + 1
    BY <2>1, <2>3, <2>5 DEF Timing, Open
  <2>7. CASE x = id
    BY <2>4, <2>5, <2>6, <2>7 DEF Timing, Open
  <2>8. CASE x # id
    BY <2>2, <2>8, TimingQuiet
  <2> QED
    BY <2>7, <2>8
<1>5. ASSUME NEW a \in Approvers, ApproveRefuse(a) PROVE Timing(x)'
  <2>1. approver[a].id \in Ids
    BY <1>5, ApproverTypes DEF ApproveRefuse
  <2>2. store'[x] = store[x] \/ store'[x].state = "expired"
    BY <1>5, <2>1, BecomeState DEF ApproveRefuse, States
  <2>3. left' = left
    BY <1>5 DEF ApproveRefuse
  <2> QED
    BY <2>2, <2>3, TimingQuiet
<1>6. ASSUME NEW r \in Readers, StatusTake(r) PROVE Timing(x)'
  <2>1. reader[r].id \in Ids
    BY <1>6, ReaderTypes DEF StatusTake
  <2>2. store'[x] = store[x] \/ store'[x].state = "completed"
    BY <1>6, <2>1 DEF StatusTake, Deliverable, Record
  <2>3. left' = left
    BY <1>6 DEF StatusTake
  <2> QED
    BY <2>2, <2>3, TimingQuiet
<1>7. ASSUME NEW id \in Ids, WorkComplete(id) PROVE Timing(x)'
  <2>1. store'[x] = store[x] \/ store'[x].state = "completed"
    BY <1>7, CompletedState DEF WorkComplete
  <2>2. left' = left
    BY <1>7 DEF WorkComplete
  <2> QED
    BY <2>1, <2>2, TimingQuiet
<1>8. ASSUME Sweep PROVE Timing(x)'
  <2>1. store'[x] = Swept(store[x]) /\ left' = left
    BY <1>8 DEF Sweep
  <2>2. store'[x] = store[x] \/ store'[x].state \in {"none", "expired"}
    BY <2>1, SweptState DEF Gone
  <2> QED
    BY <2>1, <2>2, TimingQuiet
<1>9. ASSUME Tick PROVE Timing(x)'
  <2>1. /\ store'[x].state = store[x].state
        /\ store'[x].expires = Sooner(store[x].expires)
        /\ store'[x].purge = Sooner(store[x].purge)
        /\ left'[x] = Sooner(left[x])
    <3>1. store'[x] = Older(store[x]) /\ left'[x] = Sooner(left[x])
      BY <1>9 DEF Tick, Older
    <3> QED
      BY <3>1, OlderState
  <2>2. store[x].expires \in Nat /\ store[x].purge \in Nat /\ left[x] \in Nat
    BY DEF Record
  <2>3. store[x].state = "executing" => left[x] > 0
    BY <1>9 DEF Tick, Execution
  <2> QED
    BY <2>1, <2>2, <2>3 DEF Timing, Open, Sooner
<1>10. ASSUME Restart PROVE Timing(x)'
  BY <1>10 DEF Restart, Timing, Gone, Open
<1>11. CASE UNCHANGED <<store, left>>
  BY <1>11, TimingQuiet
<1> HIDE DEF TypeOK
<1>12. ASSUME NEW id \in Ids, Announce(id) \/ DenyLog(id) \/ WorkReport(id) \/ SweepLog(id)
       PROVE  Timing(x)'
  BY <1>11, <1>12 DEF Announce, DenyLog, WorkReport, SweepLog
<1>13. ASSUME NEW a \in Approvers, NEW id \in Ids, NEW given, NEW yes,
              ApproveCheck(a, id, given, yes) \/ ApproveReject(a, id, given)
       PROVE  Timing(x)'
  BY <1>11, <1>13 DEF ApproveCheck, ApproveReject
<1>14. ASSUME NEW a \in Approvers, ApproveSpawn(a) PROVE Timing(x)'
  BY <1>11, <1>14 DEF ApproveSpawn
<1>15. ASSUME NEW r \in Readers, NEW id \in Ids, StatusSee(r, id) \/ StatusAnswer(r) \/ StatusDeliver(r)
       PROVE  Timing(x)'
  BY <1>11, <1>15 DEF StatusSee, StatusAnswer, StatusDeliver
<1>16. CASE UNCHANGED vars
  BY <1>11, <1>16 DEF vars
<1> QED
  BY <1>1, <1>2, <1>3, <1>4, <1>5, <1>6, <1>7, <1>8, <1>9, <1>10, <1>12, <1>13, <1>14,
     <1>15, <1>16
     DEF Next, RequestNext, ApproveNext, StatusNext, DaemonNext

-----------------------------------------------------------------------------
(* The invariant holds initially.                                          *)
LEMMA InvInit == Init => IInv
<1> SUFFICES ASSUME Init PROVE IInv
  OBVIOUS
<1>1. TypeOK
  BY TypeInit
<1>2. ASSUME NEW x \in Ids
      PROVE  Fate(x) /\ Execution(x) /\ Delivery(x) /\ Timing(x)
  <2>1. /\ store[x].state = "none" /\ x \notin denying \cup sweeping /\ work[x] = "none"
        /\ \A e \in Events : audit[x][e] = 0
        /\ \A a \in Approvers : ~Granting(a, x)
        /\ \A r \in Readers : ~Took(r, x)
    BY DEF Init, Gone, Granting, Took, IdleApprover, IdleReader
  <2> QED
    BY <2>1 DEF Events, Fate, Undecided, Execution, Delivery, Timing, Open, Deliverable
<1> QED
  BY <1>1, <1>2 DEF IInv

(* Every step keeps the invariant.                                         *)
LEMMA InvStep == IInv /\ [Next]_vars => IInv'
<1> SUFFICES ASSUME IInv, [Next]_vars PROVE IInv'
  OBVIOUS
<1>1. TypeOK /\ TypeOK'
  BY TypeStep DEF IInv
<1>2. ASSUME NEW x \in Ids PROVE (Fate(x) /\ Execution(x) /\ Delivery(x) /\ Timing(x))'
  BY <1>1, FateStep, ExecutionStep, DeliveryStep, TimingStep DEF IInv
<1> QED
  BY <1>1, <1>2 DEF IInv

(* The strengthening that carries every safety property below.             *)
THEOREM Invariance == Spec => []IInv
BY InvInit, InvStep, PTL DEF Spec

(* One request, one fate, for any number of concurrent operators.          *)
THEOREM OneFateHolds == Spec => []OneFate
<1>1. IInv => OneFate
  BY DEF IInv, Fate, OneFate
<1> QED
  BY <1>1, Invariance, PTL

(* Every execution on record was approved and every delivery executed.     *)
THEOREM AuditTrailHolds == Spec => []AuditTrail
<1>1. IInv => AuditTrail
  <2> SUFFICES ASSUME IInv, NEW x \in Ids
               PROVE  /\ audit[x]["delivered"] <= audit[x]["executed"]
                      /\ audit[x]["executed"] <= audit[x]["approved"]
    BY DEF AuditTrail
  <2>1. audit[x]["executed"] \in Nat /\ audit[x]["approved"] \in Nat
    BY DEF IInv, TypeOK, Events
  <2> QED
    BY <2>1 DEF IInv, Execution, Delivery
<1> QED
  BY <1>1, Invariance, PTL

(* Whoever sees or holds a result finds its execution on record.           *)
THEOREM ResultOnRecordHolds == Spec => []ResultOnRecord
<1>1. IInv => ResultOnRecord
  <2> SUFFICES ASSUME IInv PROVE ResultOnRecord
    OBVIOUS
  <2>1. \A id \in Ids : store[id].state = "completed" => audit[id]["executed"] = 1
    BY DEF IInv, Execution
  <2>2. ASSUME NEW r \in Readers, reader[r].pc = "took"
        PROVE  audit[reader[r].id]["executed"] = 1
    <3>1. reader[r].id \in Ids
      BY <2>2, ReaderTypes DEF IInv, TypeOK
    <3> QED
      BY <2>2, <3>1 DEF IInv, Delivery, Execution, Took
  <2> QED
    BY <2>1, <2>2 DEF ResultOnRecord
<1> QED
  BY <1>1, Invariance, PTL

-----------------------------------------------------------------------------
(* The record is at home for the result as long as executions end within   *)
(* the result TTL; one that may run longer can lose it (the code never     *)
(* moves purge_at after an approval).                                      *)
LEMMA ExecutingSurvivesSweep ==
  ASSUME RunLimit <= ResultTTL, IInv, NEW x \in Ids, store[x].state = "executing"
  PROVE  Swept(store[x]) = store[x]
<1>1. store[x].purge > 0
  BY DEF IInv, TypeOK, Record, Timing
<1> QED
  BY <1>1 DEF Swept, Lapsed, Purgeable

(* No step drops the record of an execution under way.                     *)
LEMMA HomeStep ==
  ASSUME RunLimit <= ResultTTL, IInv, IInv', ResultHasAHome, [Next]_vars
  PROVE  ResultHasAHome'
<1> SUFFICES ASSUME NEW x \in Ids, InFlight(x)' PROVE store'[x].state = "executing"
  BY DEF ResultHasAHome
<1> DEFINE Kept == InFlight(x) /\ (store[x].state = "executing" => store'[x].state = "executing")
<1>0. Kept => store'[x].state = "executing"
  BY DEF ResultHasAHome
<1>1. ASSUME NEW id \in Ids, RequestNext(id) PROVE Kept
  <2>1. InFlight(x)
    BY <1>1 DEF RequestNext, Create, Announce, Deny, DenyTooLate, DenyLog, InFlight,
       Granting
  <2>2. store[x].state = "executing" => store'[x].state = "executing"
    <3>1. store[id].state = "executing" => store'[id].state = "executing"
      BY <1>1 DEF RequestNext, Create, Announce, Deny, DenyTooLate, DenyLog, Open,
         Lapsed,
                  IInv, TypeOK, Fate
    <3>2. x # id => store'[x] = store[x]
      BY <1>1 DEF RequestNext, Create, Announce, Deny, DenyTooLate, DenyLog, IInv,
         TypeOK
    <3> QED
      BY <3>1, <3>2
  <2> QED
    BY <2>1, <2>2
<1>2. ASSUME NEW a \in Approvers, ApproveNext(a) PROVE store'[x].state = "executing"
  <2>1. ASSUME NEW id \in Ids, NEW given, NEW yes,
               ApproveCheck(a, id, given, yes) \/ ApproveReject(a, id, given)
        PROVE  Kept
    BY <2>1 DEF ApproveCheck, ApproveReject, InFlight, Granting, IInv, TypeOK
  <2>2. CASE ApproveGrant(a)
    <3> DEFINE id == approver[a].id
    <3>1. id \in Ids
      BY <2>2, ApproverTypes DEF ApproveGrant, IInv, TypeOK
    <3>2. store' = [store EXCEPT ![id] = Become(store[id], "executing")]
          /\ approver' = [approver EXCEPT ![a] = [pc |-> "approved", id |-> id]] /\ work' = work
      BY <2>2 DEF ApproveGrant
    <3>3. store'[id].state = "executing" /\ (x # id => store'[x] = store[x])
      BY <3>1, <3>2, BecomeState DEF IInv, TypeOK, States
    <3>4. x # id => InFlight(x)
      BY <3>2 DEF InFlight, Granting, IInv, TypeOK
    <3> QED
      BY <3>3, <3>4, <1>0
  <2>3. CASE ApproveRefuse(a)
    <3>1. InFlight(x)
      BY <2>3 DEF ApproveRefuse, InFlight, Granting, IdleApprover, IInv, TypeOK
    <3>2. store[x].state = "executing" => store'[x] = store[x]
      BY <2>3 DEF ApproveRefuse, Lapsed, IInv, TypeOK
    <3> QED
      BY <3>1, <3>2, <1>0
  <2>4. CASE ApproveSpawn(a)
    <3>1. approver[a].id \in Ids
      BY <2>4, ApproverTypes DEF ApproveSpawn, IInv, TypeOK
    <3>2. InFlight(x)
      BY <2>4, <3>1 DEF ApproveSpawn, InFlight, Granting, IdleApprover, IInv, TypeOK
    <3> QED
      BY <2>4, <3>2, <1>0 DEF ApproveSpawn
  <2> QED
    BY <1>2, <2>1, <2>2, <2>3, <2>4, <1>0 DEF ApproveNext
<1>3. ASSUME NEW r \in Readers, StatusNext(r) PROVE Kept
  <2>1. InFlight(x)
    BY <1>3 DEF StatusNext, StatusSee, StatusTake, StatusAnswer, StatusDeliver,
       InFlight, Granting
  <2>2. CASE StatusTake(r)
    <3>1. reader[r].id \in Ids
      BY <2>2, ReaderTypes DEF StatusTake, IInv, TypeOK
    <3>2. store'[x].state = store[x].state
      BY <2>2, <3>1 DEF StatusTake, IInv, TypeOK, Record
    <3> QED
      BY <2>1, <3>2
  <2>3. CASE store' = store
    BY <2>1, <2>3
  <2> QED
    BY <1>3, <2>2, <2>3 DEF StatusNext, StatusSee, StatusAnswer, StatusDeliver
<1>4. ASSUME NEW id \in Ids, WorkReport(id) \/ WorkComplete(id) \/ SweepLog(id) PROVE Kept
  <2>1. CASE WorkComplete(id)
    <3>1. work[id] = "reported" /\ work' = [work EXCEPT ![id] = "done"] /\ approver' = approver
          /\ (x # id => store'[x] = store[x])
      BY <2>1 DEF WorkComplete, IInv, TypeOK
    <3>2. ~\E a \in Approvers : Granting(a, id)
      BY <3>1 DEF IInv, Fate, Undecided
    <3> QED
      BY <3>1, <3>2 DEF InFlight, Granting, IInv, TypeOK
  <2>2. CASE WorkReport(id) \/ SweepLog(id)
    BY <2>2 DEF WorkReport, SweepLog, InFlight, Granting, IInv, TypeOK
  <2> QED
    BY <1>4, <2>1, <2>2
<1>5. ASSUME Sweep PROVE Kept
  <2>1. InFlight(x)
    BY <1>5 DEF Sweep, InFlight, Granting
  <2>2. store[x].state = "executing" => store'[x] = store[x]
    BY <1>5, ExecutingSurvivesSweep DEF Sweep
  <2> QED
    BY <2>1, <2>2
<1>6. ASSUME Tick PROVE Kept
  <2>1. InFlight(x)
    BY <1>6 DEF Tick, InFlight, Granting
  <2>2. store'[x] = Older(store[x])
    BY <1>6 DEF Tick, Older
  <2> QED
    BY <2>1, <2>2, OlderState DEF IInv, TypeOK
<1>7. ASSUME Restart PROVE FALSE
  BY <1>7 DEF Restart, InFlight, Granting, IdleApprover
<1>8. CASE UNCHANGED vars
  BY <1>8, <1>0 DEF vars, InFlight, Granting
<1> HIDE DEF Kept
<1> QED
  BY <1>0, <1>1, <1>2, <1>3, <1>4, <1>5, <1>6, <1>7, <1>8 DEF Next, DaemonNext

(* No result is lost: complete() finds the record of every execution that  *)
(* ends within the result TTL.                                             *)
THEOREM NoResultLost ==
  ASSUME RunLimit <= ResultTTL
  PROVE  Spec => []ResultHasAHome
<1>1. Init => ResultHasAHome
  BY DEF Init, ResultHasAHome, InFlight, Granting, IdleApprover
<1>2. IInv /\ IInv' /\ ResultHasAHome /\ [Next]_vars => ResultHasAHome'
  BY HomeStep
<1> QED
  BY <1>1, <1>2, Invariance, PTL DEF Spec

-----------------------------------------------------------------------------
(* The code an approve handler goes on with is the one it was given,       *)
(* unless it was told not to ask.                                          *)
GivenIsExpected ==
  \A a \in Approvers : approver[a].pc = "checked" =>
    approver[a].yes \/ approver[a].given = approver[a].expected

(* No step lets a handler go on with another code.                         *)
LEMMA GivenIsExpectedStep ==
  ASSUME TypeOK, GivenIsExpected, [Next]_vars
  PROVE  GivenIsExpected'
<1> USE DEF TypeOK, GivenIsExpected
<1>1. CASE UNCHANGED approver
  BY <1>1
<1>2. ASSUME NEW a \in Approvers, NEW id \in Ids, NEW given \in Codes \cup {NoCode},
             NEW yes \in BOOLEAN, ApproveCheck(a, id, given, yes)
      PROVE  GivenIsExpected'
  <2>1. /\ approver'[a].yes = yes /\ approver'[a].given = given
        /\ approver'[a].expected = store[id].code
        /\ \A b \in Approvers : b # a => approver'[b] = approver[b]
    BY <1>2 DEF ApproveCheck
  <2>2. yes \/ given = store[id].code
    BY <1>2 DEF ApproveCheck, Matches
  <2> QED
    BY <2>1, <2>2
<1>3. ASSUME NEW a \in Approvers, ApproveGrant(a) \/ ApproveRefuse(a) \/ ApproveSpawn(a)
      PROVE  GivenIsExpected'
  <2>1. approver'[a].pc \in {"idle", "approved"}
    BY <1>3 DEF ApproveGrant, ApproveRefuse, ApproveSpawn, IdleApprover
  <2>2. \A b \in Approvers : b # a => approver'[b] = approver[b]
    BY <1>3 DEF ApproveGrant, ApproveRefuse, ApproveSpawn
  <2> QED
    BY <2>1, <2>2
<1>4. CASE Restart
  BY <1>4 DEF Restart, IdleApprover
<1>5. ASSUME NEW a \in Approvers, ApproveNext(a)
      PROVE  GivenIsExpected'
  <2>1. CASE \E id \in Ids, given \in Codes \cup {NoCode} : ApproveReject(a, id, given)
    BY <1>1, <2>1 DEF ApproveReject
  <2> QED
    BY <1>2, <1>3, <1>5, <2>1 DEF ApproveNext
<1>6. ASSUME NEW id \in Ids, RequestNext(id)
      PROVE  GivenIsExpected'
  BY <1>1, <1>6 DEF RequestNext, Create, Announce, Deny, DenyTooLate, DenyLog
<1>7. ASSUME NEW r \in Readers, StatusNext(r)
      PROVE  GivenIsExpected'
  BY <1>1, <1>7 DEF StatusNext, StatusSee, StatusTake, StatusAnswer, StatusDeliver
<1>8. CASE DaemonNext
  BY <1>1, <1>4, <1>8 DEF DaemonNext, WorkReport, WorkComplete, SweepLog, Sweep, Tick
<1> QED
  BY <1>1, <1>5, <1>6, <1>7, <1>8 DEF Next, vars

(* A handler that was in "checked" and is in "approved" took ApproveGrant. *)
LEMMA GrantingIsApproveGrant ==
  ASSUME TypeOK, [Next]_vars, NEW a \in Approvers, NEW id \in Ids,
         approver[a].pc = "checked", Granting(a, id)'
  PROVE  ApproveGrant(a)
<1> USE DEF TypeOK, Granting
<1>1. approver'[a] # approver[a]
  OBVIOUS
<1>2. ~Restart
  BY DEF Restart, IdleApprover
<1>3. ASSUME NEW b \in Approvers, ApproveNext(b)
      PROVE  ApproveGrant(a)
  <2>1. \A i \in Ids, given \in Codes \cup {NoCode} : ~ApproveReject(b, i, given)
    BY <1>1 DEF ApproveReject
  <2>2. \A i \in Ids, given \in Codes \cup {NoCode}, yes \in BOOLEAN : ~ApproveCheck(b, i, given, yes)
    BY <1>1 DEF ApproveCheck
  <2>3. ~ApproveRefuse(b) /\ ~ApproveSpawn(b)
    BY <1>1 DEF ApproveRefuse, ApproveSpawn, IdleApprover
  <2>4. ApproveGrant(b)
    BY <1>3, <2>1, <2>2, <2>3 DEF ApproveNext
  <2>5. b = a
    BY <1>1, <2>4 DEF ApproveGrant
  <2> QED
    BY <2>4, <2>5
<1>4. \A i \in Ids : ~RequestNext(i)
  BY <1>1 DEF RequestNext, Create, Announce, Deny, DenyTooLate, DenyLog
<1>5. \A r \in Readers : ~StatusNext(r)
  BY <1>1 DEF StatusNext, StatusSee, StatusTake, StatusAnswer, StatusDeliver
<1>6. ~DaemonNext
  BY <1>1, <1>2 DEF DaemonNext, WorkReport, WorkComplete, SweepLog, Sweep, Tick
<1> QED
  BY <1>1, <1>3, <1>4, <1>5, <1>6 DEF Next, vars

(* Whatever runs between the code check and the state change, a request    *)
(* starts to execute only under the code it holds, or with --yes (ipc.rs   *)
(* approve_request, state.rs approve).                                     *)
THEOREM CodeGateHolds == Spec => CodeGate
<1>1. Init => GivenIsExpected
  BY DEF Init, GivenIsExpected, IdleApprover
<1>2. ASSUME TypeOK, GivenIsExpected, [Next]_vars, NEW a \in Approvers, NEW id \in Ids,
             approver[a].pc = "checked", Granting(a, id)'
      PROVE  store[id].state = "pending" /\ (approver[a].yes \/ approver[a].given = store[id].code)
  <2>1. ApproveGrant(a)
    BY <1>2, GrantingIsApproveGrant
  <2>2. approver[a].id = id
    BY <1>2, <2>1 DEF ApproveGrant, Granting, TypeOK
  <2> QED
    BY <1>2, <2>1, <2>2 DEF ApproveGrant, Open, GivenIsExpected
<1>3. TypeOK /\ GivenIsExpected /\ [Next]_vars =>
        [\A a \in Approvers, id \in Ids :
           approver[a].pc = "checked" /\ Granting(a, id)'
             => store[id].state = "pending" /\ (approver[a].yes \/ approver[a].given = store[id].code)]_vars
  BY <1>2
<1>4. TypeOK /\ GivenIsExpected /\ [Next]_vars => GivenIsExpected'
  BY GivenIsExpectedStep
<1> QED
  BY <1>1, <1>3, <1>4, TypeCorrect, PTL DEF Spec, CodeGate

-----------------------------------------------------------------------------
(* The refinement of OneShot: every step of the broker moves the phase of  *)
(* each request along an edge of the promise, or leaves it.                *)

(* An approve handler granted the request and has not spawned it yet.      *)
Granted(x) == \E a \in Approvers : Granting(a, x)

(* The action of the request is being carried out.                         *)
Active(x) == work[x] \in {"running", "reported"}

(* What a step may do to the phase of one request.                         *)
Moved(x) == PhaseOf(x)' # PhaseOf(x) => <<PhaseOf(x), PhaseOf(x)'>> \in Promise!Moves

(* The phase of a request, one case at a time.                             *)
LEMMA PhaseFacts ==
  ASSUME NEW x \in Ids, Fate(x)
  PROVE  /\ Granted(x) => PhaseOf(x) = "granted"
         /\ ~Granted(x) /\ Active(x) => PhaseOf(x) = "running"
         /\ ~Granted(x) /\ ~Active(x) /\ x \notin drawn => PhaseOf(x) = "unborn"
         /\ ~Granted(x) /\ ~Active(x) /\ x \in drawn =>
              /\ store[x].state = "pending" => PhaseOf(x) = "waiting"
              /\ Deliverable(store[x]) => PhaseOf(x) = "available"
              /\ store[x].state = "completed" /\ store[x].delivered => PhaseOf(x) = "delivered"
              /\ store[x].state \notin {"pending", "completed"} => PhaseOf(x) = "closed"
         /\ PhaseOf(x) \in Promise!Phases
BY DEF PhaseOf, Granted, Active, Deliverable, Fate, Undecided, Promise!Phases

(* The same of the next state.                                             *)
LEMMA PhaseFactsNext ==
  ASSUME NEW x \in Ids, Fate(x)'
  PROVE  /\ Granted(x)' => PhaseOf(x)' = "granted"
         /\ ~Granted(x)' /\ Active(x)' => PhaseOf(x)' = "running"
         /\ ~Granted(x)' /\ ~Active(x)' /\ x \notin drawn' => PhaseOf(x)' = "unborn"
         /\ ~Granted(x)' /\ ~Active(x)' /\ x \in drawn' =>
              /\ store'[x].state = "pending" => PhaseOf(x)' = "waiting"
              /\ Deliverable(store'[x]) => PhaseOf(x)' = "available"
              /\ store'[x].state = "completed" /\ store'[x].delivered => PhaseOf(x)' = "delivered"
              /\ store'[x].state \notin {"pending", "completed"} => PhaseOf(x)' = "closed"
         /\ PhaseOf(x)' \in Promise!Phases
BY DEF PhaseOf, Granted, Active, Deliverable, Fate, Undecided, Promise!Phases

(* A step that leaves grant, execution and what the record says of the     *)
(* request alone leaves its phase alone.                                   *)
LEMMA PhaseQuiet ==
  ASSUME NEW x \in Ids, Granted(x)' <=> Granted(x), Active(x)' <=> Active(x), drawn' = drawn,
         store'[x].state = store[x].state, store'[x].delivered = store[x].delivered
  PROVE  Moved(x)
<1>1. PhaseOf(x)' = PhaseOf(x)
  BY DEF PhaseOf, Granted, Active, Deliverable
<1> QED
  BY <1>1 DEF Moved

(* A record that is closed or dropped closes its request, unless the       *)
(* request is granted or runs: then its phase does not look at the record. *)
LEMMA PhaseCloses ==
  ASSUME NEW x \in Ids, Fate(x), Fate(x)', Granted(x)' <=> Granted(x), Active(x)' <=> Active(x), drawn' = drawn,
         store'[x].state \in {"none", "denied", "expired"}
  PROVE  Moved(x)
<1>1. CASE Granted(x) \/ Active(x) \/ x \notin drawn
  BY <1>1, PhaseFacts, PhaseFactsNext DEF Moved
<1>2. CASE ~(Granted(x) \/ Active(x) \/ x \notin drawn)
  <2>1. PhaseOf(x)' = "closed"
    BY <1>2, PhaseFactsNext
  <2>2. PhaseOf(x) \in {"waiting", "available", "delivered", "closed"}
    BY <1>2, PhaseFacts DEF Deliverable
  <2> QED
    BY <2>1, <2>2 DEF Moved, Promise!Moves
<1> QED
  BY <1>1, <1>2

(* Handlers that neither grant nor spawn leave the grants alone.           *)
LEMMA GrantQuiet ==
  ASSUME NEW x \in Ids, approver' = approver
  PROVE  Granted(x)' <=> Granted(x)
BY DEF Granted, Granting

(* Requesters and operators who deny only open or close a request.         *)
LEMMA RequestMoves ==
  ASSUME IInv, IInv', NEW x \in Ids, NEW id \in Ids, RequestNext(id)
  PROVE  Moved(x)
<1> USE DEF IInv, TypeOK
<1>0. approver' = approver /\ work' = work
  BY DEF RequestNext, Create, Announce, Deny, DenyTooLate, DenyLog
<1>1. (Granted(x)' <=> Granted(x)) /\ (Active(x)' <=> Active(x))
  BY <1>0, GrantQuiet DEF Active
<1>2. CASE Create(id)
  <2>1. CASE x = id
    <3>1. ~Granted(x) /\ ~Active(x) /\ PhaseOf(x) = "unborn"
      BY <1>2, <2>1, PhaseFacts DEF Create, Fate, Undecided, Active, Granted
    <3>2. PhaseOf(x)' = "waiting"
      BY <1>1, <1>2, <2>1, <3>1, PhaseFactsNext DEF Create, NewRecord
    <3> QED
      BY <3>1, <3>2 DEF Moved, Promise!Moves
  <2>2. CASE x # id
    <3>1. store'[x] = store[x] /\ (x \in drawn' <=> x \in drawn)
      BY <1>2, <2>2 DEF Create
    <3>2. PhaseOf(x)' = PhaseOf(x)
      BY <1>1, <3>1 DEF PhaseOf, Granted, Active
    <3> QED
      BY <3>2 DEF Moved
  <2> QED
    BY <2>1, <2>2
<1>3. CASE Deny(id) \/ DenyTooLate(id)
  <2>1. drawn' = drawn /\ (x # id => store'[x] = store[x])
    BY <1>3 DEF Deny, DenyTooLate
  <2>2. store'[id].state \in {"denied", "expired"}
    BY <1>3, BecomeState DEF Deny, DenyTooLate, States
  <2> QED
    BY <1>1, <2>1, <2>2, PhaseQuiet, PhaseCloses
<1>4. CASE Announce(id) \/ DenyLog(id)
  BY <1>1, <1>4, PhaseQuiet DEF Announce, DenyLog
<1> QED
  BY <1>2, <1>3, <1>4 DEF RequestNext

(* An approve handler grants a waiting request, closes one it finds past   *)
(* its deadline, and starts the action of one it granted.                  *)
LEMMA ApproveMoves ==
  ASSUME IInv, IInv', NEW x \in Ids, NEW a \in Approvers, ApproveNext(a)
  PROVE  Moved(x)
<1> USE DEF IInv, TypeOK
<1>1. ASSUME NEW id \in Ids, NEW given, NEW yes,
             ApproveCheck(a, id, given, yes) \/ ApproveReject(a, id, given)
      PROVE  Moved(x)
  <2>1. \A b \in Approvers : Granting(b, x)' <=> Granting(b, x)
    BY <1>1 DEF ApproveCheck, ApproveReject, Granting
  <2>2. Granted(x)' <=> Granted(x)
    BY <2>1 DEF Granted
  <2> QED
    BY <1>1, <2>2, PhaseQuiet DEF ApproveCheck, ApproveReject, Active
<1>2. CASE ApproveGrant(a)
  <2> DEFINE id == approver[a].id
  <2>1. id \in Ids
    BY <1>2, ApproverTypes DEF ApproveGrant
  <2>2. /\ Open(store[id]) /\ drawn' = drawn /\ work' = work
        /\ approver' = [approver EXCEPT ![a] = [pc |-> "approved", id |-> id]]
        /\ x # id => store'[x] = store[x]
    BY <1>2, <2>1 DEF ApproveGrant
  <2>3. CASE x = id
    <3>1. ~Granted(x) /\ ~Active(x) /\ x \in drawn
      BY <2>1, <2>2, <2>3 DEF Open, Fate, Undecided, Active, Granted
    <3>2. PhaseOf(x) = "waiting"
      BY <2>2, <2>3, <3>1, PhaseFacts DEF Open
    <3>3. Granted(x)'
      BY <2>2, <2>3 DEF Granted, Granting
    <3>4. PhaseOf(x)' = "granted"
      BY <3>3, PhaseFactsNext
    <3> QED
      BY <3>2, <3>4 DEF Moved, Promise!Moves
  <2>4. CASE x # id
    <3>1. Granted(x)' <=> Granted(x)
      BY <1>2, <2>2, <2>4 DEF ApproveGrant, Granted, Granting
    <3> QED
      BY <2>2, <2>4, <3>1, PhaseQuiet DEF Active
  <2> QED
    BY <2>3, <2>4
<1>3. CASE ApproveRefuse(a)
  <2>1. approver[a].id \in Ids
    BY <1>3, ApproverTypes DEF ApproveRefuse
  <2>2. store'[x] = store[x] \/ store'[x].state = "expired"
    BY <1>3, <2>1, BecomeState DEF ApproveRefuse, States
  <2>3. Granted(x)' <=> Granted(x)
    BY <1>3 DEF ApproveRefuse, Granted, Granting, IdleApprover
  <2>4. drawn' = drawn /\ work' = work
    BY <1>3 DEF ApproveRefuse
  <2> QED
    BY <2>2, <2>3, <2>4, PhaseQuiet, PhaseCloses DEF Active
<1>4. CASE ApproveSpawn(a)
  <2> DEFINE id == approver[a].id
  <2>1. id \in Ids /\ Granting(a, id)
    BY <1>4, ApproverTypes DEF ApproveSpawn, Granting
  <2>2. /\ approver' = [approver EXCEPT ![a] = IdleApprover]
        /\ work' = [work EXCEPT ![id] = "running"]
        /\ store' = store /\ drawn' = drawn
    BY <1>4 DEF ApproveSpawn
  <2>3. CASE x = id
    <3>1. PhaseOf(x) = "granted"
      BY <2>1, <2>3, PhaseFacts DEF Granted
    <3>2. ~Granted(x)'
      BY <2>1, <2>2, <2>3 DEF Fate, Granted, Granting, IdleApprover
    <3>3. PhaseOf(x)' = "running"
      BY <2>1, <2>2, <2>3, <3>2, PhaseFactsNext DEF Active
    <3> QED
      BY <3>1, <3>3 DEF Moved, Promise!Moves
  <2>4. CASE x # id
    <3>1. Granted(x)' <=> Granted(x)
      BY <2>1, <2>2, <2>4 DEF Granted, Granting, IdleApprover
    <3> QED
      BY <2>2, <2>4, <3>1, PhaseQuiet DEF Active
  <2> QED
    BY <2>3, <2>4
<1> QED
  BY <1>1, <1>2, <1>3, <1>4 DEF ApproveNext

(* A status handler hands out an available result, and nothing else.       *)
LEMMA StatusMoves ==
  ASSUME IInv, IInv', NEW x \in Ids, NEW r \in Readers, StatusNext(r)
  PROVE  Moved(x)
<1> USE DEF IInv, TypeOK
<1>0. approver' = approver /\ work' = work /\ drawn' = drawn
  BY DEF StatusNext, StatusSee, StatusTake, StatusAnswer, StatusDeliver
<1>1. (Granted(x)' <=> Granted(x)) /\ (Active(x)' <=> Active(x))
  BY <1>0, GrantQuiet DEF Active
<1>2. CASE StatusTake(r)
  <2> DEFINE id == reader[r].id
  <2>1. id \in Ids
    BY <1>2, ReaderTypes DEF StatusTake
  <2>2. /\ Deliverable(store[id]) /\ (x # id => store'[x] = store[x])
        /\ store'[id].state = store[id].state /\ store'[id].delivered
    BY <1>2, <2>1 DEF StatusTake, Record
  <2>3. CASE x = id
    <3>1. ~Granted(x) /\ ~Active(x) /\ x \in drawn
      BY <2>1, <2>2, <2>3 DEF Deliverable, Execution, Fate, Undecided, Active, Granted
    <3>2. PhaseOf(x) = "available"
      BY <2>2, <2>3, <3>1, PhaseFacts
    <3>3. PhaseOf(x)' = "delivered"
      BY <1>0, <1>1, <2>2, <2>3, <3>1, PhaseFactsNext DEF Deliverable
    <3> QED
      BY <3>2, <3>3 DEF Moved, Promise!Moves
  <2>4. CASE x # id
    BY <1>0, <1>1, <2>2, <2>4, PhaseQuiet
  <2> QED
    BY <2>3, <2>4
<1>3. CASE store' = store
  BY <1>0, <1>1, <1>3, PhaseQuiet
<1> QED
  BY <1>2, <1>3 DEF StatusNext, StatusSee, StatusAnswer, StatusDeliver

(* What the daemon does by itself ends executions and closes requests.     *)
LEMMA DaemonMoves ==
  ASSUME IInv, IInv', NEW x \in Ids, DaemonNext
  PROVE  Moved(x)
<1> USE DEF IInv, TypeOK
<1>1. ASSUME NEW id \in Ids, WorkReport(id) PROVE Moved(x)
  <2>1. UNCHANGED <<approver, store, drawn>> /\ (Active(x)' <=> Active(x))
    BY <1>1 DEF WorkReport, Active
  <2> QED
    BY <2>1, GrantQuiet, PhaseQuiet
<1>2. ASSUME NEW id \in Ids, WorkComplete(id) PROVE Moved(x)
  <2>1. /\ UNCHANGED <<approver, drawn>>
        /\ work[id] = "reported" /\ work' = [work EXCEPT ![id] = "done"]
        /\ x # id => store'[x] = store[x]
    BY <1>2 DEF WorkComplete
  <2>2. CASE x = id
    <3>1. ~Granted(x) /\ Active(x) /\ x \in drawn
      BY <2>1, <2>2 DEF Fate, Undecided, Active, Granted
    <3>2. PhaseOf(x) = "running"
      BY <3>1, PhaseFacts
    <3>3. ~Granted(x)' /\ ~Active(x)' /\ x \in drawn'
      BY <2>1, <2>2, <3>1, GrantQuiet DEF Active
    <3>4. store'[x].state = "none" \/ Deliverable(store'[x])
      BY <1>2, <2>2, CompletedState DEF WorkComplete, Deliverable
    <3>5. PhaseOf(x)' \in {"available", "closed"}
      BY <3>3, <3>4, PhaseFactsNext
    <3> QED
      BY <3>2, <3>5 DEF Moved, Promise!Moves
  <2>3. CASE x # id
    <3>1. Active(x)' <=> Active(x)
      BY <2>1, <2>3 DEF Active
    <3> QED
      BY <2>1, <2>3, <3>1, GrantQuiet, PhaseQuiet
  <2> QED
    BY <2>2, <2>3
<1>3. ASSUME NEW id \in Ids, SweepLog(id) PROVE Moved(x)
  <2>1. UNCHANGED <<approver, store, drawn, work>>
    BY <1>3 DEF SweepLog
  <2> QED
    BY <2>1, GrantQuiet, PhaseQuiet DEF Active
<1>4. CASE Sweep
  <2>1. UNCHANGED <<approver, drawn, work>>
    BY <1>4 DEF Sweep
  <2>2. store'[x] = Swept(store[x])
    BY <1>4 DEF Sweep
  <2>3. store'[x] = store[x] \/ store'[x].state \in {"none", "expired"}
    BY <2>2, SweptState DEF Gone
  <2> QED
    BY <2>1, <2>3, GrantQuiet, PhaseQuiet, PhaseCloses DEF Active
<1>5. CASE Tick
  <2>1. UNCHANGED <<approver, drawn, work>>
    BY <1>5 DEF Tick
  <2>2. store'[x] = Older(store[x])
    BY <1>5 DEF Tick, Older
  <2> QED
    BY <2>1, <2>2, OlderState, GrantQuiet, PhaseQuiet DEF Active
<1>6. CASE Restart
  <2>1. ~Granted(x)' /\ ~Active(x)' /\ store'[x].state = "none" /\ drawn' = drawn
    BY <1>6 DEF Restart, Granted, Granting, IdleApprover, Active, Gone
  <2>2. CASE x \notin drawn
    <3>1. ~Granted(x) /\ ~Active(x)
      BY <2>2 DEF Fate, Undecided, Granted, Active
    <3> QED
      BY <2>1, <2>2, <3>1, PhaseFacts, PhaseFactsNext DEF Moved
  <2>3. CASE x \in drawn
    <3>1. PhaseOf(x)' = "closed"
      BY <2>1, <2>3, PhaseFactsNext
    <3>2. PhaseOf(x) # "unborn"
      BY <2>3, PhaseFacts DEF Deliverable, Record, States
    <3>3. PhaseOf(x) \in Promise!Phases
      BY PhaseFacts
    <3> QED
      BY <3>1, <3>2, <3>3 DEF Moved, Promise!Moves, Promise!Phases
  <2> QED
    BY <2>2, <2>3
<1> QED
  BY <1>1, <1>2, <1>3, <1>4, <1>5, <1>6 DEF DaemonNext

(* Every step of the broker is a step of the promise or leaves it.         *)
LEMMA PromiseStep ==
  ASSUME IInv, IInv', [Next]_vars
  PROVE  [Promise!Next]_([id \in Ids |-> PhaseOf(id)])
<1>1. ASSUME NEW x \in Ids PROVE Moved(x)
  <2>1. CASE UNCHANGED vars
    BY <2>1, PhaseQuiet, GrantQuiet DEF vars, Active
  <2> QED
    BY <2>1, RequestMoves, ApproveMoves, StatusMoves, DaemonMoves DEF Next
<1>2. \A x \in Ids : PhaseOf(x)' \in Promise!Phases
  BY PhaseFactsNext DEF IInv
<1> QED
  BY <1>1, <1>2 DEF Promise!Next, Moved

(* The broker, for any number of requests, operators, status clients and   *)
(* restarts, implements the one-shot promise: an action starts at most     *)
(* once and only after a grant of a waiting request, its result is handed  *)
(* out at most once, and a closed request stays closed (state.rs, ipc.rs). *)
THEOREM PromiseKeptHolds == Spec => PromiseKept
<1>1. Init => Promise!Init
  <2> SUFFICES ASSUME Init, NEW x \in Ids PROVE PhaseOf(x) = "unborn"
    BY DEF Promise!Init
  <2>1. ~Granted(x) /\ ~Active(x) /\ x \notin drawn
    BY DEF Init, Granted, Granting, IdleApprover, Active
  <2> QED
    BY <2>1, InvInit, PhaseFacts DEF IInv
<1>2. IInv /\ IInv' /\ [Next]_vars => [Promise!Next]_([id \in Ids |-> PhaseOf(id)])
  BY PromiseStep
<1> QED
  BY <1>1, <1>2, Invariance, PTL DEF Spec, PromiseKept, Promise!Spec

-----------------------------------------------------------------------------
(* `open-guardian approve` next to the broker.  What the CLI may rely on   *)
(* is first shown of every step of the broker.                             *)

(* A request that was approved is not refused afterwards, whichever        *)
(* handler or task makes the next step.                                    *)
LEMMA NeverRefusedStep ==
  ASSUME IInv, [Next]_vars, NEW x \in Ids, NeverRefused(x)
  PROVE  NeverRefused(x)'
<1> USE DEF IInv, TypeOK
<1>1. ASSUME NEW id \in Ids, RequestNext(id) PROVE NeverRefused(x)'
  <2>1. UNCHANGED <<approver, work>> /\ drawn \subseteq drawn'
    BY <1>1 DEF RequestNext, Create, Announce, Deny, DenyTooLate, DenyLog
  <2>2. Approved(x)' <=> Approved(x)
    BY <2>1 DEF Approved, Granting
  <2>3. store'[x] = store[x] \/ (x = id /\ (id \notin drawn \/ store[id].state = "pending"))
    BY <1>1 DEF RequestNext, Create, Announce, Deny, DenyTooLate, DenyLog, Open, Lapsed
  <2>4. store'[x] = store[x] \/ ~Approved(x)
    BY <2>3 DEF Approved, Fate, Undecided
  <2> QED
    BY <2>1, <2>2, <2>4 DEF NeverRefused
<1>2. ASSUME NEW a \in Approvers, ApproveNext(a) PROVE NeverRefused(x)'
  <2>1. ASSUME NEW id \in Ids, NEW given, NEW yes,
               ApproveCheck(a, id, given, yes) \/ ApproveReject(a, id, given)
        PROVE  NeverRefused(x)'
    <3>1. \A b \in Approvers : Granting(b, x)' <=> Granting(b, x)
      BY <2>1 DEF ApproveCheck, ApproveReject, Granting
    <3>2. Approved(x)' <=> Approved(x)
      BY <2>1, <3>1 DEF ApproveCheck, ApproveReject, Approved
    <3> QED
      BY <2>1, <3>2 DEF ApproveCheck, ApproveReject, NeverRefused
  <2>2. CASE ApproveGrant(a)
    <3> DEFINE id == approver[a].id
    <3>1. id \in Ids
      BY <2>2, ApproverTypes DEF ApproveGrant
    <3>2. CASE x = id
      <4>1. store'[x].state = "executing"
        BY <2>2, <3>1, <3>2, BecomeState DEF ApproveGrant, States
      <4>2. x \in drawn'
        BY <2>2, <3>1, <3>2 DEF ApproveGrant, Open, Fate
      <4> QED
        BY <4>1, <4>2 DEF NeverRefused
    <3>3. CASE x # id
      <4>1. Approved(x)' <=> Approved(x)
        BY <2>2, <3>1, <3>3 DEF ApproveGrant, Approved, Granting
      <4> QED
        BY <2>2, <3>1, <3>3, <4>1 DEF ApproveGrant, NeverRefused
    <3> QED
      BY <3>2, <3>3
  <2>3. CASE ApproveRefuse(a)
    <3>1. approver[a].id \in Ids
      BY <2>3, ApproverTypes DEF ApproveRefuse
    <3>2. Approved(x)' => Approved(x)
      BY <2>3, <3>1 DEF ApproveRefuse, Approved, Granting, IdleApprover
    <3>3. store'[x] = store[x] \/ store[x].state = "pending"
      BY <2>3, <3>1 DEF ApproveRefuse, Lapsed
    <3>4. drawn' = drawn
      BY <2>3 DEF ApproveRefuse
    <3> QED
      BY <3>2, <3>3, <3>4 DEF NeverRefused
  <2>4. CASE ApproveSpawn(a)
    <3>1. approver[a].id \in Ids /\ Granting(a, approver[a].id)
      BY <2>4, ApproverTypes DEF ApproveSpawn, Granting
    <3>2. Approved(x)' => Approved(x)
      BY <2>4, <3>1 DEF ApproveSpawn, Approved, Granting, IdleApprover
    <3> QED
      BY <2>4, <3>2 DEF ApproveSpawn, NeverRefused
  <2> QED
    BY <1>2, <2>1, <2>2, <2>3, <2>4 DEF ApproveNext
<1>3. ASSUME NEW r \in Readers, StatusNext(r) PROVE NeverRefused(x)'
  <2>1. UNCHANGED <<approver, work, drawn>>
    BY <1>3 DEF StatusNext, StatusSee, StatusTake, StatusAnswer, StatusDeliver
  <2>2. store'[x].state = store[x].state
    <3>1. CASE StatusTake(r)
      <4>1. reader[r].id \in Ids
        BY <3>1, ReaderTypes DEF StatusTake
      <4> QED
        BY <3>1, <4>1 DEF StatusTake, Record
    <3> QED
      BY <1>3, <3>1 DEF StatusNext, StatusSee, StatusAnswer, StatusDeliver
  <2> QED
    BY <2>1, <2>2 DEF NeverRefused, Approved, Granting
<1>4. CASE DaemonNext
  <2>1. ASSUME NEW id \in Ids, WorkReport(id) \/ WorkComplete(id) \/ SweepLog(id)
        PROVE  NeverRefused(x)'
    <3>1. Approved(x)' => Approved(x)
      BY <2>1 DEF WorkReport, WorkComplete, SweepLog, Approved, Granting
    <3>2. store'[x] = store[x] \/ store'[x].state = "completed"
      BY <2>1, CompletedState DEF WorkReport, WorkComplete, SweepLog
    <3>3. drawn' = drawn
      BY <2>1 DEF WorkReport, WorkComplete, SweepLog
    <3> QED
      BY <3>1, <3>2, <3>3 DEF NeverRefused
  <2>2. CASE Sweep
    <3>1. UNCHANGED <<approver, work, drawn>> /\ store'[x] = Swept(store[x])
      BY <2>2 DEF Sweep
    <3>2. store[x].state # "pending" => store'[x].state \in {store[x].state, "none"}
      BY <3>1, SweptState DEF Lapsed, Gone
    <3> QED
      BY <3>1, <3>2 DEF NeverRefused, Approved, Granting
  <2>3. CASE Tick
    <3>1. UNCHANGED <<approver, work, drawn>> /\ store'[x] = Older(store[x])
      BY <2>3 DEF Tick, Older
    <3>2. store'[x].state = store[x].state
      BY <3>1, OlderState
    <3> QED
      BY <3>1, <3>2 DEF NeverRefused, Approved, Granting
  <2>4. CASE Restart
    <3>1. store'[x].state = "none" /\ drawn' = drawn
      BY <2>4 DEF Restart, Gone
    <3>2. Approved(x)' => Approved(x)
      BY <2>4 DEF Restart, Approved, Granting, IdleApprover
    <3> QED
      BY <3>1, <3>2 DEF NeverRefused
  <2> QED
    BY <1>4, <2>1, <2>2, <2>3, <2>4 DEF DaemonNext
<1>5. CASE UNCHANGED vars
  BY <1>5 DEF vars, NeverRefused, Approved, Granting
<1> QED
  BY <1>1, <1>2, <1>3, <1>4, <1>5 DEF Next

(* A result that was handed out cannot be handed out again, whichever      *)
(* handler or task makes the next step.                                    *)
LEMMA StaysGivenStep ==
  ASSUME IInv, [Next]_vars, NEW x \in Ids, work[x] = "done", ~Deliverable(store[x])
  PROVE  work'[x] = "done" /\ ~Deliverable(store'[x])
<1> USE DEF IInv, TypeOK
<1> DEFINE Stays == work'[x] = "done" /\ ~Deliverable(store'[x])
<1>0. x \in drawn /\ store[x].state # "pending" /\ \A a \in Approvers : ~Granting(a, x)
  BY DEF Fate, Undecided
<1>1. ASSUME NEW id \in Ids, RequestNext(id) PROVE Stays
  <2>1. store'[x] = store[x]
    BY <1>0, <1>1 DEF RequestNext, Create, Announce, Deny, DenyTooLate, DenyLog, Open,
       Lapsed
  <2> QED
    BY <1>1, <2>1 DEF RequestNext, Create, Announce, Deny, DenyTooLate, DenyLog
<1>2. ASSUME NEW a \in Approvers, ApproveNext(a) PROVE Stays
  <2>1. CASE ApproveGrant(a) \/ ApproveRefuse(a) \/ ApproveSpawn(a)
    <3>1. approver[a].id \in Ids
      BY <2>1, ApproverTypes DEF ApproveGrant, ApproveRefuse, ApproveSpawn
    <3>2. store'[x] = store[x]
      BY <1>0, <2>1, <3>1 DEF ApproveGrant, ApproveRefuse, ApproveSpawn, Open, Lapsed
    <3>3. work'[x] = work[x]
      BY <1>0, <2>1, <3>1 DEF ApproveGrant, ApproveRefuse, ApproveSpawn, Granting
    <3> QED
      BY <3>2, <3>3
  <2> QED
    BY <1>2, <2>1 DEF ApproveNext, ApproveCheck, ApproveReject
<1>3. ASSUME NEW r \in Readers, StatusNext(r) PROVE Stays
  <2>1. store'[x] = store[x] \/ store'[x].delivered
    BY <1>3, ReaderTypes DEF StatusNext, StatusSee, StatusTake, StatusAnswer,
       StatusDeliver, Record
  <2> QED
    BY <1>3, <2>1 DEF StatusNext, StatusSee, StatusTake, StatusAnswer, StatusDeliver,
       Deliverable
<1>4. CASE DaemonNext
  <2>1. ASSUME NEW id \in Ids, WorkReport(id) \/ WorkComplete(id) \/ SweepLog(id)
        PROVE  Stays
    BY <2>1 DEF WorkReport, WorkComplete, SweepLog
  <2>2. CASE Sweep
    <3>1. work' = work /\ store'[x] = Swept(store[x])
      BY <2>2 DEF Sweep
    <3>2. store'[x] = store[x] \/ store'[x].state = "none"
      BY <1>0, <3>1, SweptState DEF Lapsed, Gone
    <3> QED
      BY <3>1, <3>2 DEF Deliverable
  <2>3. CASE Tick
    <3>1. work' = work /\ store'[x] = Older(store[x])
      BY <2>3 DEF Tick, Older
    <3> QED
      BY <3>1, OlderState DEF Deliverable
  <2>4. CASE Restart
    BY <2>4 DEF Restart, Gone, Deliverable
  <2> QED
    BY <1>4, <2>1, <2>2, <2>3, <2>4 DEF DaemonNext
<1>5. CASE UNCHANGED vars
  BY <1>5 DEF vars
<1> QED
  BY <1>1, <1>2, <1>3, <1>4, <1>5 DEF Next

(* Whoever takes a result finds it undelivered in the table, and leaves it *)
(* delivered and its request done.                                         *)
LEMMA TakeEffect ==
  ASSUME IInv, NEW r \in Readers, StatusTake(r)
  PROVE  LET id == reader[r].id IN
           /\ id \in Ids /\ Deliverable(store[id]) /\ ~Deliverable(store'[id])
           /\ work[id] = "done" /\ work' = work
           /\ reader' = [reader EXCEPT ![r].pc = "took"]
<1>1. reader[r].id \in Ids
  BY ReaderTypes DEF StatusTake, IInv, TypeOK
<1>2. store'[reader[r].id].delivered
  BY <1>1 DEF StatusTake, IInv, TypeOK, Record
<1> QED
  BY <1>1, <1>2 DEF StatusTake, Deliverable, IInv, Execution

-----------------------------------------------------------------------------
(* Every step of the CLI, and of everybody else next to it, is a step of   *)
(* the broker or leaves the broker alone.                                  *)
LEMMA CliStepIsBrokerStep ==
  CliInv /\ [CliNext \/ OthersNext]_cliVars => [Next]_vars
<1> SUFFICES ASSUME CliInv, [CliNext \/ OthersNext]_cliVars PROVE [Next]_vars
  OBVIOUS
<1>1. ASSUME NEW r \in Readers, CliPoll(r) PROVE StatusNext(r)
  BY <1>1 DEF CliPoll, StatusNext, CliInv, CliView
<1>2. CASE CliNext
  BY <1>1, <1>2 DEF CliNext, CliStart, CliPollFails, CliGiveUp, CliTake, CliRead, Next,
     ApproveNext, StatusNext
<1>3. CASE OthersNext
  BY <1>3 DEF OthersNext, OthersTake, OthersStatus, Next, StatusNext
<1>4. CASE UNCHANGED cliVars
  BY <1>4 DEF cliVars
<1> QED
  BY <1>2, <1>3, <1>4

(* A request that was put to work stays so.                                *)
LEMMA WorkStays ==
  ASSUME IInv, [Next]_vars, NEW x \in Ids, work[x] # "none"
  PROVE  work'[x] # "none"
<1> USE DEF IInv, TypeOK
<1>1. CASE \E id \in Ids : RequestNext(id)
  BY <1>1 DEF RequestNext, Create, Announce, Deny, DenyTooLate, DenyLog
<1>2. CASE \E a \in Approvers : ApproveNext(a)
  BY <1>2, ApproverTypes DEF ApproveNext, ApproveCheck, ApproveReject, ApproveGrant,
     ApproveRefuse, ApproveSpawn
<1>3. CASE \E r \in Readers : StatusNext(r)
  BY <1>3 DEF StatusNext, StatusSee, StatusTake, StatusAnswer, StatusDeliver
<1>4. CASE DaemonNext
  BY <1>4 DEF DaemonNext, WorkReport, WorkComplete, SweepLog, Sweep, Tick, Restart
<1>5. CASE UNCHANGED vars
  BY <1>5 DEF vars
<1> QED
  BY <1>1, <1>2, <1>3, <1>4, <1>5 DEF Next

(* A handler that takes a result still answers about the same request with *)
(* the status it saw.                                                      *)
LEMMA TookTypes ==
  ASSUME NEW s \in ReaderState, s.pc = "seen"
  PROVE  LET t == [s EXCEPT !.pc = "took"] IN
           t.pc = "took" /\ t.id = s.id /\ t.status = s.status
<1>1. s # IdleReader
  BY DEF IdleReader
<1>2. s \in [pc: {"seen", "took"}, id: Ids, status: States \ {"none"}]
  BY <1>1 DEF ReaderState
<1> QED
  BY <1>2

(* What the CLI knows, who was given a result, and what the record says    *)
(* stay in step.                                                           *)
LEMMA CliInvStep == CliInv /\ [CliNext \/ OthersNext]_cliVars => CliInv'
<1> SUFFICES ASSUME CliInv, [CliNext \/ OthersNext]_cliVars PROVE CliInv'
  OBVIOUS
<1>1. [Next]_vars
  BY CliStepIsBrokerStep
<1>2. IInv /\ TypeOK /\ IInv'
  BY <1>1, InvStep DEF CliInv, IInv
<1>3. \A x \in Ids : NeverRefused(x)'
  BY <1>1, <1>2, NeverRefusedStep DEF CliInv
<1>4. \A x \in Ids : taker[x] # {} => work'[x] = "done" /\ ~Deliverable(store'[x])
  BY <1>1, <1>2, StaysGivenStep DEF CliInv, GivenOnce
<1>5. \A x \in Ids : work[x] # "none" => work'[x] # "none"
  BY <1>1, <1>2, WorkStays
<1> DEFINE Kept == CliTypeOK' /\ CliView' /\ \A x \in Ids : GivenOnce(x)'
<1> SUFFICES Kept
  BY <1>2, <1>3 DEF CliInv
<1>6. CASE CliStart
  <2>1. PICK a \in Approvers : ApproveSpawn(a) /\ cli' = [cli EXCEPT !.pc = "polling", !.id = approver[a].id]
    BY <1>6 DEF CliStart
  <2>2. approver[a].id \in Ids
    BY <1>2, <2>1, ApproverTypes DEF ApproveSpawn, TypeOK
  <2>3. work'[approver[a].id] = "running"
    BY <1>2, <2>1, <2>2 DEF ApproveSpawn, TypeOK
  <2>4. taker' = taker
    BY <1>6 DEF CliStart
  <2>5. /\ CliTypeOK' /\ cli'.pc = "polling" /\ cli'.id = approver[a].id
    BY <2>1, <2>2, <2>4 DEF CliInv, CliTypeOK
  <2> QED
    BY <1>4, <2>2, <2>3, <2>4, <2>5 DEF CliView, GivenOnce
<1>7. CASE CliPollFails \/ CliGiveUp
  <2>1. UNCHANGED <<vars, taker>> /\ cli.pc = "polling" /\ cli'.pc \in {"polling", "gaveUp"}
        /\ cli'.id = cli.id /\ CliTypeOK'
    BY <1>7 DEF CliPollFails, CliGiveUp, CliInv, CliTypeOK
  <2> QED
    BY <1>4, <1>5, <2>1 DEF CliInv, CliView, GivenOnce
<1>8. ASSUME NEW r \in Readers, CliPoll(r) PROVE Kept
  <2>1. /\ cli.pc = "polling" /\ cli'.pc = "asked" /\ cli'.by = r /\ cli'.id = cli.id
        /\ taker' = taker /\ CliTypeOK'
    <3>1. /\ cli.pc = "polling" /\ taker' = taker /\ cli.polls + 1 \in Nat
          /\ cli' = [cli EXCEPT !.pc = "asked", !.polls = cli.polls + 1, !.by = r]
      BY <1>8 DEF CliPoll, CliInv, CliTypeOK
    <3> QED
      BY <3>1 DEF CliInv, CliTypeOK
  <2>2. cli.id \in Ids /\ work[cli.id] # "none"
    BY <2>1 DEF CliInv, CliView
  <2>3. /\ store[cli.id].state \in {"executing", "completed"}
        /\ reader'[r] = [pc |-> "seen", id |-> cli.id, status |-> store[cli.id].state]
    BY <1>2, <1>8, <2>2 DEF CliPoll, StatusSee, CliInv, NeverRefused, Approved, TypeOK
  <2> QED
    BY <1>4, <1>5, <2>1, <2>2, <2>3 DEF CliView, GivenOnce
<1>9. ASSUME NEW r \in Readers, CliTake(r) PROVE Kept
  <2>1. /\ cli' = cli /\ cli.pc = "asked" /\ cli.by = r /\ cli.id \in Ids /\ reader[r].id = cli.id
        /\ taker' = [taker EXCEPT ![cli.id] = @ \cup {"cli"}]
    BY <1>9 DEF CliTake, Serving, CliInv, CliView
  <2>2. /\ Deliverable(store[cli.id]) /\ ~Deliverable(store'[cli.id])
        /\ work'[cli.id] = "done" /\ reader' = [reader EXCEPT ![r].pc = "took"]
    BY <1>2, <1>9, <2>1, TakeEffect DEF CliTake
  <2>3. taker[cli.id] = {} /\ taker'[cli.id] = {"cli"}
    BY <2>1, <2>2 DEF CliInv, GivenOnce, CliTypeOK
  <2>4. reader'[r].pc = "took" /\ reader'[r].id = cli.id /\ reader'[r].status = reader[r].status
    BY <1>2, <1>9, <2>1, <2>2, TookTypes DEF CliTake, StatusTake, TypeOK
  <2>5. CliTypeOK'
    BY <2>1 DEF CliInv, CliTypeOK
  <2>6. CliView'
    BY <1>5, <2>1, <2>3, <2>4 DEF CliInv, CliView
  <2>7. \A x \in Ids : GivenOnce(x)'
    BY <1>4, <2>1, <2>2 DEF GivenOnce, CliInv, CliTypeOK
  <2> QED
    BY <2>5, <2>6, <2>7
<1>10. ASSUME NEW r \in Readers, CliRead(r) PROVE Kept
  <2>1. /\ cli.pc = "asked" /\ cli.by = r /\ taker' = taker
        /\ reader[r].status \in {"executing", "completed"}
        /\ reader[r].pc = "took" => taker[cli.id] = {"cli"}
    BY <1>10 DEF CliRead, Serving, CliInv, CliView
  <2>2. PICK result \in BOOLEAN :
          /\ cli' = [cli EXCEPT !.pc = Outcome(reader[r].status, result), !.by = Nobody]
          /\ result => reader[r].pc = "took"
    BY <1>10 DEF CliRead, Answered, StatusDeliver
  <2>3. /\ Outcome(reader[r].status, result) \in {"polling", "printed", "consumed"}
        /\ Outcome(reader[r].status, result) = "printed" => result
    BY <2>1 DEF Outcome
  <2>4. /\ CliTypeOK' /\ cli'.id = cli.id
        /\ cli'.pc \in {"polling", "printed", "consumed"} /\ (cli'.pc = "printed" => result)
    BY <2>1, <2>2, <2>3 DEF CliInv, CliTypeOK
  <2> QED
    BY <1>4, <1>5, <2>1, <2>2, <2>4 DEF CliInv, CliView, GivenOnce
<1>11. ASSUME NEW r \in Readers, ~Serving(r), OthersTake(r) PROVE Kept
  <2> DEFINE id == reader[r].id
  <2>1. /\ id \in Ids /\ Deliverable(store[id]) /\ ~Deliverable(store'[id])
        /\ work'[id] = "done" /\ reader' = [reader EXCEPT ![r].pc = "took"]
    BY <1>2, <1>11, TakeEffect DEF OthersTake
  <2>2. cli' = cli /\ taker' = [taker EXCEPT ![id] = @ \cup {r}]
    BY <1>11 DEF OthersTake
  <2>3. taker[id] = {}
    BY <2>1 DEF CliInv, GivenOnce
  <2>4. CliTypeOK'
    BY <2>1, <2>2 DEF CliInv, CliTypeOK
  <2>5. \A x \in Ids : GivenOnce(x)'
    BY <1>4, <2>1, <2>2 DEF GivenOnce, CliInv, CliTypeOK
  <2>6. \A x \in Ids : x # id => taker'[x] = taker[x]
    BY <2>2 DEF CliInv, CliTypeOK
  <2>7. CASE cli.pc = "asked"
    <3>1. cli.by # r /\ reader'[cli.by] = reader[cli.by]
      BY <1>11, <2>1, <2>7, <1>2 DEF Serving, CliInv, CliView, TypeOK
    <3> QED
      BY <1>5, <2>2, <2>3, <2>4, <2>5, <2>6, <2>7, <3>1 DEF CliInv, CliView
  <2>8. CASE cli.pc # "asked"
    BY <1>5, <2>2, <2>3, <2>4, <2>5, <2>6, <2>8 DEF CliInv, CliView
  <2> QED
    BY <2>7, <2>8
<1>12. ASSUME UNCHANGED <<cli, taker>>, cli.pc = "asked" => reader'[cli.by] = reader[cli.by]
       PROVE  Kept
  <2>1. CliTypeOK' /\ \A x \in Ids : GivenOnce(x)'
    BY <1>4, <1>12 DEF CliInv, CliTypeOK, GivenOnce
  <2>2. CliView'
    BY <1>5, <1>12 DEF CliInv, CliView
  <2> QED
    BY <2>1, <2>2
<1>13. ASSUME NEW r \in Readers, ~Serving(r), OthersStatus(r) PROVE Kept
  <2>1. UNCHANGED <<cli, taker>> /\ \A s \in Readers \ {r} : reader'[s] = reader[s]
    BY <1>2, <1>13 DEF OthersStatus, StatusSee, StatusAnswer, StatusDeliver, TypeOK
  <2> QED
    BY <1>12, <1>13, <2>1 DEF Serving, CliInv, CliView
<1>14. CASE /\ \/ \E id \in Ids : RequestNext(id)
               \/ \E a \in Approvers : ApproveNext(a)
            /\ UNCHANGED <<cli, taker>>
  <2>1. reader' = reader
    <3>1. ASSUME NEW id \in Ids, RequestNext(id) PROVE reader' = reader
      BY <3>1 DEF RequestNext, Create, Announce, Deny, DenyTooLate, DenyLog
    <3>2. ASSUME NEW a \in Approvers, ApproveNext(a) PROVE reader' = reader
      BY <3>2 DEF ApproveNext, ApproveCheck, ApproveReject, ApproveGrant, ApproveRefuse,
         ApproveSpawn
    <3> QED
      BY <1>14, <3>1, <3>2
  <2> QED
    BY <1>12, <1>14, <2>1
<1>15. CASE DaemonNext /\ (IF restarts' # restarts /\ cli.pc = "asked"
                             THEN Answered("polling") ELSE UNCHANGED cli) /\ UNCHANGED taker
  <2>1. CASE Restart
    <3>1. restarts' # restarts
      BY <1>2, <2>1 DEF Restart, TypeOK
    <3>2. cli' = cli \/ cli' = [cli EXCEPT !.pc = "polling", !.by = Nobody]
      BY <1>15, <3>1 DEF Answered
    <3>3. cli.pc = "asked" => cli' = [cli EXCEPT !.pc = "polling", !.by = Nobody]
      BY <1>15, <3>1 DEF Answered
    <3>4. CASE cli.pc = "asked"
      <4>1. /\ CliTypeOK' /\ cli'.pc = "polling" /\ cli'.id = cli.id
        BY <1>15, <3>3, <3>4 DEF CliInv, CliTypeOK
      <4> QED
        BY <1>4, <1>5, <1>15, <3>4, <4>1 DEF CliInv, CliView, GivenOnce
    <3>5. CASE cli.pc # "asked"
      BY <1>12, <1>15, <3>5
    <3> QED
      BY <3>4, <3>5
  <2>2. CASE ~Restart
    <3>1. restarts' = restarts /\ reader' = reader
      BY <1>15, <2>2 DEF DaemonNext, WorkReport, WorkComplete, SweepLog, Sweep, Tick
    <3> QED
      BY <1>12, <1>15, <3>1
  <2> QED
    BY <2>1, <2>2
<1>16. CASE UNCHANGED cliVars
  BY <1>12, <1>16 DEF cliVars, vars
<1> QED
  BY <1>6, <1>7, <1>8, <1>9, <1>10, <1>11, <1>13, <1>14, <1>15, <1>16 DEF CliNext,
     OthersNext

(* The CLI starts with nothing known and nobody given anything.            *)
LEMMA CliInvInit == CliInit => CliInv
<1> SUFFICES ASSUME CliInit PROVE CliInv
  OBVIOUS
<1>1. IInv
  BY InvInit DEF CliInit
<1>2. CliTypeOK /\ CliView
  BY DEF CliInit, CliIdle, CliTypeOK, CliView
<1>3. ASSUME NEW x \in Ids PROVE NeverRefused(x) /\ GivenOnce(x)
  BY DEF CliInit, Init, NeverRefused, Approved, Granting, IdleApprover, GivenOnce
<1> QED
  BY <1>1, <1>2, <1>3 DEF CliInv

(* The strengthening that carries the theorems about the CLI.              *)
THEOREM CliInvariance == CliSpec => []CliInv
BY CliInvInit, CliInvStep, PTL DEF CliSpec

(* The broker with the CLI in the place of one operator and of its status  *)
(* clients is the broker: whatever is proved of Spec holds next to the CLI *)
(* (main.rs handle_approve only calls the API everybody calls).            *)
THEOREM CliIsAClient == CliSpec => Spec
<1>1. CliInit => Init
  BY DEF CliInit
<1> QED
  BY <1>1, CliStepIsBrokerStep, CliInvariance, PTL DEF CliSpec, Spec

(* What the CLI prints nobody else was given, before or after, however     *)
(* many status clients ask for the same request (state.rs deliver,         *)
(* main.rs handle_approve).                                                *)
THEOREM PrintedIsMineHolds == CliSpec => []PrintedIsMine
<1>1. CliInv => PrintedIsMine
  BY DEF CliInv, CliView, PrintedIsMine
<1> QED
  BY <1>1, CliInvariance, PTL

(* An operator whose approval was accepted is not told that the request    *)
(* ended denied or expired, for any interleaving with denials, sweeps and  *)
(* restarts (the `other` arm of main.rs handle_approve).                   *)
THEOREM AcceptedNeverEndsOtherwiseHolds == CliSpec => []AcceptedNeverEndsOtherwise
<1>1. CliInv => AcceptedNeverEndsOtherwise
  BY DEF CliInv, CliView, AcceptedNeverEndsOtherwise
<1> QED
  BY <1>1, CliInvariance, PTL

(* One request, one fate, and the one-shot promise, next to the CLI.       *)
THEOREM CliKeepsPromise == CliSpec => []OneFate /\ PromiseKept /\ CodeGate
BY CliIsAClient, OneFateHolds, PromiseKeptHolds, CodeGateHolds, PTL

-----------------------------------------------------------------------------
(* How clients find a daemon and what its two roles may do                 *)
(* (BrokerDiscovery), for any number of daemons, clients and ports.  The   *)
(* invariant says where every token came from: a file, a note and a        *)
(* session of a channel hold a token of that channel, and beside that of a *)
(* file, or of a session that found it in one, is the address of the       *)
(* daemon that made it.                                                    *)

LEMMA DiscoveryInitHolds == DiscoveryInit => DiscoveryInv
<1> SUFFICES ASSUME DiscoveryInit PROVE DiscoveryInv
  OBVIOUS
<1>1. DaemonsOK
  BY DEF DiscoveryInit, DaemonsOK, Listening, Pcs
<1>2. FilesOK /\ NotesOK
  BY MarksAreNoContent DEF DiscoveryInit, FilesOK, NotesOK, Channel
<1>3. SessionsOK /\ CallOK
  BY DEF DiscoveryInit, SessionsOK, NoSession, CallOK
<1>4. LastStartOK
  BY DEF DiscoveryInit, LastStartOK
<1>5. CodesStayWithOperator /\ AnsweredByItsDaemon
  BY DEF DiscoveryInit, CodesStayWithOperator, AnsweredByItsDaemon
<1> QED
  BY <1>1, <1>2, <1>3, <1>4, <1>5 DEF DiscoveryInv

-----------------------------------------------------------------------------
(* The notes, the sessions and the calls of a step of the daemons: once    *)
(* they have an address it stays theirs, and none listens again.           *)
LEMMA DiscoverySessionsStay ==
  ASSUME DiscoveryInv, UNCHANGED <<noted, client, call>>,
         \A d \in Daemon : daemon[d].pc # "off" =>
           /\ daemon'[d].pc # "off" /\ daemon'[d].addr = daemon[d].addr
           /\ Listening(d)' => Listening(d)
  PROVE  /\ NotesOK' /\ SessionsOK' /\ CallOK'
         /\ CodesStayWithOperator' /\ AnsweredByItsDaemon'
<1>1. NotesOK'
  BY DEF DiscoveryInv, NotesOK, Made
<1>2. ASSUME NEW s, SessionOK(s) PROVE SessionOK(s)'
  BY <1>2 DEF SessionOK, Made
<1>3. SessionsOK' /\ CallOK'
  <2>1. ASSUME NEW c \in Client, client[c] # NoSession PROVE SessionOK(client[c])'
    BY <1>2, <2>1 DEF DiscoveryInv, SessionsOK, SessionOK, Made
  <2>2. ASSUME call # None PROVE SessionOK(call.session)'
    BY <1>2, <2>2 DEF DiscoveryInv, CallOK, SessionOK, Made
  <2> QED
    BY <2>1, <2>2 DEF DiscoveryInv, SessionsOK, CallOK
<1>4. CodesStayWithOperator'
  BY DEF DiscoveryInv, CodesStayWithOperator
<1>5. AnsweredByItsDaemon'
  <2>1. call # None => call.session.token.by \in Daemon /\ daemon[call.session.token.by].pc # "off"
    BY DEF DiscoveryInv, CallOK, SessionOK, Made
  <2>2. call # None /\ Listening(call.session.token.by)' => Listening(call.session.token.by)
    BY <2>1
  <2> QED
    BY <2>2 DEF DiscoveryInv, AnsweredByItsDaemon
<1> QED
  BY <1>1, <1>3, <1>4, <1>5

(* A file that a step of the daemons leaves alone.                         *)
LEMMA DiscoveryFileStays ==
  ASSUME DiscoveryInv, NEW ch \in Channel, file'[ch] = file[ch],
         \A d \in Daemon : daemon[d].pc # "off" =>
           daemon'[d].pc # "off" /\ daemon'[d].addr = daemon[d].addr
  PROVE  /\ file'[ch] \in Content \cup {Empty, None}
         /\ (file[ch] \in Content =>
               Made(file[ch].token, ch) /\ file[ch].addr = daemon[file[ch].token.by].addr)'
<1>1. /\ file[ch] \in Content \cup {Empty, None}
      /\ file[ch] \in Content =>
           /\ file[ch].token.by \in Daemon /\ daemon[file[ch].token.by].pc # "off"
           /\ file[ch].token \in [by : Daemon, channel : Channel] /\ file[ch].token.channel = ch
           /\ file[ch].addr = daemon[file[ch].token.by].addr
  BY DEF DiscoveryInv, FilesOK, Made
<1> QED
  BY <1>1 DEF Made

LEMMA DiscoveryBindKeeps ==
  ASSUME DiscoveryInv, NEW d \in Daemon, NEW a \in Addr, Bind(d, a)
  PROVE  DiscoveryInv'
<1>0. /\ daemon'[d].pc = "open" /\ daemon'[d].addr = a /\ daemon[d].pc = "off"
      /\ \A e \in Daemon : e # d => daemon'[e] = daemon[e]
  BY DEF DiscoveryInv, DaemonsOK, Bind
<1>1. DaemonsOK'
  <2>1. \A e \in Daemon : Listening(e)' => Listening(e) \/ e = d
    BY <1>0 DEF Listening
  <2>2. \A e, f \in Daemon :
          Listening(e)' /\ Listening(f)' /\ daemon'[e].addr = daemon'[f].addr => e = f
    BY <1>0, <2>1 DEF DiscoveryInv, DaemonsOK, Bind
  <2>3. daemon' \in [Daemon -> [pc : Pcs, next : {1, 2}, addr : Addr \cup {None}, pending : BOOLEAN]]
    BY ZenonT(60) DEF DiscoveryInv, DaemonsOK, Bind, Pcs
  <2>4. \A e \in Daemon : (Listening(e)' => daemon'[e].addr \in Addr)
                           /\ (daemon'[e].pc = "off" => daemon'[e].next = 1)
    BY <1>0, <2>1 DEF DiscoveryInv, DaemonsOK
  <2> QED
    BY <2>2, <2>3, <2>4 DEF DaemonsOK
<1>2. FilesOK'
  <2>1. file' = file
    BY DEF Bind
  <2> QED
    BY <1>0, <2>1, DiscoveryFileStays DEF DiscoveryInv, FilesOK
<1>3. LastStartOK'
  <2>1. daemon'[d].pc = "open" /\ daemon'[d].next = 1 /\ last' = d
    BY DEF DiscoveryInv, DaemonsOK, Bind, Pcs
  <2>2. ASSUME calm', NEW e \in Daemon, Starting(e)' PROVE e = d
    BY <2>2 DEF DiscoveryInv, DaemonsOK, Bind, Starting
  <2> QED
    BY <2>1, <2>2 DEF LastStartOK, Listening
<1>4. NotesOK' /\ SessionsOK' /\ CallOK' /\ CodesStayWithOperator' /\ AnsweredByItsDaemon'
  BY <1>0, DiscoverySessionsStay DEF Bind, Listening
<1> QED
  BY <1>1, <1>2, <1>3, <1>4 DEF DiscoveryInv

LEMMA DiscoveryOpenFileKeeps ==
  ASSUME DiscoveryInv, NEW d \in Daemon, OpenFile(d)
  PROVE  DiscoveryInv'
<1>0. /\ daemon[d].pc = "open" /\ daemon'[d].pc = "write"
      /\ \A e \in Daemon : daemon'[e].addr = daemon[e].addr /\ (e # d => daemon'[e] = daemon[e])
  BY DEF DiscoveryInv, DaemonsOK, OpenFile
<1>1. DaemonsOK'
  <2>1. \A e \in Daemon : Listening(e)' <=> Listening(e)
    BY <1>0 DEF Listening
  <2>2. daemon' \in [Daemon -> [pc : Pcs, next : {1, 2}, addr : Addr \cup {None}, pending : BOOLEAN]]
    BY DEF DiscoveryInv, DaemonsOK, OpenFile, Pcs
  <2> QED
    BY <1>0, <2>1, <2>2 DEF DiscoveryInv, DaemonsOK
<1>2. FilesOK'
  <2>1. PICK ch \in Channel : file' = [file EXCEPT ![ch] = Empty]
    <3>1. daemon[d].next \in {1, 2}
      BY DEF DiscoveryInv, DaemonsOK
    <3>2. Channels[daemon[d].next] \in Channel
      BY <3>1 DEF Channel, Channels
    <3> QED
      BY <3>2 DEF OpenFile
  <2>2. \A other \in Channel : other # ch => file'[other] = file[other]
    BY <2>1 DEF DiscoveryInv, FilesOK
  <2>3. file'[ch] = Empty /\ file' \in [Channel -> Content \cup {Empty, None}]
    BY <2>1 DEF DiscoveryInv, FilesOK
  <2> QED
    BY <1>0, <2>2, <2>3, MarksAreNoContent, DiscoveryFileStays DEF FilesOK
<1>3. LastStartOK'
  <2> SUFFICES ASSUME calm, last # None PROVE LastStartOK'
    BY DEF OpenFile, LastStartOK
  <2>1. d = last /\ daemon[d].pc = "open" /\ daemon[d].next \in {1, 2}
    BY DEF DiscoveryInv, LastStartOK, OpenFile, Starting, DaemonsOK
  <2>2. daemon'[d].pc = "write" /\ daemon'[d].next = daemon[d].next /\ daemon'[d].addr = daemon[d].addr
    BY DEF OpenFile, DiscoveryInv, DaemonsOK
  <2>3. \A e \in Daemon : Starting(e)' => e = last
    BY <2>1 DEF OpenFile, DiscoveryInv, DaemonsOK, LastStartOK, Starting
  <2>4. daemon[d].next = 2 => file'["agent"] = Discovery(last, "agent")'
    BY <2>1, <2>2 DEF OpenFile, DiscoveryInv, FilesOK, LastStartOK, Discovery, Token,
       Channels, Channel
  <2> QED
    BY <2>1, <2>2, <2>3, <2>4 DEF LastStartOK, Listening, OpenFile
<1>4. NotesOK' /\ SessionsOK' /\ CallOK' /\ CodesStayWithOperator' /\ AnsweredByItsDaemon'
  BY <1>0, DiscoverySessionsStay DEF OpenFile, Listening
<1> QED
  BY <1>1, <1>2, <1>3, <1>4 DEF DiscoveryInv

LEMMA DiscoveryWriteFileKeeps ==
  ASSUME DiscoveryInv, NEW d \in Daemon, WriteFile(d)
  PROVE  DiscoveryInv'
<1>5. /\ daemon[d].pc = "write" /\ daemon'[d].pc \in {"open", "serving"}
      /\ \A e \in Daemon : daemon'[e].addr = daemon[e].addr /\ (e # d => daemon'[e] = daemon[e])
  BY DEF DiscoveryInv, DaemonsOK, WriteFile
<1>1. DaemonsOK'
  <2>1. \A e \in Daemon : Listening(e)' <=> Listening(e)
    BY <1>5 DEF Listening
  <2>2. daemon' \in [Daemon -> [pc : Pcs, next : {1, 2}, addr : Addr \cup {None}, pending : BOOLEAN]]
    BY DEF DiscoveryInv, DaemonsOK, WriteFile, Channels, Pcs
  <2> QED
    BY <1>5, <2>1, <2>2 DEF DiscoveryInv, DaemonsOK
<1>0. daemon[d].next \in {1, 2} /\ daemon[d].addr \in Addr /\ Channels[daemon[d].next] \in Channel
  BY DEF DiscoveryInv, DaemonsOK, WriteFile, Listening, Channels, Channel
<1>2. FilesOK'
  <2>2. PICK ch \in Channel : file' = [file EXCEPT ![ch] = Discovery(d, ch)]
    BY <1>0 DEF WriteFile
  <2>3. \A other \in Channel : other # ch => file'[other] = file[other]
    BY <2>2 DEF DiscoveryInv, FilesOK
  <2>4. /\ file'[ch] = [addr |-> daemon[d].addr, token |-> [by |-> d, channel |-> ch]]
        /\ DOMAIN file' = Channel /\ file' = [x \in Channel |-> file'[x]]
    BY <2>2 DEF DiscoveryInv, FilesOK, Discovery, Token
  <2>5. /\ file'[ch].token.by = d /\ file'[ch].token.channel = ch
        /\ file'[ch].addr = daemon'[d].addr /\ daemon'[d].pc # "off"
        /\ file'[ch].token \in [by : Daemon, channel : Channel]
        /\ file'[ch] \in Content
    BY <1>0, <1>5, <2>4 DEF Content
  <2>6. (Made(file[ch].token, ch) /\ file[ch].addr = daemon[file[ch].token.by].addr)'
    BY <2>5 DEF Made
  <2> QED
    BY <1>5, <2>3, <2>4, <2>5, <2>6, DiscoveryFileStays DEF FilesOK
<1>3. LastStartOK'
  <2> SUFFICES ASSUME calm, last # None PROVE LastStartOK'
    BY DEF WriteFile, LastStartOK
  <2>1. d = last /\ daemon[d].pc = "write"
    BY DEF DiscoveryInv, LastStartOK, WriteFile, Starting
  <2>2. \A e \in Daemon : Starting(e)' => e = last
    BY <2>1 DEF WriteFile, DiscoveryInv, DaemonsOK, LastStartOK, Starting
  <2>3. CASE daemon[d].next = 1
    <3>1. /\ daemon'[d].pc = "open" /\ daemon'[d].next = 2 /\ daemon'[d].addr = daemon[d].addr
          /\ file'["agent"] = Discovery(d, "agent")
      BY <2>3 DEF WriteFile, DiscoveryInv, DaemonsOK, FilesOK, Channels, Channel
    <3> QED
      BY <2>1, <2>2, <3>1 DEF LastStartOK, Listening, WriteFile, Discovery, Token
  <2>4. CASE daemon[d].next = 2
    <3>1. /\ daemon'[d].pc = "serving" /\ daemon'[d].addr = daemon[d].addr
          /\ file'["admin"] = Discovery(d, "admin") /\ file'["agent"] = file["agent"]
      BY <2>4 DEF WriteFile, DiscoveryInv, DaemonsOK, FilesOK, Channels, Channel
    <3>2. file["agent"] = Discovery(d, "agent")
      BY <2>1, <2>4 DEF DiscoveryInv, LastStartOK
    <3> QED
      BY <2>1, <2>2, <3>1, <3>2 DEF LastStartOK, Listening, WriteFile, Discovery, Token
  <2> QED
    BY <1>0, <2>3, <2>4
<1>4. NotesOK' /\ SessionsOK' /\ CallOK' /\ CodesStayWithOperator' /\ AnsweredByItsDaemon'
  BY <1>5, DiscoverySessionsStay DEF WriteFile, Listening
<1> QED
  BY <1>1, <1>2, <1>3, <1>4 DEF DiscoveryInv

LEMMA DiscoveryEndKeeps ==
  ASSUME DiscoveryInv, NEW d \in Daemon, End(d)
  PROVE  DiscoveryInv'
<1>0. /\ daemon'[d].pc = "gone"
      /\ \A e \in Daemon : daemon'[e].addr = daemon[e].addr /\ (e # d => daemon'[e] = daemon[e])
  BY DEF DiscoveryInv, DaemonsOK, End
<1>1. DaemonsOK'
  <2>1. \A e \in Daemon : Listening(e)' => Listening(e)
    BY <1>0 DEF Listening
  <2>2. daemon' \in [Daemon -> [pc : Pcs, next : {1, 2}, addr : Addr \cup {None}, pending : BOOLEAN]]
    <3>1. daemon \in [Daemon -> [pc : Pcs, next : {1, 2}, addr : Addr \cup {None}, pending : BOOLEAN]]
      BY DEF DiscoveryInv, DaemonsOK
    <3>2. daemon' = [daemon EXCEPT ![d] = [@ EXCEPT !.pc = "gone", !.pending = FALSE]]
      BY <3>1 DEF End
    <3>3. "gone" \in Pcs /\ FALSE \in BOOLEAN
      BY DEF Pcs
    <3> HIDE DEF Pcs
    <3> QED
      BY <3>1, <3>2, <3>3
  <2> QED
    BY <1>0, <2>1, <2>2 DEF DiscoveryInv, DaemonsOK
<1>2. FilesOK'
  <2>1. file' = file
    BY DEF End
  <2> QED
    BY <1>0, <2>1, DiscoveryFileStays DEF DiscoveryInv, FilesOK
<1>3. LastStartOK'
  <2> SUFFICES ASSUME calm, last # None, d # last PROVE LastStartOK'
    BY DEF End, LastStartOK
  <2>1. last \in Daemon /\ daemon'[last] = daemon[last]
    BY DEF DiscoveryInv, LastStartOK, DaemonsOK, End
  <2>2. \A e \in Daemon : Starting(e)' => Starting(e)
    BY DEF End, DiscoveryInv, DaemonsOK, Starting
  <2> QED
    BY <2>1, <2>2 DEF DiscoveryInv, LastStartOK, Listening, Discovery, Token, End
<1>4. NotesOK' /\ SessionsOK' /\ CallOK' /\ CodesStayWithOperator' /\ AnsweredByItsDaemon'
  BY <1>0, DiscoverySessionsStay DEF End, Listening
<1> QED
  BY <1>1, <1>2, <1>3, <1>4 DEF DiscoveryInv

-----------------------------------------------------------------------------
(* The daemons as a step of the clients or of the operator leaves them.    *)
LEMMA DiscoveryDaemonsStay ==
  ASSUME DiscoveryInv, UNCHANGED <<daemon, file, last, calm>>
  PROVE  DaemonsOK' /\ FilesOK' /\ LastStartOK'
<1>1. DaemonsOK' /\ FilesOK'
  BY DEF DiscoveryInv, DaemonsOK, FilesOK, Listening, Made
<1>2. LastStartOK'
  BY DEF DiscoveryInv, LastStartOK, Listening, Starting, Discovery, Token
<1> QED
  BY <1>1, <1>2

(* What was said of the last call, too.                                    *)
LEMMA DiscoveryCallStays ==
  ASSUME DiscoveryInv, UNCHANGED <<daemon, call>>
  PROVE  CallOK' /\ CodesStayWithOperator' /\ AnsweredByItsDaemon'
BY DEF DiscoveryInv, CallOK, SessionOK, Made, CodesStayWithOperator, AnsweredByItsDaemon,
   Listening

LEMMA DiscoveryNoteKeeps ==
  ASSUME DiscoveryInv, NEW ch \in Channel, NoteUrl(ch) \/ NoteToken(ch)
  PROVE  DiscoveryInv'
<1>1. file[ch] \in Content /\ Made(file[ch].token, ch)
  BY DEF DiscoveryInv, FilesOK, NoteUrl, NoteToken
<1>2. NotesOK'
  <2>1. file[ch].addr \in Addr /\ file[ch].token \in [by : Daemon, channel : Channel]
    BY <1>1 DEF Content
  <2>2. CASE NoteUrl(ch)
    BY <2>1, <2>2 DEF DiscoveryInv, NotesOK, NoteUrl, Made
  <2>3. CASE NoteToken(ch)
    BY <1>1, <2>1, <2>3 DEF DiscoveryInv, NotesOK, NoteToken, Made
  <2> QED
    BY <2>2, <2>3
<1>3. UNCHANGED <<daemon, file, client, call, last, calm>>
  BY DEF NoteUrl, NoteToken
<1>4. SessionsOK'
  BY <1>3 DEF DiscoveryInv, SessionsOK, SessionOK, Made
<1> QED
  BY <1>2, <1>3, <1>4, DiscoveryDaemonsStay, DiscoveryCallStays DEF DiscoveryInv

LEMMA DiscoveryConnectKeeps ==
  ASSUME DiscoveryInv, NEW c \in Client, NEW ch \in Channel, NEW env \in Environments(ch), Connect(c, ch, env)
  PROVE  DiscoveryInv'
<1> DEFINE to == Endpoint(ch, env)
           via == IF env.url # None /\ env.token # None THEN "environment" ELSE "file"
           s == [channel |-> ch, addr |-> to.addr, token |-> to.token, via |-> via]
<1>1. /\ to.addr \in Addr /\ Made(to.token, ch)
      /\ via = "file" => to.addr = daemon[to.token.by].addr
  <2>1. to # None
    BY DEF Connect
  <2>2. CASE env.url # None /\ env.token # None
    <3>1. env.url = noted.url /\ env.token = noted.token[ch] /\ env.url \in Addr
      BY <2>2 DEF Environments, DiscoveryInv, NotesOK
    <3> QED
      BY <2>2, <3>1 DEF Endpoint, DiscoveryInv, NotesOK
  <2>3. CASE ~(env.url # None /\ env.token # None)
    <3>1. file[ch] \in Content /\ to = file[ch]
      BY <2>1, <2>3 DEF Endpoint, DiscoveryInv, FilesOK
    <3> QED
      BY <3>1 DEF DiscoveryInv, FilesOK, Content
  <2> QED
    BY <2>2, <2>3
<1>2. client' = [client EXCEPT ![c] = s] /\ UNCHANGED <<daemon, file, noted, call, last, calm>>
  BY DEF Connect
<1>3. SessionsOK'
  <2>1. /\ s.channel = ch /\ s.addr = to.addr /\ s.token = to.token /\ s.via = via
        /\ s \in [channel : Channel \cup {None}, addr : Addr \cup {None},
                  token : [by : Daemon, channel : Channel] \cup {None},
                  via : {"file", "environment", None}]
    BY <1>1 DEF Made
  <2>2. SessionOK(s)
    BY <1>1, <2>1 DEF SessionOK
  <2> HIDE DEF s
  <2> QED
    BY <1>2, <2>1, <2>2 DEF DiscoveryInv, SessionsOK, SessionOK, Made
<1>4. NotesOK'
  BY <1>2 DEF DiscoveryInv, NotesOK, Made
<1> QED
  BY <1>2, <1>3, <1>4, DiscoveryDaemonsStay, DiscoveryCallStays DEF DiscoveryInv

LEMMA DiscoveryDisconnectKeeps ==
  ASSUME DiscoveryInv, NEW c \in Client, Disconnect(c)
  PROVE  DiscoveryInv'
<1>1. SessionsOK'
  BY DEF DiscoveryInv, SessionsOK, Disconnect, NoSession, SessionOK, Made
<1>2. NotesOK'
  BY DEF DiscoveryInv, NotesOK, Disconnect, Made
<1> QED
  BY <1>1, <1>2, DiscoveryDaemonsStay, DiscoveryCallStays DEF Disconnect, DiscoveryInv

(* The role check: a session of the agent channel holds an agent's token,  *)
(* and only the daemon that made it takes it; one from a file has that     *)
(* daemon's address, which nobody else listens at as long as it does.      *)
LEMMA DiscoveryCallKeeps ==
  ASSUME DiscoveryInv, NEW c \in Client, NEW ep \in Endpoints, Call(c, ep)
  PROVE  DiscoveryInv'
<1> DEFINE s == client[c]
<1>1. PICK d \in Daemon :
        /\ daemon[d].pc = "serving" /\ daemon[d].addr = s.addr
        /\ LET answer == Answer(d, Role(d, s.token), ep) IN
             /\ call' = [session |-> s, by |-> d, answer |-> answer]
             /\ daemon' = CASE answer = "decided" -> [daemon EXCEPT ![d].pending = FALSE]
                            [] answer = "answered" /\ ep = "request" -> [daemon EXCEPT ![d].pending = TRUE]
                            [] OTHER -> daemon
  BY DEF Call
<1> DEFINE role == Role(d, s.token)
           answer == Answer(d, role, ep)
<1>2. SessionOK(s) /\ s.token.channel = s.channel
  BY DEF Call, DiscoveryInv, SessionsOK, SessionOK, Made
<1>3. answer # "refused" => Allowed(role, ep)
  BY DEF Answer
<1>4. answer \in {"codes", "decided"} => role = "admin"
  BY DEF Answer, Allowed
<1>5. /\ role = "admin" => s.token = Token(d, "admin")
      /\ role = "agent" => s.token = Token(d, "agent")
  BY MarksAreNoContent DEF Role, Channel
<1>6. /\ role = "admin" => s.channel = "admin"
      /\ role \in {"admin", "agent"} => s.token.by = d
  BY <1>2, <1>5 DEF Token
<1>7. CodesStayWithOperator'
  BY <1>1, <1>4, <1>6 DEF CodesStayWithOperator
<1>8. \A e \in Daemon : /\ daemon'[e].pc = daemon[e].pc /\ daemon'[e].next = daemon[e].next
                        /\ daemon'[e].addr = daemon[e].addr
  BY <1>1, Zenon DEF DiscoveryInv, DaemonsOK
<1>9. AnsweredByItsDaemon'
  <2>1. answer # "refused" => d = s.token.by
    BY <1>3, <1>6 DEF Allowed
  <2>2. s.token.by \in Daemon
    BY <1>2 DEF SessionOK, Made
  <2>3. ASSUME s.via = "file", daemon'[s.token.by].pc \in {"open", "write", "serving"}
        PROVE  d = s.token.by
    <3>1. Listening(s.token.by) /\ Listening(d)
      BY <1>1, <1>8, <2>2, <2>3 DEF Listening
    <3>2. daemon[d].addr = daemon[s.token.by].addr
      BY <1>1, <1>2, <2>3 DEF SessionOK
    <3> QED
      BY <2>2, <3>1, <3>2 DEF DiscoveryInv, DaemonsOK
  <2>4. call'.session = s /\ call'.by = d /\ call'.answer = answer
    BY <1>1
  <2> QED
    BY <2>1, <2>3, <2>4 DEF AnsweredByItsDaemon, Listening
<1>10. DaemonsOK'
  <2>1. daemon' \in [Daemon -> [pc : Pcs, next : {1, 2}, addr : Addr \cup {None}, pending : BOOLEAN]]
    BY <1>1, ZenonT(60) DEF DiscoveryInv, DaemonsOK
  <2> QED
    BY <1>8, <2>1 DEF DiscoveryInv, DaemonsOK, Listening
<1>11. LastStartOK'
  BY <1>8 DEF Call, DiscoveryInv, LastStartOK, Listening, Starting, Discovery, Token
<1>12. FilesOK' /\ NotesOK' /\ SessionsOK'
  <2>1. UNCHANGED <<file, noted, client>>
    BY DEF Call
  <2>2. FilesOK' /\ NotesOK'
    BY <1>8, <2>1 DEF DiscoveryInv, FilesOK, NotesOK, Made
  <2>3. SessionsOK'
    BY <1>8, <2>1 DEF DiscoveryInv, SessionsOK, SessionOK, Made
  <2> QED
    BY <2>2, <2>3
<1>13. CallOK'
  BY <1>1, <1>2, <1>8 DEF CallOK, SessionOK, Made
<1> QED
  BY <1>7, <1>9, <1>10, <1>11, <1>12, <1>13 DEF DiscoveryInv

-----------------------------------------------------------------------------
(* The invariant of every reachable state: files, notes and sessions hold  *)
(* tokens of their channel, files and the sessions that read one the       *)
(* address of the daemon that made it, no two daemons listen at one, and   *)
(* an undisturbed start owns both files (ipc.rs start, client.rs admin and *)
(* agent, ipc.rs role_of).                                                 *)
THEOREM DiscoveryInvariance == DiscoverySpec => []DiscoveryInv
<1>1. DiscoveryInit => DiscoveryInv
  BY DiscoveryInitHolds
<1>2. DiscoveryInv /\ [DiscoveryNext]_discoveryVars => DiscoveryInv'
  <2> SUFFICES ASSUME DiscoveryInv, [DiscoveryNext]_discoveryVars PROVE DiscoveryInv'
    OBVIOUS
  <2>1. ASSUME NEW d \in Daemon, NEW a \in Addr, Bind(d, a) PROVE DiscoveryInv'
    BY <2>1, DiscoveryBindKeeps
  <2>2. ASSUME NEW d \in Daemon, OpenFile(d) PROVE DiscoveryInv'
    BY <2>2, DiscoveryOpenFileKeeps
  <2>3. ASSUME NEW d \in Daemon, WriteFile(d) PROVE DiscoveryInv'
    BY <2>3, DiscoveryWriteFileKeeps
  <2>4. ASSUME NEW d \in Daemon, End(d) PROVE DiscoveryInv'
    BY <2>4, DiscoveryEndKeeps
  <2>5. ASSUME NEW ch \in Channel, NoteUrl(ch) \/ NoteToken(ch) PROVE DiscoveryInv'
    BY <2>5, DiscoveryNoteKeeps
  <2>6. ASSUME NEW c \in Client, NEW ch \in Channel, NEW env \in Environments(ch), Connect(c, ch, env)
        PROVE DiscoveryInv'
    BY <2>6, DiscoveryConnectKeeps
  <2>7. ASSUME NEW c \in Client, Disconnect(c) PROVE DiscoveryInv'
    BY <2>7, DiscoveryDisconnectKeeps
  <2>8. ASSUME NEW c \in Client, NEW ep \in Endpoints, Call(c, ep) PROVE DiscoveryInv'
    BY <2>8, DiscoveryCallKeeps
  <2>9. CASE UNCHANGED discoveryVars
    <3>1. NotesOK' /\ SessionsOK'
      BY <2>9 DEF discoveryVars, DiscoveryInv, NotesOK, SessionsOK, SessionOK, Made
    <3> QED
      BY <2>9, <3>1, DiscoveryDaemonsStay, DiscoveryCallStays DEF discoveryVars, DiscoveryInv
  <2> QED
    BY <2>1, <2>2, <2>3, <2>4, <2>5, <2>6, <2>7, <2>8, <2>9 DEF DiscoveryNext,
       DaemonsNext, ClientNext
<1> QED
  BY <1>1, <1>2, PTL DEF DiscoverySpec

(* ipc.rs: no code and no decision for the agent's token (list_requests,   *)
(* approve_request, deny_request).                                         *)
THEOREM CodesStayWithOperatorHolds == DiscoverySpec => []CodesStayWithOperator
<1>1. DiscoveryInv => CodesStayWithOperator
  BY DEF DiscoveryInv
<1> QED
  BY <1>1, DiscoveryInvariance, PTL

(* Only the daemon that made its token answers a client, and it does as    *)
(* long as it lives when the client found it in a file (client.rs admin    *)
(* and agent, ipc.rs role_of).                                             *)
THEOREM AnsweredByItsDaemonHolds == DiscoverySpec => []AnsweredByItsDaemon
<1>1. DiscoveryInv => AnsweredByItsDaemon
  BY DEF DiscoveryInv
<1> QED
  BY <1>1, DiscoveryInvariance, PTL

(* Agents and operators find the daemon of an undisturbed start (ipc.rs    *)
(* start).                                                                 *)
THEOREM LastStartIsFoundHolds == DiscoverySpec => []LastStartIsFound
<1>1. DiscoveryInv => LastStartIsFound
  BY DEF DiscoveryInv, LastStartOK, LastStartIsFound, Channel
<1> QED
  BY <1>1, DiscoveryInvariance, PTL
=============================================================================
