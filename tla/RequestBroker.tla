---------------------------- MODULE RequestBroker ----------------------------
(***************************************************************************)
(* The action broker daemon: the request table of broker/state.rs and the  *)
(* HTTP handlers, the spawned executions and the sweeper of broker/ipc.rs  *)
(* that share it.                                                          *)
(*                                                                         *)
(* Every method of RequestStore takes the table's mutex once, so it is one *)
(* atomic step.  A handler calls several of them with the mutex released   *)
(* in between (code_of then approve, snapshot then deliver), and writes    *)
(* its audit event after the call it reports; every such boundary is a     *)
(* separate action here, and any other handler may run in between.         *)
(*                                                                         *)
(* Instants are kept as the time left until them, so that                  *)
(* "Instant::now() >= deadline" is "0 left" and time never runs out.       *)
(* The audit chain is kept as the number of events of each kind logged     *)
(* about each request; the order of events is what an invariant over these *)
(* numbers says at every point of a behaviour.                             *)
(*                                                                         *)
(* Request ids are drawn fresh: two live 32-bit random ids that collide    *)
(* are left out.                                                           *)
(***************************************************************************)
EXTENDS Integers, FiniteSets

CONSTANTS
  Ids,          \* request ids that can be drawn
  Codes,        \* approval codes
  NoCode,       \* the empty string an absent code is replaced with
  Approvers,    \* concurrent POST /v1/approve handlers with the admin token
  Readers,      \* concurrent POST /v1/status handlers
  PendingTTL,   \* pending_ttl_secs, in ticks
  ResultTTL,    \* result_ttl_secs, in ticks
  RunLimit,     \* the longest time from an approval to its result, in ticks
  MaxRejects,   \* bound: wrong codes and restarts until no wrong code is tried
  MaxRestarts   \* bound: restarts of the daemon

ASSUME TTLAssumption == PendingTTL \in Nat /\ ResultTTL \in Nat /\ RunLimit \in Nat
ASSUME CodeAssumption == NoCode \notin Codes

VARIABLES
  store,       \* the mutex-protected table; an absent record is Gone
  drawn,       \* ids ever drawn
  announcing,  \* create handlers that inserted the record and have not logged it
  approver,    \* state of each approve handler
  denying,     \* deny handlers that denied the request and have not logged it
  reader,      \* state of each status handler
  sweeping,    \* ids the last sweep expired and the sweeper has not logged yet
  work,        \* the execution spawned for each id
  left,        \* time left of RunLimit for each approved id
  audit,       \* number of audit events of each kind about each id
  restarts     \* restarts so far

vars == <<store, drawn, announcing, approver, denying, reader, sweeping, work,
          left, audit, restarts>>

-----------------------------------------------------------------------------
(* The request table: records and what each RequestStore method makes of   *)
(* one.                                                                    *)

States == {"none", "pending", "executing", "completed", "denied", "expired"}
Events == {"requested", "rejected", "approved", "denied", "expired", "executed", "delivered"}

Record == [state: States, code: Codes \cup {NoCode}, expires: Nat, purge: Nat,
           delivered: BOOLEAN]

Gone == [state |-> "none", code |-> NoCode, expires |-> 0, purge |-> 0, delivered |-> FALSE]

(* Mutant of NewRecord: purge_at without the retention of the result.      *)
NewRecordNoRetention(c) == [state |-> "pending", code |-> c, expires |-> PendingTTL,
                            purge |-> PendingTTL, delivered |-> FALSE]

NewRecord(c) == [state |-> "pending", code |-> c, expires |-> PendingTTL,
                 purge |-> PendingTTL + ResultTTL, delivered |-> FALSE]

(* Leaving the Pending variant drops its code and deadline, not purge_at.  *)
Become(rec, s) == [rec EXCEPT !.state = s, !.code = NoCode, !.expires = 0]

(* Mutant of Lapsed: the sweep matches a request that already executes.    *)
LapsedEvenExecuting(rec) == rec.state \in {"pending", "executing"} /\ rec.expires = 0

Lapsed(rec) == rec.state = "pending" /\ rec.expires = 0

Open(rec) == rec.state = "pending" /\ rec.expires > 0

(* Mutant of Completed: the result is kept, the state is not advanced.     *)
CompletedInPlace(rec) == [rec EXCEPT !.expires = ResultTTL]

Completed(rec) == [Become(rec, "completed") EXCEPT !.expires = ResultTTL, !.delivered = FALSE]

(* Mutant of Deliverable: the delivered flag is not looked at.             *)
DeliverableAgain(rec) == rec.state = "completed"

Deliverable(rec) == rec.state = "completed" /\ ~rec.delivered

(* Mutant of Purgeable: only finished results are dropped.                 *)
PurgeableResult(rec) == rec.state = "completed" /\ rec.expires = 0

Purgeable(rec) == rec.purge = 0 \/ (rec.state = "completed" /\ rec.expires = 0)

Swept(rec) ==
  CASE Lapsed(rec) -> [Become(rec, "expired") EXCEPT !.purge = ResultTTL]
    [] ~Lapsed(rec) /\ Purgeable(rec) -> Gone
    [] OTHER -> rec

(* A deadline one tick nearer.                                             *)
Sooner(t) == IF t > 0 THEN t - 1 ELSE 0

-----------------------------------------------------------------------------
IdleApprover == [pc |-> "idle"]
IdleReader == [pc |-> "idle"]

ApproverState == {IdleApprover}
  \cup [pc: {"checked"}, id: Ids, expected: Codes \cup {NoCode}, given: Codes \cup {NoCode}, yes: BOOLEAN]
  \cup [pc: {"approved"}, id: Ids]

ReaderState == {IdleReader}
  \cup [pc: {"seen", "took"}, id: Ids, status: States \ {"none"}]

Granting(a, id) == approver[a].pc = "approved" /\ approver[a].id = id

Took(r, id) == reader[r].pc = "took" /\ reader[r].id = id

(* Approved, and the result is not in the table yet.                       *)
InFlight(id) == work[id] \in {"running", "reported"} \/ \E a \in Approvers : Granting(a, id)

Log(id, event) == audit' = [audit EXCEPT ![id][event] = @ + 1]

Init ==
  /\ store = [id \in Ids |-> Gone]
  /\ drawn = {}
  /\ announcing = {}
  /\ approver = [a \in Approvers |-> IdleApprover]
  /\ denying = {}
  /\ reader = [r \in Readers |-> IdleReader]
  /\ sweeping = {}
  /\ work = [id \in Ids |-> "none"]
  /\ left = [id \in Ids |-> 0]
  /\ audit = [id \in Ids |-> [e \in Events |-> 0]]
  /\ restarts = 0

-----------------------------------------------------------------------------
(* create_request: insert, then log and answer.                            *)

Create(id) ==
  /\ id \notin drawn
  /\ \E c \in Codes : store' = [store EXCEPT ![id] = NewRecord(c)]
  /\ drawn' = drawn \cup {id}
  /\ announcing' = announcing \cup {id}
  /\ UNCHANGED <<approver, denying, reader, sweeping, work, left, audit, restarts>>

Announce(id) ==
  /\ id \in announcing
  /\ announcing' = announcing \ {id}
  /\ Log(id, "requested")
  /\ UNCHANGED <<store, drawn, approver, denying, reader, sweeping, work, left, restarts>>

-----------------------------------------------------------------------------
(* approve_request: read the expected code, check the given one (unless    *)
(* --yes), then call approve with the expected code, log and spawn.        *)

(* Mutant of Matches: any code will do for a pending request.              *)
MatchesAny(given, expected) == expected # NoCode

Matches(given, expected) == expected # NoCode /\ given = expected

ApproveCheck(a, id, given, yes) ==
  /\ approver[a].pc = "idle"
  /\ yes => given = NoCode          \* a code sent along with --yes is never read
  /\ yes \/ Matches(given, store[id].code)
  /\ approver' = [approver EXCEPT ![a] =
       [pc |-> "checked", id |-> id, expected |-> store[id].code, given |-> given, yes |-> yes]]
  /\ UNCHANGED <<store, drawn, announcing, denying, reader, sweeping, work, left, audit, restarts>>

(* A wrong code: logged and refused, the request stays pending.            *)
ApproveReject(a, id, given) ==
  /\ approver[a].pc = "idle"
  /\ store[id].code # NoCode /\ given # store[id].code
  /\ \A i \in Ids : audit[i]["rejected"] + restarts < MaxRejects
  /\ Log(id, "rejected")
  /\ UNCHANGED <<store, drawn, announcing, approver, denying, reader, sweeping, work, left, restarts>>

(* Mutant of ApproveGrant: the state read with the code is relied on, and  *)
(* not read again under the lock that changes it.                          *)
ApproveGrantStale(a) ==
  /\ approver[a].pc = "checked"
  /\ LET id == approver[a].id IN
       /\ store[id].state # "none" /\ approver[a].expected # NoCode
       /\ store' = [store EXCEPT ![id] = Become(@, "executing")]
       /\ left' = [left EXCEPT ![id] = RunLimit]
       /\ approver' = [approver EXCEPT ![a] = [pc |-> "approved", id |-> id]]
  /\ UNCHANGED <<drawn, announcing, denying, reader, sweeping, work, audit, restarts>>

ApproveGrant(a) ==
  /\ approver[a].pc = "checked"
  /\ LET id == approver[a].id IN
       /\ Open(store[id])
       /\ store[id].code = approver[a].expected
       /\ store' = [store EXCEPT ![id] = Become(@, "executing")]
       /\ left' = [left EXCEPT ![id] = RunLimit]
       /\ approver' = [approver EXCEPT ![a] = [pc |-> "approved", id |-> id]]
  /\ UNCHANGED <<drawn, announcing, denying, reader, sweeping, work, audit, restarts>>

(* Unknown, not pending, past its deadline, or another code: refused.      *)
ApproveRefuse(a) ==
  /\ approver[a].pc = "checked"
  /\ LET id == approver[a].id IN
       /\ ~(Open(store[id]) /\ store[id].code = approver[a].expected)
       /\ store' = [store EXCEPT ![id] = IF Lapsed(@) THEN Become(@, "expired") ELSE @]
  /\ approver' = [approver EXCEPT ![a] = IdleApprover]
  /\ UNCHANGED <<drawn, announcing, denying, reader, sweeping, work, left, audit, restarts>>

ApproveSpawn(a) ==
  /\ approver[a].pc = "approved"
  /\ Log(approver[a].id, "approved")
  /\ work' = [work EXCEPT ![approver[a].id] = "running"]
  /\ approver' = [approver EXCEPT ![a] = IdleApprover]
  /\ UNCHANGED <<store, drawn, announcing, denying, reader, sweeping, left, restarts>>

-----------------------------------------------------------------------------
(* deny_request.                                                           *)

(* Mutant of Deny: a request that executes can be denied too.              *)
DenyRunning(id) ==
  /\ Open(store[id]) \/ store[id].state = "executing"
  /\ store' = [store EXCEPT ![id] = Become(@, "denied")]
  /\ denying' = denying \cup {id}
  /\ UNCHANGED <<drawn, announcing, approver, reader, sweeping, work, left, audit, restarts>>

Deny(id) ==
  /\ Open(store[id])
  /\ store' = [store EXCEPT ![id] = Become(@, "denied")]
  /\ denying' = denying \cup {id}
  /\ UNCHANGED <<drawn, announcing, approver, reader, sweeping, work, left, audit, restarts>>

DenyTooLate(id) ==
  /\ Lapsed(store[id])
  /\ store' = [store EXCEPT ![id] = Become(@, "expired")]
  /\ UNCHANGED <<drawn, announcing, approver, denying, reader, sweeping, work, left, audit, restarts>>

DenyLog(id) ==
  /\ id \in denying
  /\ denying' = denying \ {id}
  /\ Log(id, "denied")
  /\ UNCHANGED <<store, drawn, announcing, approver, reader, sweeping, work, left, restarts>>

-----------------------------------------------------------------------------
(* The spawned execution: run the action and log the outcome, then store   *)
(* the result.                                                             *)

WorkReport(id) ==
  /\ work[id] = "running"
  /\ work' = [work EXCEPT ![id] = "reported"]
  /\ Log(id, "executed")
  /\ UNCHANGED <<store, drawn, announcing, approver, denying, reader, sweeping, left, restarts>>

(* Mutant of WorkComplete: the result is stored before the execution is    *)
(* on record.                                                              *)
WorkCompleteEarly(id) ==
  /\ work[id] = "running"
  /\ work' = [work EXCEPT ![id] = "done"]
  /\ store' = [store EXCEPT ![id] = IF @.state = "none" THEN @ ELSE Completed(@)]
  /\ UNCHANGED <<drawn, announcing, approver, denying, reader, sweeping, left, audit, restarts>>

(* complete() overwrites whatever state the record is in, and does nothing *)
(* when the sweeper already dropped the record.                            *)
WorkComplete(id) ==
  /\ work[id] = "reported"
  /\ work' = [work EXCEPT ![id] = "done"]
  /\ store' = [store EXCEPT ![id] = IF @.state = "none" THEN @ ELSE Completed(@)]
  /\ UNCHANGED <<drawn, announcing, approver, denying, reader, sweeping, left, audit, restarts>>

-----------------------------------------------------------------------------
(* request_status: snapshot for the status, then deliver under a second    *)
(* lock, then log and answer.                                              *)

StatusSee(r, id) ==
  /\ reader[r].pc = "idle"
  /\ store[id].state # "none"
  /\ reader' = [reader EXCEPT ![r] = [pc |-> "seen", id |-> id, status |-> store[id].state]]
  /\ UNCHANGED <<store, drawn, announcing, approver, denying, sweeping, work, left, audit, restarts>>

StatusTake(r) ==
  /\ reader[r].pc = "seen"
  /\ Deliverable(store[reader[r].id])
  /\ store' = [store EXCEPT ![reader[r].id].delivered = TRUE]
  /\ reader' = [reader EXCEPT ![r].pc = "took"]
  /\ UNCHANGED <<drawn, announcing, approver, denying, sweeping, work, left, audit, restarts>>

StatusAnswer(r) ==
  /\ reader[r].pc = "seen"
  /\ ~Deliverable(store[reader[r].id])
  /\ reader' = [reader EXCEPT ![r] = IdleReader]
  /\ UNCHANGED <<store, drawn, announcing, approver, denying, sweeping, work, left, audit, restarts>>

StatusDeliver(r) ==
  /\ reader[r].pc = "took"
  /\ Log(reader[r].id, "delivered")
  /\ reader' = [reader EXCEPT ![r] = IdleReader]
  /\ UNCHANGED <<store, drawn, announcing, approver, denying, sweeping, work, left, restarts>>

-----------------------------------------------------------------------------
(* The sweeper task: one sweep of the whole table, then one audit event    *)
(* per request it expired.                                                 *)

(* Mutant of Sweep: the table is swept when a result has come in.          *)
SweepAfterResult ==
  /\ sweeping = {}
  /\ \E id \in Ids : store[id].state = "completed"
  /\ store' = [id \in Ids |-> Swept(store[id])]
  /\ sweeping' = {id \in Ids : Lapsed(store[id])}
  /\ UNCHANGED <<drawn, announcing, approver, denying, reader, work, left, audit, restarts>>

Sweep ==
  /\ sweeping = {}
  /\ store' = [id \in Ids |-> Swept(store[id])]
  /\ sweeping' = {id \in Ids : Lapsed(store[id])}
  /\ UNCHANGED <<drawn, announcing, approver, denying, reader, work, left, audit, restarts>>

SweepLog(id) ==
  /\ id \in sweeping
  /\ sweeping' = sweeping \ {id}
  /\ Log(id, "expired")
  /\ UNCHANGED <<store, drawn, announcing, approver, denying, reader, work, left, restarts>>

-----------------------------------------------------------------------------
(* Time passes for every deadline.  An execution answers within RunLimit,  *)
(* the action's own timeout and the scheduling of its task included.       *)
Tick ==
  /\ \A id \in Ids : InFlight(id) => left[id] > 0
  /\ store' = [id \in Ids |-> [store[id] EXCEPT !.expires = Sooner(@), !.purge = Sooner(@)]]
  /\ left' = [id \in Ids |-> Sooner(left[id])]
  /\ UNCHANGED <<drawn, announcing, approver, denying, reader, sweeping, work, audit, restarts>>

(* The daemon is stopped or killed and started again.  The table, the      *)
(* handlers and the spawned executions live in memory only.                *)
Restart ==
  /\ restarts < MaxRestarts
  /\ restarts' = restarts + 1
  /\ store' = [id \in Ids |-> Gone]
  /\ announcing' = {}
  /\ approver' = [a \in Approvers |-> IdleApprover]
  /\ denying' = {}
  /\ reader' = [r \in Readers |-> IdleReader]
  /\ sweeping' = {}
  /\ work' = [id \in Ids |-> IF work[id] \in {"running", "reported"} THEN "lost" ELSE work[id]]
  /\ left' = [id \in Ids |-> 0]
  /\ UNCHANGED <<drawn, audit>>

(* Requesters, and operators who deny.                                     *)
RequestNext(id) ==
  \/ Create(id) \/ Announce(id)
  \/ Deny(id) \/ DenyTooLate(id) \/ DenyLog(id)

ApproveNext(a) ==
  \/ \E id \in Ids, given \in Codes \cup {NoCode} :
       \/ \E yes \in BOOLEAN : ApproveCheck(a, id, given, yes)
       \/ ApproveReject(a, id, given)
  \/ ApproveGrant(a) \/ ApproveRefuse(a) \/ ApproveSpawn(a)

StatusNext(r) ==
  \/ \E id \in Ids : StatusSee(r, id)
  \/ StatusTake(r) \/ StatusAnswer(r) \/ StatusDeliver(r)

(* What the daemon does by itself.                                         *)
DaemonNext ==
  \/ \E id \in Ids : WorkReport(id) \/ WorkComplete(id) \/ SweepLog(id)
  \/ Sweep
  \/ Tick
  \/ Restart

Next ==
  \/ \E id \in Ids : RequestNext(id)
  \/ \E a \in Approvers : ApproveNext(a)
  \/ \E r \in Readers : StatusNext(r)
  \/ DaemonNext

Spec == Init /\ [][Next]_vars

(* The clock, the sweeper and the spawned executions proceed, and an       *)
(* approve handler that changed the state goes on to spawn: each is a task *)
(* the runtime keeps polling and none of them waits for a client.          *)
(* Clients and restarts are not fair.                                      *)
Fairness ==
  /\ WF_vars(Tick)
  /\ WF_vars(Sweep)
  /\ \A id \in Ids : WF_vars(SweepLog(id)) /\ WF_vars(WorkReport(id)) /\ WF_vars(WorkComplete(id))
  /\ \A a \in Approvers : WF_vars(ApproveSpawn(a))

FairSpec == Spec /\ Fairness

-----------------------------------------------------------------------------
(* Every variable keeps the type its Rust counterpart has.                 *)
TypeOK ==
  /\ store \in [Ids -> Record]
  /\ drawn \subseteq Ids
  /\ announcing \subseteq Ids
  /\ approver \in [Approvers -> ApproverState]
  /\ denying \subseteq Ids
  /\ reader \in [Readers -> ReaderState]
  /\ sweeping \subseteq Ids
  /\ work \in [Ids -> {"none", "running", "reported", "done", "lost"}]
  /\ left \in [Ids -> Nat]
  /\ audit \in [Ids -> [Events -> Nat]]
  /\ restarts \in Nat

(* One request, one fate: the audit chain never shows a request approved   *)
(* twice, or approved and also denied or expired, whatever approve, deny   *)
(* and sweep calls race between the code check and the state change        *)
(* (ipc.rs approve_request, state.rs approve, deny, sweep).                *)
OneFate ==
  \A id \in Ids :
    audit[id]["approved"] + audit[id]["denied"] + audit[id]["expired"] <= 1

(* The chain accounts for every effect in order: a result is delivered no  *)
(* more often than an execution is recorded, and an execution is recorded  *)
(* no more often than an approval (log calls of ipc.rs approve_request,    *)
(* its spawned task and request_status, one-time delivery of state.rs      *)
(* deliver).                                                               *)
AuditTrail ==
  \A id \in Ids :
    /\ audit[id]["delivered"] <= audit[id]["executed"]
    /\ audit[id]["executed"] <= audit[id]["approved"]

(* A result is never readable before its execution is on record: whoever   *)
(* can see or hold a result finds the action_executed event already logged *)
(* (order of log and complete in the task of ipc.rs approve_request).      *)
ResultOnRecord ==
  /\ \A id \in Ids : store[id].state = "completed" => audit[id]["executed"] = 1
  /\ \A r \in Readers : reader[r].pc = "took" => audit[reader[r].id]["executed"] = 1

(* The record of an action that is still running is there to receive the   *)
(* result: complete() finds it.  This needs RunLimit <= ResultTTL, because *)
(* purge_at is fixed when the request is created (state.rs create, sweep,  *)
(* complete).                                                              *)
ResultHasAHome ==
  \A id \in Ids : InFlight(id) => store[id].state = "executing"

(* A request is put into execution without --yes only by a handler that    *)
(* was given the code the record holds at that very moment, although code  *)
(* check and state change are under two locks (ipc.rs approve_request).    *)
CodeGate ==
  [][\A a \in Approvers, id \in Ids :
       approver[a].pc = "checked" /\ Granting(a, id)'
         => store[id].state = "pending" /\ (approver[a].yes \/ approver[a].given = store[id].code)]_vars

(* No request waits for the operator for ever: the sweeper expires it.     *)
(* (ipc.rs start, state.rs sweep).                                         *)
PendingEnds ==
  \A id \in Ids : store[id].state = "pending" ~> store[id].state # "pending"

(* No record stays in memory for ever: whatever happened to the request,   *)
(* a late sweep drops it (state.rs sweep).                                 *)
EveryRecordPurged ==
  \A id \in Ids : store[id].state # "none" ~> store[id].state = "none"

(* An approval is answered: once a request executes, either its result     *)
(* is readable or the daemon restarted (ipc.rs approve_request task).      *)
ApprovalAnswered ==
  \A id \in Ids :
    store[id].state = "executing" ~> (store[id].state = "completed" \/ restarts > 0)

-----------------------------------------------------------------------------
(* The inductive invariant behind the theorems of RequestBrokerProofs.     *)

(* Nothing has decided about the request yet.                              *)
Undecided(id) ==
  /\ audit[id]["approved"] = 0 /\ audit[id]["denied"] = 0 /\ audit[id]["expired"] = 0
  /\ work[id] = "none"

(* An undecided request has no event, no execution and no decision under   *)
(* way; the ways to decide exclude each other.                             *)
Fate(id) ==
  /\ id \notin drawn => store[id].state = "none"
  /\ id \notin drawn \/ store[id].state = "pending" =>
       Undecided(id) /\ id \notin denying \cup sweeping /\ \A a \in Approvers : ~Granting(a, id)
  /\ id \in denying => Undecided(id) /\ id \notin sweeping
  /\ id \in sweeping => Undecided(id)
  /\ \A a \in Approvers : Granting(a, id) =>
       /\ Undecided(id) /\ id \notin denying \cup sweeping
       /\ \A b \in Approvers : Granting(b, id) => a = b
  /\ audit[id]["approved"] + audit[id]["denied"] + audit[id]["expired"] <= 1

(* The execution and the events and states that go with its progress.      *)
Execution(id) ==
  /\ work[id] = "none" => audit[id]["approved"] = 0 /\ audit[id]["executed"] = 0
  /\ work[id] # "none" => audit[id]["approved"] = 1
  /\ work[id] = "running" => audit[id]["executed"] = 0
  /\ work[id] \in {"reported", "done"} => audit[id]["executed"] = 1
  /\ audit[id]["executed"] <= 1
  /\ store[id].state = "executing" => InFlight(id)
  /\ store[id].state = "completed" => work[id] = "done"

(* A result is in the table unread, in one reader's hands, or on record as *)
(* delivered, and never in two of these places.                            *)
Delivery(id) ==
  /\ Deliverable(store[id]) => audit[id]["delivered"] = 0
  /\ audit[id]["delivered"] = 0 \/ (audit[id]["delivered"] = 1 /\ work[id] = "done")
  /\ \A r \in Readers : Took(r, id) =>
       /\ work[id] = "done" /\ audit[id]["delivered"] = 0 /\ ~Deliverable(store[id])
       /\ \A s \in Readers : Took(s, id) => r = s

(* purge_at, fixed at creation, against the time an execution has left.    *)
Timing(id) ==
  /\ Open(store[id]) => store[id].purge = store[id].expires + ResultTTL
  /\ store[id].state = "executing" => store[id].purge + RunLimit >= ResultTTL + 1 + left[id]

IInv == TypeOK /\ \A id \in Ids : Fate(id) /\ Execution(id) /\ Delivery(id) /\ Timing(id)

-----------------------------------------------------------------------------
(* The phase of a request in the abstract promise.                         *)
PhaseOf(id) ==
  CASE \E a \in Approvers : Granting(a, id) -> "granted"
    [] work[id] \in {"running", "reported"} -> "running"
    [] OTHER ->
       CASE id \notin drawn -> "unborn"
         [] store[id].state = "pending" -> "waiting"
         [] Deliverable(store[id]) -> "available"
         [] store[id].state = "completed" /\ store[id].delivered -> "delivered"
         [] OTHER -> "closed"

Promise == INSTANCE OneShot WITH phase <- [id \in Ids |-> PhaseOf(id)]

(* The broker keeps the one-shot promise: granted at most once, run at     *)
(* most once, handed out at most once, and never after it was closed.      *)
PromiseKept == Promise!Spec

-----------------------------------------------------------------------------
(* Stated by a document or a comment, and not kept by the code: no run     *)
(* expects these to hold (README.md, section 5).                           *)

(* A request that has expired in the table has an action_expired event, or *)
(* the sweeper is about to log it.                                         *)
ExpiryOnRecord ==
  \A id \in Ids :
    store[id].state = "expired" => audit[id]["expired"] = 1 \/ id \in sweeping

(* A finished result nobody has read leaves the table only when it has     *)
(* been kept for ResultTTL, or when the daemon restarts.                   *)
KeptForResultTTL ==
  [][\A id \in Ids :
       Deliverable(store[id]) /\ store'[id].state = "none" /\ restarts' = restarts
         => store[id].expires = 0]_vars
=============================================================================
