------------------------------ MODULE ApproveCli ------------------------------
(***************************************************************************)
(* `open-guardian approve <id>` (main.rs handle_approve) talking to the    *)
(* broker: once its approval is accepted it polls /v1/status until the     *)
(* outcome is known or its polls run out.  The broker, the agent and the   *)
(* other operators are RequestBroker, whole; the CLI is the client of one  *)
(* of its approve handlers, and of one status handler per poll.            *)
(***************************************************************************)
EXTENDS RequestBroker

CONSTANT MaxPolls   \* polls of the loop (40 in the code)

VARIABLES
  cli,          \* what the CLI is doing, and what it told the operator
  taker         \* history: the clients that were given each result

cliVars == <<vars, cli, taker>>

Nobody == "nobody"

CliIdle == [pc |-> "approving", id |-> NoCode, polls |-> 0, by |-> Nobody]

CliInit ==
  /\ Init
  /\ cli = CliIdle
  /\ taker = [id \in Ids |-> {}]

(* The status handler r serves the poll under way.                         *)
Serving(r) == cli.pc = "asked" /\ cli.by = r

Answered(pc) == cli' = [cli EXCEPT !.pc = pc, !.by = Nobody]

(* The approval is accepted: the loop starts.                              *)
CliStart ==
  /\ cli.pc = "approving"
  /\ \E a \in Approvers :
       /\ ApproveSpawn(a)
       /\ cli' = [cli EXCEPT !.pc = "polling", !.id = approver[a].id]
  /\ UNCHANGED taker

CliPoll(r) ==
  /\ cli.pc = "polling" /\ cli.polls < MaxPolls
  /\ cli' = [cli EXCEPT !.pc = "asked", !.polls = @ + 1, !.by = r]
  /\ StatusSee(r, cli.id)
  /\ UNCHANGED taker

(* The poll fails: the record is gone, and the daemon answers 404.         *)
CliPollFails ==
  /\ cli.pc = "polling" /\ cli.polls < MaxPolls
  /\ store[cli.id].state = "none"
  /\ cli' = [cli EXCEPT !.polls = @ + 1]
  /\ UNCHANGED <<vars, taker>>

(* What the loop makes of an answer.  While the status says executing or   *)
(* pending the rest of the answer is not looked at.                        *)
Outcome(status, result) ==
  CASE status \in {"executing", "pending"} -> "polling"
    [] status = "completed" /\ result -> "printed"
    [] status = "completed" /\ ~result -> "consumed"
    [] OTHER -> "ended"

CliTake(r) ==
  /\ Serving(r) /\ StatusTake(r)
  /\ taker' = [taker EXCEPT ![cli.id] = @ \cup {"cli"}]
  /\ UNCHANGED cli

CliRead(r) ==
  /\ Serving(r)
  /\ \/ StatusAnswer(r) /\ Answered(Outcome(reader[r].status, FALSE))
     \/ StatusDeliver(r) /\ Answered(Outcome(reader[r].status, TRUE))
  /\ UNCHANGED taker

CliGiveUp ==
  /\ cli.pc = "polling" /\ cli.polls = MaxPolls
  /\ cli' = [cli EXCEPT !.pc = "gaveUp"]
  /\ UNCHANGED <<vars, taker>>

CliNext ==
  \/ CliStart \/ CliPollFails \/ CliGiveUp
  \/ \E r \in Readers : CliPoll(r) \/ CliTake(r) \/ CliRead(r)

(* Everybody else: other status clients record what they take.             *)
OthersTake(r) ==
  /\ StatusTake(r)
  /\ taker' = [taker EXCEPT ![reader[r].id] = @ \cup {r}]
  /\ UNCHANGED cli

OthersStatus(r) ==
  /\ (\E id \in Ids : StatusSee(r, id)) \/ StatusAnswer(r) \/ StatusDeliver(r)
  /\ UNCHANGED <<cli, taker>>

(* A restart breaks the connection of the poll under way: it failed, and   *)
(* the loop goes on.                                                       *)
OthersNext ==
  \/ /\ \/ \E id \in Ids : RequestNext(id)
        \/ \E a \in Approvers : ApproveNext(a)
     /\ UNCHANGED <<cli, taker>>
  \/ \E r \in Readers : ~Serving(r) /\ (OthersTake(r) \/ OthersStatus(r))
  \/ /\ DaemonNext
     /\ IF restarts' # restarts /\ cli.pc = "asked" THEN Answered("polling") ELSE UNCHANGED cli
     /\ UNCHANGED taker

CliSpec == CliInit /\ [][CliNext \/ OthersNext]_cliVars

(* A result reaches one client: when the CLI prints one, no other status   *)
(* client has been given it, before or after (state.rs deliver).           *)
PrintedIsMine ==
  cli.pc = "printed" => taker[cli.id] = {"cli"}

(* An operator whose approval was accepted is never told that the request  *)
(* ended denied or expired (the `other` arm of main.rs handle_approve).    *)
AcceptedNeverEndsOtherwise == cli.pc # "ended"

-----------------------------------------------------------------------------
(* The inductive invariant behind the theorems about the CLI.              *)

CliTypeOK ==
  /\ cli \in [pc: {"approving", "polling", "asked", "printed", "consumed", "ended", "gaveUp"},
              id: Ids \cup {NoCode}, polls: Nat, by: Readers \cup {Nobody}]
  /\ taker \in [Ids -> SUBSET (Readers \cup {"cli"})]

(* An approved request is never refused afterwards: its record executes,   *)
(* has its result, or is gone.                                             *)
Approved(id) == work[id] # "none" \/ \E a \in Approvers : Granting(a, id)

NeverRefused(id) ==
  Approved(id) => id \in drawn /\ store[id].state \in {"executing", "completed", "none"}

(* Once somebody was given the result nobody else can take it.             *)
GivenOnce(id) == taker[id] # {} => work[id] = "done" /\ ~Deliverable(store[id])

(* What the CLI may rely on: its request was approved, and while it polls, *)
(* the handler that serves the poll is there and answers about its request.*)
CliView ==
  /\ cli.pc # "ended"
  /\ cli.pc # "approving" => cli.id \in Ids /\ work[cli.id] # "none"
  /\ cli.pc = "asked" =>
       /\ cli.by \in Readers /\ reader[cli.by].pc \in {"seen", "took"}
       /\ reader[cli.by].id = cli.id
       /\ reader[cli.by].status \in {"executing", "completed"}
       /\ reader[cli.by].pc = "took" => taker[cli.id] = {"cli"}
  /\ cli.pc = "printed" => taker[cli.id] = {"cli"}

CliInv ==
  IInv /\ CliTypeOK /\ CliView /\ \A id \in Ids : NeverRefused(id) /\ GivenOnce(id)

-----------------------------------------------------------------------------
(* Stated by a document or a comment, and not kept by the code: no run     *)
(* expects these to hold (README.md, section 5).                           *)

(* A result the CLI was handed is shown to its operator: the poll that     *)
(* consumed the one-time result is not thrown away (main.rs handle_approve *)
(* polls "so the operator sees the outcome inline").                       *)
TakenIsShown ==
  cli.pc \in {"polling", "gaveUp"} => "cli" \notin taker[cli.id]
=============================================================================
