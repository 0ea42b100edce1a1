------------------------------- MODULE OneShot -------------------------------
(***************************************************************************)
(* What the action broker promises about one request, whoever is asking    *)
(* and however the handlers interleave:                                    *)
(*                                                                         *)
(*   - an action starts only after the operator granted a request that was *)
(*     still waiting, and it starts at most once;                          *)
(*   - its result is handed out at most once, and only after it ended;     *)
(*   - a request that was closed (denied, expired, forgotten, lost in a    *)
(*     restart) stays closed.                                              *)
(*                                                                         *)
(* The promise is an acyclic graph of phases.  RequestBroker implements it *)
(* with a lock-protected table, handlers that hold the lock only for one   *)
(* call at a time, a sweeper and one spawned task per approval.            *)
(***************************************************************************)
EXTENDS Integers

CONSTANT Ids        \* request ids

VARIABLE phase      \* what became of each request

Phases == {"unborn", "waiting", "granted", "running",
           "available", "delivered", "closed"}

Moves == {<<"unborn", "waiting">>,
          <<"waiting", "granted">>,     <<"waiting", "closed">>,
          <<"granted", "running">>,     <<"granted", "closed">>,
          <<"running", "available">>,   <<"running", "closed">>,
          <<"available", "delivered">>, <<"available", "closed">>,
          <<"delivered", "closed">>}

Init == phase = [id \in Ids |-> "unborn"]

(* A step may move several requests: a sweep and a restart do.             *)
Next == /\ phase' \in [Ids -> Phases]
        /\ \A id \in Ids : phase'[id] # phase[id] => <<phase[id], phase'[id]>> \in Moves

Spec == Init /\ [][Next]_phase
=============================================================================
