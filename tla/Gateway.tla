-------------------------------- MODULE Gateway --------------------------------
(******************************************************************************)
(* link_external (runtime/region.rs): threads that own their unit of work and *)
(* LINK programs into it from outside any task.  The calling gateway is not   *)
(* part of the repository: it begins, commits and rolls back as it likes, and *)
(* its record task[t] is "idle" between two calls, with txn as it stands.     *)
(******************************************************************************)
EXTENDS Region

CONSTANT Levels    \* values of eib.link_level a gateway may pass

ASSUME GatewayAssumption == Levels \subseteq Nat

Outside(t) ==
    task[t].phase = "idle" /\ task[t].external /\ UNCHANGED <<next_task, restarts>>

(* External: Environment::begin_write by the gateway.                         *)
OpenUnit(t) ==
    /\ Outside(t) /\ ~task[t].txn /\ begin_write(t)
    /\ Update(t, [task[t] EXCEPT !.txn = TRUE]) /\ UNCHANGED errors

(* External: the gateway's own SYNCPOINT or SYNCPOINT ROLLBACK.               *)
CloseUnit(t) ==
    /\ Outside(t) /\ task[t].txn
    /\ commit(t) \/ commit_fails(t) \/ rollback(t)
    /\ Update(t, [task[t] EXCEPT !.txn = FALSE])

link_external(c, level, request) ==
    IF level + 1 > MAX_LINK_DEPTH
    THEN [c EXCEPT !.answer = Condition("LinkStackOverflow")]
    ELSE Run([c EXCEPT !.level = level + 1], request.program, request.commarea)

(* The START queue of the last call is gone.                                  *)
CallExternal(t, level, request) ==
    /\ Outside(t) /\ task[t].calls < MaxCalls
    /\ Update(t, link_external([Idle EXCEPT !.external = TRUE, !.txn = task[t].txn,
                                            !.calls = task[t].calls + 1],
                               level, request))
    /\ Stay /\ UNCHANGED errors

(* Whatever the outcome, txn is what the programs left.                       *)
ReturnExternal(t) ==
    /\ task[t].phase = "end" /\ task[t].external
    /\ Update(t, [Reply(task[t], task[t].outcome) EXCEPT !.txn = task[t].txn])
    /\ Stay /\ UNCHANGED <<next_task, errors, restarts>>

Gateway(t) ==
    \/ OpenUnit(t) \/ CloseUnit(t) \/ ReturnExternal(t)
    \/ \E level \in Levels, request \in Requests : CallExternal(t, level, request)

(* An environment is a region's or a gateway's.                               *)
GatewayInit ==
    /\ NewStore
    /\ \E b \in BOOLEAN : task = [t \in Threads |-> [Idle EXCEPT !.external = b]]

GatewayNext == Next \/ \E t \in Threads : Gateway(t)

(* A thread runs; parking_lot hands the writer lock to a waiting thread in    *)
(* the end.                                                                   *)
GatewaySpec ==
    /\ GatewayInit /\ [][GatewayNext]_vars
    /\ \A t \in Threads : WF_vars(Proceed(t)) /\ SF_vars(Acquire(t))

===============================================================================
