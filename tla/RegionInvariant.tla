---------------------------- MODULE RegionInvariant ----------------------------
(******************************************************************************)
(* The inductive invariant of Region and Gateway.  CallOK is about one call   *)
(* of start_task or link_external and knows nothing of the store; StoreOK     *)
(* ties the store and the writer lock to the calls.  The proofs are in        *)
(* RegionProofs, and TLC checks RInv as an invariant.                         *)
(******************************************************************************)
EXTENDS Gateway

IsFcn(f) == f = [x \in DOMAIN f |-> f[x]]
IsSequence(s) == s \in Seq(Range(s))

(* c has the fields of Idle and no others.                                    *)
IsCall(c) ==
    c = [phase |-> c.phase, queue |-> c.queue, stack |-> c.stack, level |-> c.level,
         id |-> c.id, txn |-> c.txn, external |-> c.external, request |-> c.request,
         outcome |-> c.outcome, result |-> c.result, first |-> c.first,
         answer |-> c.answer, calls |-> c.calls, commands |-> c.commands,
         started |-> c.started, ran |-> c.ran]

CallTyped(c) ==
    /\ IsCall(c)
    /\ c.phase \in Phases /\ c.txn \in BOOLEAN /\ c.external \in BOOLEAN
    /\ c.calls \in 0 .. MaxCalls /\ c.commands \in Nat
    /\ IsSequence(c.stack) /\ IsSequence(c.queue)
    /\ c.level \in Nat /\ c.started \in Nat /\ c.ran \in Nat

(* What exists in which phase.                                                *)
PhaseOK(c) ==
    /\ c.stack # <<>> <=> c.phase \in {"run", "sync"}
    /\ c.outcome # <<>> <=> c.phase = "end"
    /\ c.phase = "idle" => c.queue = <<>>
    /\ c.phase = "begin" => c.queue # <<>>
    /\ c.phase \in {"dispatch", "begin"} => ~c.external

(* A task starts at level 1, whatever the gateway's programs start at.        *)
DepthOK(c) ==
    /\ ~c.external => c.level = 1
    /\ link_level(c) <= MAX_LINK_DEPTH

(* Nobody waits for the writer lock with a transaction, and start_task never  *)
(* returns with one.                                                          *)
TxnOK(c) ==
    /\ c.phase \in {"dispatch", "begin", "sync"} => ~c.txn
    /\ c.phase = "idle" /\ ~c.external => ~c.txn

(* Every request queued in a call in progress is dispatched or still queued;  *)
(* one is both between its dispatch and the start of its task.                *)
QueueOK(c) ==
    ~c.external /\ c.phase # "idle" =>
        c.started + (IF c.phase = "begin" THEN 1 ELSE 0) = c.ran + Len(c.queue)

(* originating_result is the outcome of the first task, from its end on: an   *)
(* outcome is never empty, and tasks that end later do not replace it.        *)
FirstOK(c) ==
    ~c.external /\ c.phase # "idle" =>
        /\ c.result = c.first
        /\ c.phase # "dispatch" => c.ran > 0
        /\ c.result # <<>> <=> c.ran > (IF c.phase = "dispatch" THEN 0 ELSE 1)

AnswerOK(c) ==
    c.phase = "idle" /\ ~c.external /\ c.answer # <<>> =>
        \/ c.answer.cond \in {"Io", "panic"}
        \/ c.ran = c.started /\ c.answer = c.first

CallOK(c) ==
    /\ CallTyped(c) /\ PhaseOK(c) /\ DepthOK(c) /\ TxnOK(c)
    /\ QueueOK(c) /\ FirstOK(c) /\ AnswerOK(c)

(* The lock belongs to the one call with a transaction, and what that         *)
(* transaction shows is the committed records under its own effects.          *)
StoreOK ==
    /\ lock = {t \in Threads : task[t].txn}
    /\ \A t, u \in lock : t = u
    /\ IsFcn(data) /\ IsFcn(effects) /\ DOMAIN effects = Threads
    /\ \A t \in Threads : IsFcn(effects[t])
    /\ \A t \in Threads \ lock : effects[t] = NoRecords
    /\ \A t \in lock : working = Work!Apply(data, effects[t])

RInv ==
    /\ IsFcn(task) /\ DOMAIN task = Threads
    /\ next_task \in Nat /\ errors \in 0 .. MaxErrors /\ restarts \in 0 .. MaxRestarts
    /\ \A t \in Threads : CallOK(task[t])
    /\ StoreOK

===============================================================================
