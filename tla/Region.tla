-------------------------------- MODULE Region ---------------------------------
(******************************************************************************)
(* Task Control, Program Control and SYNCPOINT (runtime/region.rs, task.rs,   *)
(* program.rs) over File Control: threads that call Region::start_task on one *)
(* region, and the programs their tasks run.                                  *)
(*                                                                            *)
(* A program is an automaton: Enter gives its state when it is invoked, Issue *)
(* the commands it may issue next, Learn its state after a response.  The     *)
(* stack of a task holds the programs of its LINK chain; Len(stack) and the   *)
(* level of the bottom program give eib.link_level.                           *)
(*                                                                            *)
(* Phases of a thread inside start_task:                                      *)
(*   idle      no call in progress                                            *)
(*   dispatch  at the head of the loop over the queue                         *)
(*   begin     in begin_write for the next task                               *)
(*   run       in the program on top of the stack                             *)
(*   sync      in begin_write inside SYNCPOINT (ROLLBACK)                     *)
(*   end       run_program_loop has returned outcome                          *)
(******************************************************************************)
EXTENDS FileControl

CONSTANTS
    Threads,
    Files,            \* the names define_file was called with, in order
    Programs,         \* the names define_program was called with
    Requests,         \* [program, commarea] that start_task is called with
    Enter(_, _, _),   \* (program, commarea, eib) -> state of the program
    Issue(_),         \* state -> set of commands
    Learn(_, _),      \* (state, response) -> state
    MAX_LINK_DEPTH,
    MaxCalls,         \* start_task calls of a thread (bound)
    MaxCommands,      \* commands in the calls in progress; programs end (bound)
    MaxErrors,        \* commits that fail (bound)
    MaxRestarts,      \* process deaths (bound)
    MaxHints          \* task ids below which task_count_hint is called (bound)

ASSUME RegionAssumption ==
    /\ {MaxCalls, MaxCommands, MaxErrors, MaxRestarts, MaxHints} \subseteq Nat
    /\ MAX_LINK_DEPTH \in Nat \ {0}
    /\ MaxErrors = 0 \/ MaxRestarts = 0   \* a failed commit may surface in the next
                                          \* process: Environment's subject

VARIABLES
    data,        \* the committed records: storage key -> value
    lock,        \* holder of the writer lock, as a set
    working,     \* what the holder's WriteTxn shows
    next_task,   \* TaskIdGenerator
    task,        \* task[t]: the start_task call of thread t
    effects,     \* history: what the open unit of work of t has changed:
                 \* storage key -> <<value>>, or <<>> where it has deleted
    errors,      \* failed commits so far
    restarts     \* process deaths so far

vars == <<data, lock, working, next_task, task, effects, errors, restarts>>

fct == FoldLeft(define, EmptyTable, Files)

(* started and ran count the requests of the call that were queued and        *)
(* dispatched, first is how the first of them has ended (history, which no    *)
(* guard reads); result is the code's originating_result, answer what         *)
(* start_task has returned last; external marks callers of link_external      *)
(* (module Gateway).                                                          *)
Idle == [phase |-> "idle", queue |-> <<>>, stack |-> <<>>, level |-> 1, id |-> 0,
         txn |-> FALSE, external |-> FALSE, request |-> <<>>, outcome |-> <<>>,
         result |-> <<>>, first |-> <<>>, answer |-> <<>>, calls |-> 0, commands |-> 0,
         started |-> 0, ran |-> 0]

NewStore ==
    /\ data = NoRecords /\ working = NoRecords /\ lock = {}
    /\ next_task = 1
    /\ effects = [t \in Threads |-> NoRecords]
    /\ errors = 0 /\ restarts = 0

Init == NewStore /\ task = [t \in Threads |-> Idle]

-------------------------------------------------------------------------------
(* Program Control, on the record of a call.                                  *)

link_level(c) == c.level + Len(c.stack) - 1

(* The Eib of the program that is entered next.                               *)
Eib(c) == [task_id |-> c.id, link_level |-> link_level(c) + 1]

(* ProgramManager::resolve                                                    *)
resolve(program) == program \in Programs

(* The program on top gets the response to its command.                       *)
Respond(c, resp) ==
    [c EXCEPT !.phase = "run",
              !.stack = Append(Front(@), Learn(Last(@), resp))]

(* run_program_loop returns: to the LINKing program, or ends the task.        *)
Returned(c, resp) ==
    IF c.stack = <<>> THEN [c EXCEPT !.phase = "end", !.outcome = resp]
    ELSE Respond(c, resp)

(* The head of run_program_loop: the program is resolved and entered.         *)
Run(c, program, commarea) ==
    IF resolve(program)
    THEN [c EXCEPT !.phase = "run", !.stack = Append(@, Enter(program, commarea, Eib(c)))]
    ELSE Returned(c, Condition("ProgramNotFound"))

(* Mutant of link: the level of the caller is compared, not the new one.      *)
link_caller_level(c, program, commarea) ==
    IF link_level(c) > MAX_LINK_DEPTH
    THEN Respond(c, Condition("LinkStackOverflow"))
    ELSE Run(c, program, commarea)

link(c, program, commarea) ==
    IF link_level(c) + 1 > MAX_LINK_DEPTH
    THEN Respond(c, Condition("LinkStackOverflow"))
    ELSE Run(c, program, commarea)

start(c, program, commarea) ==
    Respond([c EXCEPT !.queue = Append(@, [program |-> program, commarea |-> commarea]),
                      !.started = @ + 1], Normal(<<>>))

(* XCTL: the same level, and no way back.                                     *)
xctl(c, program, commarea) ==
    Run([c EXCEPT !.stack = Front(@)], program, commarea)

(* Mutant of Reply: the stack is not unwound.                                 *)
ReplyWithStack(c, answer) ==
    [c EXCEPT !.phase = "idle", !.queue = <<>>, !.txn = FALSE,
              !.outcome = <<>>, !.answer = answer]

(* start_task returns: what is queued is dropped.                             *)
Reply(c, answer) ==
    [c EXCEPT !.phase = "idle", !.queue = <<>>, !.stack = <<>>, !.txn = FALSE,
              !.outcome = <<>>, !.answer = answer]

(* Mutant of Ended: is_first is not checked, the last result is kept.         *)
EndedLatest(c) ==
    [c EXCEPT !.phase = "dispatch", !.txn = FALSE, !.outcome = <<>>,
              !.result = c.outcome,
              !.first = IF c.ran = 1 THEN c.outcome ELSE @]

(* Task Control: the end of an iteration of start_task's loop.                *)
Ended(c) ==
    [c EXCEPT !.phase = "dispatch", !.txn = FALSE, !.outcome = <<>>,
              !.result = IF @ = <<>> THEN c.outcome ELSE @,
              !.first = IF c.ran = 1 THEN c.outcome ELSE @]

-------------------------------------------------------------------------------
Stay == UNCHANGED <<data, lock, working, effects>>

(* Mutant of begin_write: the lock is taken, the committed root is not read   *)
(* again.                                                                     *)
begin_write_stale(t) ==
    /\ lock = {} /\ lock' = {t}
    /\ UNCHANGED <<data, working, effects>>

(* The writer lock and the WriteTxn under it.                                 *)
begin_write(t) ==
    /\ lock = {} /\ lock' = {t} /\ working' = data
    /\ UNCHANGED <<data, effects>>

Release(t) ==
    /\ lock' = lock \ {t} /\ effects' = [effects EXCEPT ![t] = NoRecords]
    /\ working' = IF t \in lock THEN NoRecords ELSE working

commit(t) == data' = working /\ Release(t) /\ UNCHANGED errors

commit_fails(t) ==
    /\ errors < MaxErrors /\ errors' = errors + 1
    /\ Release(t) /\ UNCHANGED data

(* rollback(), and equally the drop of a WriteTxn.                            *)
rollback(t) == Release(t) /\ UNCHANGED <<data, errors>>

Update(t, c) == task' = [task EXCEPT ![t] = c]

(* TaskIdGenerator::next                                                      *)
NextTaskId == next_task' = next_task + 1

-------------------------------------------------------------------------------
(* start_task.                                                                *)

Call(t, request) ==
    /\ task[t].phase = "idle" /\ ~task[t].external /\ task[t].calls < MaxCalls
    /\ Update(t, [Idle EXCEPT !.phase = "dispatch", !.queue = <<request>>,
                              !.request = request, !.calls = task[t].calls + 1,
                              !.started = 1])
    /\ Stay /\ UNCHANGED <<next_task, errors, restarts>>

Dispatch(t) ==
    /\ task[t].phase = "dispatch" /\ task[t].queue # <<>>
    /\ Update(t, [task[t] EXCEPT !.phase = "begin", !.id = next_task, !.ran = @ + 1])
    /\ NextTaskId
    /\ Stay /\ UNCHANGED <<errors, restarts>>

BeginTask(t) ==
    /\ task[t].phase = "begin" /\ begin_write(t)
    /\ LET request == Head(task[t].queue)
       IN  Update(t, Run([task[t] EXCEPT !.queue = Tail(@), !.txn = TRUE],
                         request.program, request.commarea))
    /\ UNCHANGED <<next_task, errors, restarts>>

TaskEnded(t) == task[t].phase = "end" /\ ~task[t].external

(* Implicit SYNCPOINT of a task that ended normally; `commit()?` returns from *)
(* start_task.  After a failed SYNCPOINT there is nothing to commit.          *)
EndNormal(t) ==
    /\ TaskEnded(t) /\ task[t].outcome.cond = "NORMAL"
    /\ \/ task[t].txn /\ commit(t) /\ Update(t, Ended(task[t]))
       \/ /\ task[t].txn /\ commit_fails(t)
          /\ Update(t, Reply(task[t], Condition("Io")))
       \/ ~task[t].txn /\ Update(t, Ended(task[t])) /\ Stay /\ UNCHANGED errors
    /\ UNCHANGED <<next_task, restarts>>

(* Mutant of EndAbend: what was changed before the ABEND is committed.        *)
EndAbendCommits(t) ==
    /\ TaskEnded(t) /\ task[t].outcome.cond # "NORMAL"
    /\ commit(t) /\ Update(t, Ended(task[t]))
    /\ UNCHANGED <<next_task, restarts>>

(* Dynamic transaction backout.                                               *)
EndAbend(t) ==
    /\ TaskEnded(t) /\ task[t].outcome.cond # "NORMAL"
    /\ rollback(t) /\ Update(t, Ended(task[t]))
    /\ UNCHANGED <<next_task, restarts>>

Return(t) ==
    /\ task[t].phase = "dispatch" /\ task[t].queue = <<>>
    /\ Update(t, Reply(task[t], task[t].result))
    /\ Stay /\ UNCHANGED <<next_task, errors, restarts>>

task_count_hint ==
    /\ next_task < MaxHints /\ NextTaskId
    /\ Stay /\ UNCHANGED <<task, errors, restarts>>

-------------------------------------------------------------------------------
(* The commands of the program on top of t's stack.                           *)

Ending == {"RETURN", "ABEND", "PANIC"}

Issued == MapThenSumSet(LAMBDA u : task[u].commands, Threads)

Issues(t, x, ops) ==
    /\ task[t].phase = "run" /\ x \in Issue(Last(task[t].stack)) /\ x.op \in ops
    /\ x.op \in Ending \/ Issued < MaxCommands
    /\ UNCHANGED <<next_task, restarts>>

Counted(t) == [task[t] EXCEPT !.commands = @ + 1]

(* A command that needs the transaction panics without one (`expect`): the    *)
(* stack unwinds out of start_task and drops whatever it owns.  The           *)
(* transaction of link_external is its caller's: a gateway that catches the   *)
(* unwinding may still have it.                                               *)
Panic(t, x) ==
    /\ x.op = "PANIC" \/ ~task[t].txn
    /\ Issues(t, x, {"PANIC", "READ", "BROWSE", "WRITE", "REWRITE", "DELETE",
                     "SYNCPOINT", "ROLLBACK"})
    /\ \/ rollback(t) /\ Update(t, Reply(task[t], Condition("panic")))
       \/ /\ task[t].external /\ Stay /\ UNCHANGED errors
          /\ Update(t, [Reply(task[t], Condition("panic")) EXCEPT !.txn = task[t].txn])

ExecRead(t, x) ==
    /\ Issues(t, x, {"READ"}) /\ task[t].txn
    /\ Update(t, Respond(Counted(t), exec_read(working, fct, x.file, x.key)))
    /\ Stay /\ UNCHANGED errors

ExecBrowse(t, x) ==
    /\ Issues(t, x, {"BROWSE"}) /\ task[t].txn
    /\ Update(t, Respond(Counted(t), exec_browse(working, fct, x.file, x.key, x.limit)))
    /\ Stay /\ UNCHANGED errors

Executed(x) ==
    CASE x.op = "WRITE"   -> exec_write(working, fct, x.file, x.key, x.data)
      [] x.op = "REWRITE" -> exec_rewrite(working, fct, x.file, x.key, x.data)
      [] x.op = "DELETE"  -> exec_delete(working, fct, x.file, x.key)

Change(t, x) ==
    /\ Issues(t, x, {"WRITE", "REWRITE", "DELETE"}) /\ task[t].txn
    /\ \E r \in {Executed(x)} :
           /\ working' = r.w
           /\ Update(t, Respond(Counted(t), r.resp))
           /\ effects' = IF r.resp.cond # "NORMAL" THEN effects
                         ELSE [effects EXCEPT ![t] =
                                  Assign(@, storage_key(fct.files[x.file], x.key),
                                         IF x.op = "DELETE" THEN <<>> ELSE <<x.data>>)]
    /\ UNCHANGED <<data, lock, errors>>

Link(t, x) ==
    /\ Issues(t, x, {"LINK"}) /\ Update(t, link(Counted(t), x.program, x.commarea))
    /\ Stay /\ UNCHANGED errors

Xctl(t, x) ==
    /\ Issues(t, x, {"XCTL"}) /\ Update(t, xctl(Counted(t), x.program, x.commarea))
    /\ Stay /\ UNCHANGED errors

Start(t, x) ==
    /\ Issues(t, x, {"START"}) /\ Update(t, start(Counted(t), x.program, x.commarea))
    /\ Stay /\ UNCHANGED errors

(* RETURN, or an error that the program returns: a LINKing program sees it as *)
(* the response to its LINK and may go on.                                    *)
Leave(t, x) ==
    /\ Issues(t, x, {"RETURN", "ABEND"})
    /\ Update(t, Returned([task[t] EXCEPT !.stack = Front(@)],
                          IF x.op = "RETURN" THEN Normal(x.commarea)
                          ELSE Condition(x.cond)))
    /\ Stay /\ UNCHANGED errors

(* Mutant of Syncing: the transaction is not taken out of the task.           *)
SyncingUntaken(t) == [Counted(t) EXCEPT !.phase = "sync"]

(* txn.take(), and begin_write is next.                                       *)
Syncing(t) == [Counted(t) EXCEPT !.phase = "sync", !.txn = FALSE]

Syncpoint(t, x) ==
    /\ Issues(t, x, {"SYNCPOINT"}) /\ task[t].txn
    /\ \/ commit(t) /\ Update(t, Syncing(t))
       \/ commit_fails(t) /\ Update(t, Respond(Syncing(t), Condition("Io")))

(* Mutant of SyncpointRollback: the new transaction is asked for before the   *)
(* old one is gone.                                                           *)
SyncpointRollbackInPlace(t, x) ==
    /\ Issues(t, x, {"ROLLBACK"}) /\ task[t].txn
    /\ Stay /\ UNCHANGED errors /\ Update(t, Syncing(t))

SyncpointRollback(t, x) ==
    /\ Issues(t, x, {"ROLLBACK"}) /\ task[t].txn
    /\ rollback(t) /\ Update(t, Syncing(t))

(* SYNCPOINT continues: begin_write, and back to the program.                 *)
Resume(t) ==
    /\ task[t].phase = "sync" /\ begin_write(t)
    /\ Update(t, Respond([task[t] EXCEPT !.txn = TRUE], Normal(<<>>)))
    /\ UNCHANGED <<next_task, errors, restarts>>

Command(t) ==
    \E x \in Issue(Last(task[t].stack)) :
        \/ Panic(t, x) \/ ExecRead(t, x) \/ ExecBrowse(t, x) \/ Change(t, x)
        \/ Link(t, x) \/ Xctl(t, x) \/ Start(t, x) \/ Leave(t, x)
        \/ Syncpoint(t, x) \/ SyncpointRollback(t, x)

(* The process dies and the region is opened again.                           *)
Restart ==
    /\ restarts < MaxRestarts /\ restarts' = restarts + 1
    /\ task' = [t \in Threads |-> [Idle EXCEPT !.calls = task[t].calls,
                                               !.external = task[t].external]]
    /\ lock' = {} /\ working' = NoRecords /\ next_task' = 1
    /\ effects' = [t \in Threads |-> NoRecords]
    /\ UNCHANGED <<data, errors>>

Acquire(t) == BeginTask(t) \/ Resume(t)
Proceed(t) ==
    \/ Dispatch(t) \/ EndNormal(t) \/ EndAbend(t) \/ Return(t)
    \/ task[t].phase = "run" /\ Command(t)

Next ==
    \/ \E t \in Threads : \/ \E request \in Requests : Call(t, request)
                          \/ Acquire(t) \/ Proceed(t)
    \/ task_count_hint \/ Restart

Spec == Init /\ [][Next]_vars

-------------------------------------------------------------------------------
(* Properties.                                                                *)

Phases == {"idle", "dispatch", "begin", "run", "sync", "end"}

(* The record of a call is the one its phase needs: programs are on the stack *)
(* exactly while one runs or waits in SYNCPOINT, an outcome exists exactly    *)
(* between the end of a task and its syncpoint, the queue outlives no call.   *)
TypeOK ==
    /\ lock \subseteq Threads /\ next_task \in Nat
    /\ errors \in 0 .. MaxErrors /\ restarts \in 0 .. MaxRestarts
    /\ DOMAIN task = Threads /\ DOMAIN effects = Threads
    /\ \A t \in Threads :
           /\ task[t].phase \in Phases /\ {task[t].txn, task[t].external} \subseteq BOOLEAN
           /\ task[t].calls \in 0 .. MaxCalls /\ task[t].commands \in Nat
           /\ task[t].stack # <<>> <=> task[t].phase \in {"run", "sync"}
           /\ task[t].outcome # <<>> <=> task[t].phase = "end"
           /\ task[t].phase = "idle" => task[t].queue = <<>>
           /\ task[t].phase = "begin" => task[t].queue # <<>>

(* The writer lock and the transactions of tasks agree: no end of a task or   *)
(* of a SYNCPOINT - RETURN, ABEND, a failed commit, a panic - leaves a        *)
(* transaction whose lock is free, or a lock that no transaction will free,   *)
(* and nobody waits for the lock who holds it.                                *)
LockOwned ==
    /\ lock = {t \in Threads : task[t].txn}
    /\ \A t \in lock : lock = {t} /\ task[t].phase \in {"run", "end", "idle"}

(* LINK never goes deeper than MAX_LINK_DEPTH programs, XCTL never deeper     *)
(* than the program it replaces, in any mix of the two.                       *)
DepthBounded == \A t \in Threads : link_level(task[t]) <= MAX_LINK_DEPTH

(* A call of start_task that returns without an I/O error has run every task  *)
(* that was STARTed in it, at any LINK level and by tasks that ABENDed too,   *)
(* and returns what the originating task returned, whatever the STARTed ones  *)
(* have returned since.                                                       *)
AnswerComplete ==
    \A t \in Threads :
        task[t].phase = "idle" /\ ~task[t].external /\ task[t].answer # <<>> =>
            \/ task[t].answer.cond \in {"Io", "panic"}
            \/ task[t].ran = task[t].started /\ task[t].answer = task[t].first

(* The region implements serial units of work: what a task changed since its  *)
(* last syncpoint becomes visible at once, at its normal end or SYNCPOINT, or *)
(* never; and it always works on the records committed last, also after it    *)
(* has let the lock go inside SYNCPOINT.                                      *)
Work == INSTANCE Units WITH
    db <- data, open <- lock,
    seen <- [t \in Threads |-> IF t \in lock THEN working ELSE NoRecords]
ImplementsUnits == Work!Spec

(* Every call of start_task returns, if programs end: nobody keeps the writer *)
(* lock and nobody waits for it for ever.                                     *)
EveryCallReturns ==
    \A t \in Threads :
        task[t].phase # "idle" /\ ~task[t].external ~> task[t].phase = "idle"

(* What the `expect` of every command says: a running program has a write     *)
(* transaction.                                                               *)
TxnPresent ==
    \A t \in Threads : task[t].phase = "run" /\ ~task[t].external => task[t].txn

===============================================================================
