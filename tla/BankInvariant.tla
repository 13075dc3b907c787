----------------------------- MODULE BankInvariant -----------------------------
(******************************************************************************)
(* The inductive invariants of the bank demo.  LedgerInv follows the money    *)
(* through the programs of a transfer; TrailInv follows the audit trail and   *)
(* the task numbers.  The proofs are in BankProofs, and TLC checks both as    *)
(* invariants.                                                                *)
(******************************************************************************)
EXTENDS BankDemo

(* The region is the demo's: its programs, and requests like those of main    *)
(* and transfer, with any accounts and any amounts.                           *)
BankRequest(q) ==
    /\ q.program \in {"OPEN_ACCOUNTS", "LIST_AUDIT", "STATEMENT", "TRANSFER"}
    /\ q.program \in {"STATEMENT", "TRANSFER"} =>
           q.commarea.from \in Seq(Nat) /\ q.commarea.to \in Seq(Nat)
    /\ q.program = "TRANSFER" => q.commarea.amount \in Nat

DemoRequests == \A q \in Requests : BankRequest(q)

BankRegion ==
    /\ Programs = BankPrograms /\ Files = BankFiles /\ DemoRequests
    /\ \A p, a, e : Enter(p, a, e) = BankEnter(p, a, e)
    /\ \A s : Issue(s) = BankIssue(s)
    /\ \A s, resp : Learn(s, resp) = BankLearn(s, resp)

-------------------------------------------------------------------------------
(* The ledger, on the records m of a store or of a transaction.               *)

(* The accounts that requests name.                                           *)
Named ==
    {ALICE, BOB} \cup
    UNION {{q.commarea.from, q.commarea.to} :
               q \in {r \in Requests : r.program \in {"STATEMENT", "TRANSFER"}}}

OnlyKnown(m) ==
    \A acct \in Named : Account(acct) \in DOMAIN m =>
        Account(acct) \in {Account(ALICE), Account(BOB)}

Holds(m, total) ==
    /\ Account(ALICE) \in DOMAIN m /\ Account(BOB) \in DOMAIN m
    /\ m[Account(ALICE)] \in Nat /\ m[Account(BOB)] \in Nat
    /\ m[Account(ALICE)] + m[Account(BOB)] = total

Sound(m) ==
    /\ OnlyKnown(m)
    /\ \/ Account(ALICE) \notin DOMAIN m /\ Account(BOB) \notin DOMAIN m
       \/ Holds(m, 1500)

(* Between DEBIT and CREDIT.                                                  *)
Owes(m, amount) == OnlyKnown(m) /\ Holds(m, 1500 - amount)

(* Between the two WRITEs of OPEN_ACCOUNTS.                                   *)
HalfOpen(m) ==
    /\ OnlyKnown(m)
    /\ Account(ALICE) \in DOMAIN m /\ m[Account(ALICE)] = 1000
    /\ Account(BOB) \notin DOMAIN m

Shows(m, acct, v) == Account(acct) \in DOMAIN m /\ v = m[Account(acct)]

(* s is the state of a program, and its last step is one it has.              *)
IsState(s) ==
    s = [program |-> s.program, at |-> s.at, req |-> s.req, seen |-> s.seen,
         id |-> s.id, cond |-> s.cond]

Steps(program) ==
    IF program = "TRANSFER" THEN 1 .. 4
    ELSE IF program \in {"AUDIT_LOG", "LIST_AUDIT"} THEN 1 .. 2
    ELSE 1 .. 3

(* What the program on top of the stack finds in the records, by where it     *)
(* stands, as long as no command has failed.                                  *)
StateOK(s, m) ==
    /\ s.program = "OPEN_ACCOUNTS" => IF s.at = 2 THEN HalfOpen(m) ELSE Sound(m)
    /\ s.program \in {"AUDIT_LOG", "LIST_AUDIT", "STATEMENT"} => Sound(m)
    /\ s.program = "TRANSFER" => IF s.at = 2 THEN Owes(m, s.req.amount) ELSE Sound(m)
    /\ s.program = "DEBIT" => IF s.at = 3 THEN Owes(m, s.req.amount) ELSE Sound(m)
    /\ s.program = "CREDIT" => IF s.at = 3 THEN Sound(m) ELSE Owes(m, s.req.amount)
    /\ s.program \in {"DEBIT", "CREDIT", "STATEMENT"} /\ s.at = 1 => s.seen = <<>>
    /\ s.program \in {"DEBIT", "STATEMENT"} /\ s.at = 2 =>
           s.seen = <<s.seen[1]>> /\ Shows(m, s.req.from, s.seen[1])
    /\ s.program = "CREDIT" /\ s.at = 2 => Shows(m, s.req.to, s.seen[1])
    /\ s.program = "STATEMENT" /\ s.at = 3 =>
           /\ s.seen = <<s.seen[1], s.seen[2]>>
           /\ Shows(m, s.req.from, s.seen[1]) /\ Shows(m, s.req.to, s.seen[2])

ProgramOK(s, m) ==
    /\ IsState(s) /\ s.at \in Steps(s.program)
    /\ s.cond = "NORMAL" => StateOK(s, m)

AuditOf(q) == [program |-> "AUDIT_LOG", commarea |-> q.commarea]

(* The originating task has not ended.                                        *)
Origin(c) == c.result = <<>>

(* The programs of a call and what they have queued.                          *)
SingleOK(c, s) ==
    \/ /\ Origin(c) /\ s.program = c.request.program
       /\ c.queue = IF s.program = "TRANSFER" /\ s.at = 4 THEN <<AuditOf(c.request)>>
                    ELSE <<>>
    \/ /\ Origin(c) /\ c.request.program = "TRANSFER" /\ s.program = "STATEMENT"
       /\ c.queue = <<AuditOf(c.request)>>
    \/ /\ ~Origin(c) /\ c.request.program = "TRANSFER" /\ s.program = "AUDIT_LOG"
       /\ c.queue = <<>>

LinkedOK(c, p, s) ==
    /\ Origin(c) /\ c.request.program = "TRANSFER" /\ c.queue = <<>>
    /\ IsState(p) /\ p.program = "TRANSFER" /\ p.cond = "NORMAL"
    /\ p.req = c.request.commarea /\ p.id = c.id
    /\ \/ p.at = 1 /\ s.program = "DEBIT"
       \/ p.at = 2 /\ s.program = "CREDIT"

RunsOK(c, m) ==
    \E s \in {Last(c.stack)} :
        /\ ProgramOK(s, m) /\ s.req = c.request.commarea
        /\ \/ c.stack = <<s>> /\ SingleOK(c, s) /\ s.id = c.id
           \/ \E p \in {Head(c.stack)} : c.stack = <<p, s>> /\ LinkedOK(c, p, s)

(* What is committed, if the task has ended normally.                         *)
EndsOK(c, m) ==
    /\ c.queue = <<>> \/ (Origin(c) /\ c.request.program = "TRANSFER"
                            /\ c.queue = <<AuditOf(c.request)>>)
    /\ c.outcome.cond = "NORMAL" =>
           /\ Sound(m)
           /\ Origin(c) /\ c.request.program \in {"STATEMENT", "TRANSFER"} =>
                  /\ c.outcome.value = <<c.outcome.value[1], c.outcome.value[2]>>
                  /\ Shows(m, c.request.commarea.from, c.outcome.value[1])
                  /\ Shows(m, c.request.commarea.to, c.outcome.value[2])
           /\ Origin(c) /\ c.request.program = "TRANSFER" => c.queue # <<>>

WaitsOK(c) ==
    \/ Origin(c) /\ c.queue = <<c.request>>
    \/ /\ ~Origin(c) /\ c.request.program = "TRANSFER"
       /\ c.queue = <<AuditOf(c.request)>>
    \/ ~Origin(c) /\ c.queue = <<>>

BankCall(c, m) ==
    /\ ~c.external /\ c.phase # "sync"
    /\ c.phase # "idle" => c.request \in Requests
    /\ c.phase \in {"run", "end"} => c.txn
    /\ c.phase \in {"dispatch", "begin"} => WaitsOK(c)
    /\ c.phase = "run" => RunsOK(c, m)
    /\ c.phase = "end" => EndsOK(c, m)

LedgerInv == Sound(data) /\ \A t \in Threads : BankCall(task[t], working)

-------------------------------------------------------------------------------
(* The audit trail, until the first restart.                                  *)

(* The task numbers under which m has audit records.                          *)
AuditId(k) == k[ID_BYTES + 1]
Audits(m) == {AuditId(k) : k \in {x \in DOMAIN m : x = Audit(AuditId(x))}}

Busy(c) == c.phase \in {"begin", "run", "end"}

(* The task that logs the transfer of c: running, and ended.                  *)
Logging(c) == c.phase \in {"run", "end"} /\ ~Origin(c)
Logged(c) == Logging(c) /\ (c.phase = "run" => Last(c.stack).at = 2)

Recorded(c, m) == Audit(c.id) \in DOMAIN m /\ m[Audit(c.id)] = c.request.commarea

(* What a logging task has done, and that nothing has kept it from it.        *)
LogOK(c, m) ==
    /\ Logging(c) /\ c.phase = "run" => Last(c.stack).cond = "NORMAL"
    /\ Logging(c) /\ c.phase = "end" => c.outcome.cond = "NORMAL"
    /\ Logged(c) => Recorded(c, m)

(* The audit records of base are in m, which has at most one more.            *)
TrailKept(c, base, m) ==
    /\ \A i \in Audits(base) :
           Audit(i) \in DOMAIN m /\ m[Audit(i)] = base[Audit(i)]
    /\ \A i \in Audits(m) : i \in Audits(base) \/ (Logged(c) /\ i = c.id)

(* The call has logged its transfer.                                          *)
Finished(c) ==
    /\ \/ /\ c.phase = "dispatch" /\ c.queue = <<>> /\ ~Origin(c)
          /\ c.result.cond = "NORMAL"
       \/ c.phase = "idle" /\ c.answer # <<>> /\ c.answer.cond = "NORMAL"
    /\ c.request.program = "TRANSFER"

NumbersApart ==
    /\ \A i \in Audits(data) :
           i \in Nat /\ i < next_task /\ \A t \in Threads : Busy(task[t]) => task[t].id # i
    /\ \A t \in Threads : Busy(task[t]) => task[t].id \in Nat /\ task[t].id < next_task
    /\ \A t, u \in Threads :
           t # u /\ Busy(task[t]) /\ Busy(task[u]) => task[t].id # task[u].id

TrailInv ==
    restarts = 0 =>
        /\ NumbersApart
        /\ \A t \in Threads :
               /\ LogOK(task[t], working)
               /\ t \in lock => TrailKept(task[t], data, working)
               /\ Finished(task[t]) => Recorded(task[t], data)

===============================================================================
