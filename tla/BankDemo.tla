-------------------------------- MODULE BankDemo -------------------------------
(******************************************************************************)
(* The programs of examples/bank_demo.rs, run by Region.  The state of a      *)
(* program is where it stands (at), its COMMAREA (req), what its commands     *)
(* have returned (seen), the task id, and the condition a command raised: `?` *)
(* makes the program ABEND with it.                                           *)
(*                                                                            *)
(* Account names are byte strings; a balance record is its i64 value; the key *)
(* of an audit record, the task id in twenty digits, keeps ids apart and in   *)
(* order, as the one-element key <<id>> does.                                 *)
(******************************************************************************)
EXTENDS Region

ALICE == <<1>>
BOB == <<2>>

Read(file, key) == [op |-> "READ", file |-> file, key |-> key]
Store(op, file, key, value) == [op |-> op, file |-> file, key |-> key, data |-> value]
Invoke(op, program, req) == [op |-> op, program |-> program, commarea |-> req]
RETURN(commarea) == [op |-> "RETURN", commarea |-> commarea]
ABEND(cond) == [op |-> "ABEND", cond |-> cond]

get_balance(acct) == Read("ACCOUNTS", acct)

OPEN_ACCOUNTS(s) ==
    CASE s.at = 1 -> Store("WRITE", "ACCOUNTS", ALICE, 1000)
      [] s.at = 2 -> Store("WRITE", "ACCOUNTS", BOB, 500)
      [] s.at = 3 -> RETURN(<<>>)

DEBIT(s) ==
    CASE s.at = 1 -> get_balance(s.req.from)
      [] s.at = 2 /\ s.seen[1] < s.req.amount -> ABEND("InvalidRequest")
      [] s.at = 2 /\ s.seen[1] >= s.req.amount ->
             Store("REWRITE", "ACCOUNTS", s.req.from, s.seen[1] - s.req.amount)
      [] s.at = 3 -> RETURN(<<>>)

CREDIT(s) ==
    CASE s.at = 1 -> get_balance(s.req.to)
      [] s.at = 2 -> Store("REWRITE", "ACCOUNTS", s.req.to, s.seen[1] + s.req.amount)
      [] s.at = 3 -> RETURN(<<>>)

(* Mutant of AUDIT_LOG: one record per source account.                        *)
AUDIT_LOG_by_account(s) ==
    CASE s.at = 1 -> Store("WRITE", "AUDIT", s.req.from, s.req)
      [] s.at = 2 -> RETURN(<<>>)

AUDIT_LOG(s) ==
    CASE s.at = 1 -> Store("WRITE", "AUDIT", <<s.id>>, s.req)
      [] s.at = 2 -> RETURN(<<>>)

(* Mutant of STATEMENT: the balances are returned in the wrong order.         *)
STATEMENT_swapped(s) ==
    CASE s.at = 1 -> get_balance(s.req.from)
      [] s.at = 2 -> get_balance(s.req.to)
      [] s.at = 3 -> RETURN(<<s.seen[2], s.seen[1]>>)

STATEMENT(s) ==
    CASE s.at = 1 -> get_balance(s.req.from)
      [] s.at = 2 -> get_balance(s.req.to)
      [] s.at = 3 -> RETURN(s.seen)

TRANSFER(s) ==
    CASE s.at = 1 -> Invoke("LINK", "DEBIT", s.req)
      [] s.at = 2 -> Invoke("LINK", "CREDIT", s.req)
      [] s.at = 3 -> Invoke("START", "AUDIT_LOG", s.req)
      [] s.at = 4 -> Invoke("XCTL", "STATEMENT", s.req)

LIST_AUDIT(s) ==
    CASE s.at = 1 -> [op |-> "BROWSE", file |-> "AUDIT", key |-> <<>>, limit |-> 100]
      [] s.at = 2 -> RETURN(<<>>)

BankPrograms == {"OPEN_ACCOUNTS", "DEBIT", "CREDIT", "AUDIT_LOG", "STATEMENT",
                 "TRANSFER", "LIST_AUDIT"}
BankFiles == <<"ACCOUNTS", "AUDIT">>

BankEnter(program, commarea, eib) ==
    [program |-> program, at |-> 1, req |-> commarea, seen |-> <<>>,
     id |-> eib.task_id, cond |-> "NORMAL"]

BankLearn(s, resp) ==
    IF resp.cond # "NORMAL" THEN [s EXCEPT !.cond = resp.cond]
    ELSE [s EXCEPT !.at = @ + 1, !.seen = Append(@, resp.value)]

BankIssue(s) ==
    IF s.cond # "NORMAL" THEN {ABEND(s.cond)}
    ELSE {CASE s.program = "OPEN_ACCOUNTS" -> OPEN_ACCOUNTS(s)
            [] s.program = "DEBIT"         -> DEBIT(s)
            [] s.program = "CREDIT"        -> CREDIT(s)
            [] s.program = "AUDIT_LOG"     -> AUDIT_LOG(s)
            [] s.program = "STATEMENT"     -> STATEMENT(s)
            [] s.program = "TRANSFER"      -> TRANSFER(s)
            [] s.program = "LIST_AUDIT"    -> LIST_AUDIT(s)}

(* What main and transfer ask of the region.                                  *)
Setup == [program |-> "OPEN_ACCOUNTS", commarea |-> <<>>]
Listing == [program |-> "LIST_AUDIT", commarea |-> <<>>]
Show == [program |-> "STATEMENT",
         commarea |-> [from |-> ALICE, to |-> BOB, amount |-> 0]]
transfer(from, to, amount) ==
    [program |-> "TRANSFER", commarea |-> [from |-> from, to |-> to, amount |-> amount]]

-------------------------------------------------------------------------------
Account(acct) == storage_key(fct.files["ACCOUNTS"], acct)
Audit(id) == storage_key(fct.files["AUDIT"], <<id>>)

(* No money is made or lost, no account is overdrawn and no account is opened *)
(* without the other, whatever transfers fail half-way and whenever the       *)
(* process dies (the demo's "an overdrawn transfer ABENDs and is completely   *)
(* rolled back" and "committed data must survive a restart").                 *)
BalancesSound ==
    \/ Account(ALICE) \notin DOMAIN data /\ Account(BOB) \notin DOMAIN data
    \/ /\ data[Account(ALICE)] + data[Account(BOB)] = 1500
       /\ data[Account(ALICE)] >= 0 /\ data[Account(BOB)] >= 0

(* The balances a transfer or a statement reports to its caller are the ones  *)
(* that its unit of work commits.                                             *)
StatementTrue ==
    [][\A t \in Threads :
           /\ task[t].phase = "end" /\ task[t].result = <<>>
           /\ task'[t].result # <<>> /\ task'[t].result.cond = "NORMAL"
           /\ task[t].request.program \in {"TRANSFER", "STATEMENT"}
           => task'[t].result.value = <<data'[Account(task[t].request.commarea.from)],
                                        data'[Account(task[t].request.commarea.to)]>>]_vars

(* A transfer that the caller is told has succeeded is in the audit trail,    *)
(* under the number of the task that logged it, until the region is reopened  *)
(* and task numbers start again.                                               *)
TransfersAudited ==
    \A t \in Threads :
        /\ restarts = 0 /\ task[t].phase = "idle" /\ task[t].answer # <<>>
        /\ task[t].answer.cond = "NORMAL" /\ task[t].request.program = "TRANSFER"
        => /\ Audit(task[t].id) \in DOMAIN data
           /\ data[Audit(task[t].id)] = task[t].request.commarea

(* The committed audit records.                                               *)
AuditKeys(m) ==
    {k \in DOMAIN m : SubSeq(k, 1, ID_BYTES) = storage_key(fct.files["AUDIT"], <<>>)}

(* The audit trail never claims what was not done and forgets nothing: no     *)
(* step changes or removes a committed record of it, the tasks of a new       *)
(* process included, whose numbers start again and meet the keys of the old   *)
(* one; and a record that appears tells of a transfer that has committed.     *)
TrailTrue ==
    [][/\ \A k \in AuditKeys(data) : k \in AuditKeys(data') /\ data'[k] = data[k]
       /\ \A k \in AuditKeys(data') \ AuditKeys(data) :
              \E t \in Threads :
                  /\ task[t].phase = "end" /\ task[t].request.program = "TRANSFER"
                  /\ task[t].first # <<>> /\ task[t].first.cond = "NORMAL"
                  /\ data'[k] = task[t].request.commarea]_vars

===============================================================================
