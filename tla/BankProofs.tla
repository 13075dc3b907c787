------------------------------- MODULE BankProofs ------------------------------
(* Proofs about the bank demo, for any accounts, amounts, threads and process *)
(* deaths.                                                                    *)
EXTENDS BankInvariant, RegionProofs, FileControlProofs

-------------------------------------------------------------------------------
(* The demo's files.                                                          *)

(* Both files are defined, and their ids differ in some byte.                 *)
FilesApart ==
    /\ "ACCOUNTS" \in DOMAIN fct.files /\ "AUDIT" \in DOMAIN fct.files
    /\ to_be_bytes(fct.files["ACCOUNTS"]) # to_be_bytes(fct.files["AUDIT"])

(* The table of the demo, as the two calls of define_file fill it.            *)
LEMMA DemoTable ==
    ASSUME Files = BankFiles
    PROVE  fct = define(define(EmptyTable, "ACCOUNTS"), "AUDIT")
<1>0. DOMAIN Files = {1, 2} /\ Files[1] = "ACCOUNTS" /\ Files[2] = "AUDIT"
  BY DEF BankFiles
<1> DEFINE Step(it, s) == IF s = {} THEN EmptyTable
                          ELSE define(it[s \ {Max(s)}], Files[Max(s)])
           IsFold(it) == it = [s \in SUBSET (DOMAIN Files) |-> Step(it, s)]
<1>1. fct = (CHOOSE it : IsFold(it))[DOMAIN Files]
  BY DEF fct, FoldLeft, MapThenFoldSet
<1>2. Max({1, 2}) = 2 /\ Max({1}) = 1 /\ Max({2}) = 2
  BY DEF Max
<1>3. \E it : IsFold(it)
  <2>1. PICK E, A, B : /\ E = EmptyTable /\ A = define(E, "ACCOUNTS")
                          /\ B = define(E, "AUDIT")
    OBVIOUS
  <2>3. PICK it : it = [s \in SUBSET {1, 2} |->
                          IF s = {} THEN E ELSE IF s = {1} THEN A ELSE IF s = {2} THEN B
                          ELSE define(A, "AUDIT")]
    OBVIOUS
  <2>4. ASSUME NEW s \in SUBSET {1, 2} PROVE it[s] = Step(it, s)
    <3>1. CASE s = {}
      BY <2>1, <2>3, <3>1
    <3>2. CASE s = {1}
      <4>1. s \ {Max(s)} = {} /\ it[{}] = E /\ it[s] = A
        BY <1>2, <2>3, <3>2
      <4> QED
        BY <1>0, <1>2, <2>1, <3>2, <4>1
    <3>3. CASE s = {2}
      <4>1. s \ {Max(s)} = {} /\ it[{}] = E /\ it[s] = B
        BY <1>2, <2>3, <3>3
      <4> QED
        BY <1>0, <1>2, <2>1, <3>3, <4>1
    <3>4. CASE s = {1, 2}
      <4>1. s \ {Max(s)} = {1} /\ it[{1}] = A /\ it[s] = define(A, "AUDIT")
        BY <1>2, <2>3, <3>4
      <4> QED
        BY <1>0, <1>2, <3>4, <4>1
    <3> QED
      BY <3>1, <3>2, <3>3, <3>4
  <2>5. IsFold(it)
    BY <1>0, <2>3, <2>4
  <2> QED
    BY <2>5
<1>4. PICK it : IsFold(it) /\ fct = it[DOMAIN Files]
  BY <1>1, <1>3
<1>5. it[{1, 2}] = define(it[{1}], "AUDIT")
  <2>1. {1, 2} \ {Max({1, 2})} = {1}
    BY <1>2
  <2> QED
    BY <1>0, <1>2, <1>4, <2>1
<1>6. it[{1}] = define(it[{}], "ACCOUNTS")
  <2>1. {1} \ {Max({1})} = {}
    BY <1>2
  <2>2. it[{1}] = Step(it, {1})
    BY <1>0, <1>4
  <2> QED
    BY <1>0, <1>2, <2>1, <2>2
<1>7. it[{}] = EmptyTable
  BY <1>0, <1>4
<1> QED
  BY <1>0, <1>4, <1>5, <1>6, <1>7
(* The demo's files are defined, and their ids differ in some byte.           *)
LEMMA DemoFiles ==
    ASSUME BankRegion
    PROVE  FilesApart
<1>0. Files = BankFiles
  BY DEF BankRegion
<1>1. PICK t : t = fct.files
  OBVIOUS
<1>2. /\ DOMAIN t = {"ACCOUNTS", "AUDIT"}
      /\ t["ACCOUNTS"] = 0 /\ t["AUDIT"] = 1 % FILE_IDS
  BY <1>0, <1>1, DemoTable DEF define, EmptyTable, Assign, NoRecords
<1>3. Less(to_be_bytes(0), to_be_bytes(1))
  BY TwoFileIds, BytesIncrease
<1>4. to_be_bytes(0) # to_be_bytes(1)
  BY <1>3, TwoFileIds, BytesAreNumbers, LessIrreflexive
<1> QED
  BY <1>1, <1>2, <1>4, TwoFileIds DEF FilesApart

-------------------------------------------------------------------------------
(* Storage keys.                                                              *)

(* A storage key is the file's prefix and the record's key.                   *)
LEMMA KeyParts ==
    ASSUME NEW f, NEW R, NEW r \in Seq(R), NEW k, k = storage_key(f, r)
    PROVE  /\ \A i \in 1 .. ID_BYTES : k[i] = to_be_bytes(f)[i]
           /\ \A j \in 1 .. Len(r) : k[ID_BYTES + j] = r[j]
<1> DEFINE p == to_be_bytes(f)
           S == R \cup {p[i] : i \in 1 .. ID_BYTES}
<1>1. ID_BYTES \in Nat
  BY FileControlAssumption
<1>2. DOMAIN p = 1 .. ID_BYTES /\ p = [i \in 1 .. ID_BYTES |-> p[i]]
  BY DEF to_be_bytes
<1> HIDE DEF p
<1>3. p \in [1 .. ID_BYTES -> S]
  BY <1>2
<1>4. p \in Seq(S) /\ Len(p) = ID_BYTES
  BY <1>1, <1>3, SeqDef
<1>5. r \in Seq(S) /\ Len(r) \in Nat
  BY SeqMonotonic, R \subseteq S
<1>6. k = p \o r
  BY DEF storage_key, p
<1> HIDE DEF S
<1>7. /\ \A i \in 1 .. ID_BYTES : k[i] = p[i]
      /\ \A j \in 1 .. Len(r) : k[ID_BYTES + j] = r[j]
  BY <1>1, <1>4, <1>5, <1>6
<1> QED
  BY <1>7 DEF p

(* The keys of accounts and of audit records.                                 *)
LEMMA AccountKey ==
    ASSUME NEW acct \in Seq(Nat)
    PROVE  /\ \A i \in 1 .. ID_BYTES :
                  Account(acct)[i] = to_be_bytes(fct.files["ACCOUNTS"])[i]
           /\ \A j \in 1 .. Len(acct) : Account(acct)[ID_BYTES + j] = acct[j]
<1>1. PICK f, k : f = fct.files["ACCOUNTS"] /\ k = storage_key(f, acct)
  OBVIOUS
<1>2. /\ \A i \in 1 .. ID_BYTES : k[i] = to_be_bytes(f)[i]
      /\ \A j \in 1 .. Len(acct) : k[ID_BYTES + j] = acct[j]
  BY <1>1, KeyParts
<1> QED
  BY <1>1, <1>2 DEF Account

(* The key of an audit record starts with the prefix of AUDIT and ends with   *)
(* the task number.                                                           *)
LEMMA AuditKey ==
    ASSUME NEW id
    PROVE  /\ \A i \in 1 .. ID_BYTES :
                  Audit(id)[i] = to_be_bytes(fct.files["AUDIT"])[i]
           /\ Audit(id)[ID_BYTES + 1] = id
<1>1. PICK f, r, k, R : /\ f = fct.files["AUDIT"] /\ r = <<id>> /\ R = {id}
                        /\ k = storage_key(f, r)
  OBVIOUS
<1>2. r \in Seq(R) /\ Len(r) = 1 /\ r[1] = id
  BY <1>1
<1>3. /\ \A i \in 1 .. ID_BYTES : k[i] = to_be_bytes(f)[i]
      /\ \A j \in 1 .. Len(r) : k[ID_BYTES + j] = r[j]
  <2>1. k = storage_key(f, r) /\ r \in Seq(R)
    BY <1>1, <1>2
  <2> QED
    BY <2>1, KeyParts
<1>4. k[ID_BYTES + 1] = id
  BY <1>2, <1>3
<1> QED
  BY <1>1, <1>3, <1>4 DEF Audit

(* The keys of the two accounts differ, no audit record is an account, and an *)
(* audit record's key holds its task number.                                  *)
LEMMA KeysApart ==
    ASSUME BankRegion
    PROVE  /\ Account(ALICE) # Account(BOB)
           /\ \A acct \in Named : \A i : Audit(i) # Account(acct)
           /\ \A i : AuditId(Audit(i)) = i
           /\ ALICE \in Named /\ BOB \in Named
<1>1. ALICE \in Named /\ BOB \in Named
  BY DEF Named
<1>2. ALICE \in Seq(Nat) /\ Len(ALICE) = 1 /\ ALICE[1] = 1
  BY DEF ALICE
<1>3. BOB \in Seq(Nat) /\ Len(BOB) = 1 /\ BOB[1] = 2
  BY DEF BOB
<1>4. ASSUME NEW acct \in Named PROVE acct \in Seq(Nat)
  <2>1. CASE acct \in {ALICE, BOB}
    BY <1>2, <1>3, <2>1
  <2>2. CASE acct \notin {ALICE, BOB}
    <3>1. PICK q \in Requests : /\ q.program \in {"STATEMENT", "TRANSFER"}
                               /\ acct \in {q.commarea.from, q.commarea.to}
      BY <1>4, <2>2 DEF Named
    <3> QED
      BY <3>1 DEF BankRegion, DemoRequests, BankRequest
  <2> QED
    BY <2>1, <2>2
<1>5. Account(ALICE) # Account(BOB)
  <2>0. PICK a, b : a = ALICE /\ b = BOB
    OBVIOUS
  <2>1. \A j \in 1 .. Len(a) : Account(a)[ID_BYTES + j] = a[j]
    BY <1>2, <2>0, AccountKey
  <2>2. \A j \in 1 .. Len(b) : Account(b)[ID_BYTES + j] = b[j]
    BY <1>3, <2>0, AccountKey
  <2>3. 1 \in 1 .. Len(a) /\ a[1] = 1 /\ 1 \in 1 .. Len(b) /\ b[1] = 2
    BY <1>2, <1>3, <2>0
  <2>4. Account(a)[ID_BYTES + 1] = 1
    BY <2>1, <2>3, Zenon
  <2>5. Account(b)[ID_BYTES + 1] = 2
    BY <2>2, <2>3, Zenon
  <2>6. 1 # 2
    OBVIOUS
  <2> QED
    BY <2>0, <2>4, <2>5, <2>6, Zenon
<1>6. ASSUME NEW i PROVE AuditId(Audit(i)) = i
  BY AuditKey DEF AuditId
<1>7. ASSUME NEW acct \in Named, NEW i PROVE Audit(i) # Account(acct)
  <2>1. PICK p, q : /\ p = to_be_bytes(fct.files["ACCOUNTS"])
                    /\ q = to_be_bytes(fct.files["AUDIT"])
    OBVIOUS
  <2>2. p # q
    BY <2>1, DemoFiles DEF FilesApart
  <2>3. p = [j \in 1 .. ID_BYTES |-> p[j]] /\ q = [j \in 1 .. ID_BYTES |-> q[j]]
    BY <2>1 DEF to_be_bytes
  <2>4. PICK j \in 1 .. ID_BYTES : p[j] # q[j]
    BY <2>2, <2>3
  <2>5. Account(acct)[j] = p[j]
    BY <1>4, <1>7, <2>1, AccountKey
  <2>6. Audit(i)[j] = q[j]
    BY <2>1, AuditKey
  <2> QED
    BY <2>4, <2>5, <2>6
<1> QED
  BY <1>1, <1>5, <1>6, <1>7

-------------------------------------------------------------------------------
(* The ledger under the changes of the demo's programs.                       *)

(* An audit record is no money.                                               *)
LEMMA AuditKeepsSound ==
    ASSUME BankRegion, NEW m, Sound(m), NEW i, NEW v, NEW w, w = Assign(m, Audit(i), v)
    PROVE  Sound(w)
<1>1. \A acct \in Named : Account(acct) # Audit(i)
  BY KeysApart
<1>4. PICK k : k = Audit(i)
  OBVIOUS
<1>5. DOMAIN w = DOMAIN m \cup {k} /\ \A x \in DOMAIN m : x # k => w[x] = m[x]
  BY <1>4 DEF Assign
<1>2. \A acct \in Named : /\ Account(acct) \in DOMAIN w <=> Account(acct) \in DOMAIN m
                          /\ Account(acct) \in DOMAIN m => w[Account(acct)] = m[Account(acct)]
  BY <1>1, <1>4, <1>5
<1>3. ALICE \in Named /\ BOB \in Named
  BY KeysApart
<1> QED
  BY <1>2, <1>3 DEF Sound, OnlyKnown, Holds

(* DEBIT takes the amount out of an account that covers it.                   *)
LEMMA DebitOwes ==
    ASSUME BankRegion, NEW m, Sound(m), NEW acct \in Named, NEW v, Shows(m, acct, v),
           NEW amount \in Nat, ~(v < amount),
           NEW w, w = Assign(m, Account(acct), v - amount)
    PROVE  Owes(w, amount)
<1> DEFINE a == Account(ALICE)
           b == Account(BOB)
           k == Account(acct)
<1>1. k \in {a, b} /\ k \in DOMAIN m /\ v = m[k]
  BY DEF Sound, OnlyKnown, Shows
<1>2. /\ a \in DOMAIN m /\ b \in DOMAIN m /\ m[a] \in Nat /\ m[b] \in Nat
      /\ m[a] + m[b] = 1500
  BY <1>1 DEF Sound, Holds
<1>3. a # b
  BY KeysApart
<1>4. DOMAIN w = DOMAIN m /\ w[k] = v - amount /\ \A x \in DOMAIN m : x # k => w[x] = m[x]
  <2>1. PICK n : n = v - amount
    OBVIOUS
  <2>2. w = Assign(m, k, n)
    BY <2>1
  <2> HIDE DEF k
  <2> QED
    BY <1>1, <2>1, <2>2 DEF Assign
<1>5. OnlyKnown(w)
  BY <1>4 DEF Sound, OnlyKnown
<1> HIDE DEF a, b, k
<1>6. v \in Nat /\ v - amount \in Nat
  BY <1>1, <1>2
<1>7. a \in DOMAIN w /\ b \in DOMAIN w /\ w[a] \in Nat /\ w[b] \in Nat
      /\ w[a] + w[b] = 1500 - amount
  <2>1. CASE k = a
    BY <1>1, <1>2, <1>3, <1>4, <1>6, <2>1
  <2>2. CASE k = b
    BY <1>1, <1>2, <1>3, <1>4, <1>6, <2>2
  <2> QED
    BY <1>1, <2>1, <2>2
<1> QED
  BY <1>5, <1>7 DEF Owes, Holds, a, b

(* CREDIT gives it to an account that exists.                                 *)
LEMMA CreditSound ==
    ASSUME BankRegion, NEW amount \in Nat, NEW m, Owes(m, amount), NEW acct \in Named,
           NEW v, Shows(m, acct, v), NEW w, w = Assign(m, Account(acct), v + amount)
    PROVE  Sound(w)
<1> DEFINE a == Account(ALICE)
           b == Account(BOB)
           k == Account(acct)
<1>1. k \in {a, b} /\ k \in DOMAIN m /\ v = m[k]
  BY DEF Owes, OnlyKnown, Shows
<1>2. /\ a \in DOMAIN m /\ b \in DOMAIN m /\ m[a] \in Nat /\ m[b] \in Nat
      /\ m[a] + m[b] = 1500 - amount
  BY DEF Owes, Holds
<1>3. a # b
  BY KeysApart
<1>4. DOMAIN w = DOMAIN m /\ w[k] = v + amount /\ \A x \in DOMAIN m : x # k => w[x] = m[x]
  <2>1. PICK n : n = v + amount
    OBVIOUS
  <2>2. w = Assign(m, k, n)
    BY <2>1
  <2> HIDE DEF k
  <2> QED
    BY <1>1, <2>1, <2>2 DEF Assign
<1>5. OnlyKnown(w)
  BY <1>4 DEF Owes, OnlyKnown
<1> HIDE DEF a, b, k
<1>6. a \in DOMAIN w /\ b \in DOMAIN w /\ w[a] \in Nat /\ w[b] \in Nat
      /\ w[a] + w[b] = 1500
  <2>1. CASE k = a
    BY <1>1, <1>2, <1>3, <1>4, <2>1
  <2>2. CASE k = b
    BY <1>1, <1>2, <1>3, <1>4, <2>2
  <2> QED
    BY <1>1, <2>1, <2>2
<1> QED
  BY <1>5, <1>6 DEF Sound, Holds, a, b

(* OPEN_ACCOUNTS opens both accounts or fails on the first.                   *)
LEMMA OpeningSound ==
    ASSUME BankRegion, NEW m
    PROVE  /\ Sound(m) /\ Account(ALICE) \notin DOMAIN m =>
                  HalfOpen(Assign(m, Account(ALICE), 1000))
           /\ HalfOpen(m) => Sound(Assign(m, Account(BOB), 500))
<1> DEFINE a == Account(ALICE)
           b == Account(BOB)
<1>1. a # b
  BY KeysApart
<1>2. ASSUME Sound(m), a \notin DOMAIN m
      PROVE  HalfOpen(Assign(m, a, 1000))
  <2>0. PICK k : k = a
    OBVIOUS
  <2>1. PICK w : w = Assign(m, k, 1000)
    OBVIOUS
  <2>2. DOMAIN w = DOMAIN m \cup {a} /\ w[a] = 1000
    BY <2>0, <2>1 DEF Assign
  <2>3. b \notin DOMAIN m
    BY <1>2 DEF Sound, Holds
  <2>4. OnlyKnown(w)
    BY <1>2, <2>2 DEF Sound, OnlyKnown
  <2> QED
    BY <1>1, <2>0, <2>1, <2>2, <2>3, <2>4 DEF HalfOpen
<1>3. ASSUME HalfOpen(m)
      PROVE  Sound(Assign(m, b, 500))
  <2>0. PICK k : k = b
    OBVIOUS
  <2>1. PICK w : w = Assign(m, k, 500)
    OBVIOUS
  <2>2. DOMAIN w = DOMAIN m \cup {b} /\ w[b] = 500 /\ \A x \in DOMAIN m : x # b => w[x] = m[x]
    BY <2>0, <2>1 DEF Assign
  <2>3. w[a] = 1000 /\ a \in DOMAIN w
    BY <1>1, <1>3, <2>2 DEF HalfOpen
  <2>4. OnlyKnown(w)
    BY <1>3, <2>2 DEF HalfOpen, OnlyKnown
  <2> QED
    BY <2>0, <2>1, <2>2, <2>3, <2>4 DEF Sound, Holds
<1> QED
  BY <1>2, <1>3

-------------------------------------------------------------------------------
(* What the programs issue, and the shape of the call after a command.        *)

(* The commands of the demo's programs, by program and step.                  *)
Does(s, x) ==
    \/ s.cond # "NORMAL" /\ x = ABEND(s.cond)
    \/ /\ s.cond = "NORMAL"
       /\ \/ s.program = "OPEN_ACCOUNTS" /\ s.at = 1 /\ x = Store("WRITE", "ACCOUNTS", ALICE, 1000)
          \/ s.program = "OPEN_ACCOUNTS" /\ s.at = 2 /\ x = Store("WRITE", "ACCOUNTS", BOB, 500)
          \/ s.program \in {"DEBIT", "STATEMENT"} /\ s.at = 1 /\ x = Read("ACCOUNTS", s.req.from)
          \/ s.program = "CREDIT" /\ s.at = 1 /\ x = Read("ACCOUNTS", s.req.to)
          \/ s.program = "STATEMENT" /\ s.at = 2 /\ x = Read("ACCOUNTS", s.req.to)
          \/ /\ s.program = "DEBIT" /\ s.at = 2 /\ s.seen[1] < s.req.amount
             /\ x = ABEND("InvalidRequest")
          \/ /\ s.program = "DEBIT" /\ s.at = 2 /\ ~(s.seen[1] < s.req.amount)
             /\ x = Store("REWRITE", "ACCOUNTS", s.req.from, s.seen[1] - s.req.amount)
          \/ /\ s.program = "CREDIT" /\ s.at = 2
             /\ x = Store("REWRITE", "ACCOUNTS", s.req.to, s.seen[1] + s.req.amount)
          \/ s.program = "AUDIT_LOG" /\ s.at = 1 /\ x = Store("WRITE", "AUDIT", <<s.id>>, s.req)
          \/ s.program = "TRANSFER" /\ s.at = 1 /\ x = Invoke("LINK", "DEBIT", s.req)
          \/ s.program = "TRANSFER" /\ s.at = 2 /\ x = Invoke("LINK", "CREDIT", s.req)
          \/ s.program = "TRANSFER" /\ s.at = 3 /\ x = Invoke("START", "AUDIT_LOG", s.req)
          \/ s.program = "TRANSFER" /\ s.at = 4 /\ x = Invoke("XCTL", "STATEMENT", s.req)
          \/ s.program = "LIST_AUDIT" /\ s.at = 1 /\ x.op = "BROWSE"
          \/ s.program \in {"OPEN_ACCOUNTS", "DEBIT", "CREDIT"} /\ s.at = 3 /\ x = RETURN(<<>>)
          \/ s.program \in {"AUDIT_LOG", "LIST_AUDIT"} /\ s.at = 2 /\ x = RETURN(<<>>)
          \/ s.program = "STATEMENT" /\ s.at = 3 /\ x = RETURN(s.seen)

(* BankIssue, read off program by program.                                    *)
LEMMA IssueDoes ==
    ASSUME BankRegion, NEW s, s.program \in BankPrograms, s.at \in Steps(s.program),
           s.cond = "NORMAL" /\ s.program = "DEBIT" /\ s.at = 2 =>
               s.seen[1] \in Int /\ s.req.amount \in Int,
           NEW x \in Issue(s)
    PROVE  Does(s, x)
<1>1. x \in BankIssue(s)
  BY DEF BankRegion
<1>2. CASE s.cond # "NORMAL"
  BY <1>1, <1>2 DEF BankIssue, Does
<1>3. CASE s.cond = "NORMAL" /\ s.program = "OPEN_ACCOUNTS"
  BY <1>1, <1>3 DEF BankIssue, Does, OPEN_ACCOUNTS, Steps
<1>4. CASE s.cond = "NORMAL" /\ s.program = "DEBIT"
  <2>1. x = DEBIT(s) /\ s.at \in {1, 2, 3}
    BY <1>1, <1>4 DEF BankIssue, Steps
  <2>2. CASE s.at = 2
    <3>1. s.seen[1] >= s.req.amount <=> ~(s.seen[1] < s.req.amount)
      BY <1>4, <2>2
    <3> QED
      BY <1>4, <2>1, <2>2, <3>1 DEF DEBIT, Does
  <2>3. CASE s.at # 2
    BY <1>4, <2>1, <2>3 DEF DEBIT, Does, get_balance
  <2> QED
    BY <2>2, <2>3
<1>5. CASE s.cond = "NORMAL" /\ s.program = "CREDIT"
  BY <1>1, <1>5 DEF BankIssue, Does, CREDIT, get_balance, Steps
<1>6. CASE s.cond = "NORMAL" /\ s.program = "AUDIT_LOG"
  BY <1>1, <1>6 DEF BankIssue, Does, AUDIT_LOG, Steps
<1>7. CASE s.cond = "NORMAL" /\ s.program = "STATEMENT"
  BY <1>1, <1>7 DEF BankIssue, Does, STATEMENT, get_balance, Steps
<1>8. CASE s.cond = "NORMAL" /\ s.program = "TRANSFER"
  BY <1>1, <1>8 DEF BankIssue, Does, TRANSFER, Steps
<1>9. CASE s.cond = "NORMAL" /\ s.program = "LIST_AUDIT"
  <2>1. x = LIST_AUDIT(s) /\ s.at \in {1, 2}
    BY <1>1, <1>9 DEF BankIssue, Steps
  <2>2. CASE s.at = 1
    <3>1. x.op = "BROWSE"
      BY <2>1, <2>2 DEF LIST_AUDIT
    <3> QED
      BY <1>9, <2>2, <3>1 DEF Does
  <2>3. CASE s.at = 2
    BY <1>9, <2>1, <2>3 DEF Does, LIST_AUDIT
  <2> QED
    BY <2>1, <2>2, <2>3
<1> QED
  BY <1>2, <1>3, <1>4, <1>5, <1>6, <1>7, <1>8, <1>9 DEF BankPrograms

(* The stacks of the demo: one program, or TRANSFER and the one it LINKs.     *)
LEMMA Stacks ==
    ASSUME NEW p, NEW s, NEW x
    PROVE  /\ Last(<<s>>) = s /\ Front(<<s>>) = <<>> /\ Append(<<>>, x) = <<x>>
           /\ Last(<<p, s>>) = s /\ Front(<<p, s>>) = <<p>> /\ Head(<<p, s>>) = p
           /\ Append(<<p>>, x) = <<p, x>> /\ <<s>> # <<>>
<1>1. Last(<<s>>) = s /\ Last(<<p, s>>) = s /\ Head(<<p, s>>) = p
  BY DEF Last
<1>2. Append(<<>>, x) = <<x>> /\ <<s>> # <<>>
  OBVIOUS
<1>3. Front(<<s>>) = <<>>
  BY DEF Front
<1>4. Append(<<p>>, x) = <<p, x>>
  <2>1. PICK a, b, c, S : a = <<p>> /\ b = <<p, x>> /\ S = {p, x} /\ c = Append(a, x)
    OBVIOUS
  <2>2. /\ a \in Seq(S) /\ x \in S /\ Len(a) = 1 /\ a[1] = p
        /\ b \in Seq(S) /\ Len(b) = 2 /\ b[1] = p /\ b[2] = x
    BY <2>1
  <2>3. c \in Seq(S) /\ Len(c) = 2 /\ c[1] = p /\ c[2] = x
    BY <2>1, <2>2, AppendProperties
  <2>4. \A i \in 1 .. Len(c) : c[i] = b[i]
    BY <2>2, <2>3
  <2>5. c = b
    BY <2>2, <2>3, <2>4, SeqEqual
  <2> QED
    BY <2>1, <2>5
<1>5. Front(<<p, s>>) = <<p>>
  <2>1. PICK a, b, c, S : a = <<p, s>> /\ b = <<p>> /\ S = {p} /\ c = SubSeq(a, 1, 1)
    OBVIOUS
  <2>2. Len(a) = 2 /\ a[1] = p /\ b \in Seq(S) /\ Len(b) = 1 /\ b[1] = p
    BY <2>1
  <2>3. \A i \in 1 .. 1 : a[i] \in S
    BY <2>1, <2>2
  <2>4. SubSeq(a, 1, 1) \in Seq(S) /\ Len(SubSeq(a, 1, 1)) = 1
        /\ SubSeq(a, 1, 1)[1] = a[1]
    BY <2>3, SubSeqProperties
  <2>5. c \in Seq(S) /\ Len(c) = 1 /\ c[1] = a[1]
    BY <2>1, <2>4
  <2>6. \A i \in 1 .. Len(c) : c[i] = b[i]
    BY <2>2, <2>5
  <2>7. c = b
    BY <2>2, <2>5, <2>6, SeqEqual
  <2>8. Front(a) = c
    BY <2>1, <2>2 DEF Front
  <2> QED
    BY <2>1, <2>7, <2>8
<1> QED
  BY <1>1, <1>2, <1>3, <1>4, <1>5

(* A stack of two programs, as TRANSFER and what it LINKs to.                 *)
LEMMA Pair ==
    ASSUME NEW p, NEW s, NEW f, f = <<p, s>>
    PROVE  /\ Last(f) = s /\ Head(f) = p /\ Front(f) = <<p>> /\ f # <<>>
           /\ Append(<<p>>, s) = f
<1>1. Last(<<p, s>>) = s /\ Front(<<p, s>>) = <<p>> /\ Head(<<p, s>>) = p
      /\ Append(<<p>>, s) = <<p, s>>
  BY Stacks, Zenon
<1>2. f # <<>>
  OBVIOUS
<1> QED
  BY <1>1, <1>2, Zenon

(* What a call keeps while its programs run.                                  *)
Same(d, c) ==
    /\ d.request = c.request /\ d.id = c.id /\ d.result = c.result
    /\ d.external = c.external /\ d.txn = c.txn

(* The answer to a command of the program on top.                             *)
LEMMA AnsweredCall ==
    ASSUME NEW c, IsCall(c), NEW resp, NEW d, d = Respond(c, resp)
    PROVE  /\ Same(d, c) /\ d.phase = "run" /\ d.queue = c.queue /\ d.outcome = c.outcome
           /\ d.stack = Append(Front(c.stack), Learn(Last(c.stack), resp))
BY DEF IsCall, Same, Respond

(* s is the running program of call c.                                        *)
Runs(c, s) ==
    /\ c.request \in Requests /\ ~c.external /\ c.txn
    /\ s.req = c.request.commarea /\ s.program \in BankPrograms
    /\ \/ c.stack = <<s>> /\ SingleOK(c, s) /\ s.id = c.id
       \/ \E p : c.stack = <<p, s>> /\ LinkedOK(c, p, s)

(* A running program of the demo, as the invariant describes it.              *)
LEMMA RunningProgram ==
    ASSUME BankRegion, NEW c, NEW m, BankCall(c, m), c.phase = "run",
           NEW s, s = Last(c.stack)
    PROVE  Runs(c, s) /\ ProgramOK(s, m)
<1>1. RunsOK(c, m) /\ c.request \in Requests /\ ~c.external /\ c.txn
  BY DEF BankCall
<1>2. /\ ProgramOK(s, m) /\ s.req = c.request.commarea
      /\ \/ c.stack = <<s>> /\ SingleOK(c, s) /\ s.id = c.id
         \/ \E p : c.stack = <<p, s>> /\ LinkedOK(c, p, s)
  BY <1>1 DEF RunsOK
<1>3. c.request.program \in BankPrograms
  BY <1>1 DEF BankRegion, DemoRequests, BankRequest, BankPrograms
<1>4. s.program \in BankPrograms
  BY <1>2, <1>3 DEF SingleOK, LinkedOK, BankPrograms
<1> QED
  BY <1>1, <1>2, <1>4 DEF Runs

(* Counting a command changes nothing of this.                                *)
LEMMA CountedRuns ==
    ASSUME NEW c, IsCall(c), NEW s, Runs(c, s), NEW e, e = [c EXCEPT !.commands = @ + 1]
    PROVE  IsCall(e) /\ Runs(e, s) /\ e.stack = c.stack /\ e.id = c.id
           /\ e.request = c.request /\ e.result = c.result /\ e.queue = c.queue
<1>1. IsCall(e)
  BY DEF IsCall
<1>2. Same(e, c) /\ e.queue = c.queue /\ e.stack = c.stack
  BY DEF IsCall, Same
<1>3. Runs(e, s)
  BY <1>2 DEF Runs, SingleOK, LinkedOK, Origin, Same
<1> QED
  BY <1>1, <1>2, <1>3 DEF Same

(* Calls in which a program runs, as the invariant describes them.            *)
LEMMA RunsSingle ==
    ASSUME NEW d, NEW w, NEW n, d.phase = "run", d.stack = <<n>>, ProgramOK(n, w),
           n.req = d.request.commarea, n.id = d.id, SingleOK(d, n),
           d.request \in Requests, ~d.external, d.txn
    PROVE  BankCall(d, w)
<1>1. Last(d.stack) = n
  BY Stacks
<1>2. RunsOK(d, w)
  BY <1>1 DEF RunsOK
<1> QED
  BY <1>2 DEF BankCall

(* A call in which TRANSFER waits for DEBIT or CREDIT is a call of the demo.  *)
LEMMA RunsLinked ==
    ASSUME NEW d, NEW w, NEW p, NEW n, d.phase = "run", d.stack = <<p, n>>,
           ProgramOK(n, w), n.req = d.request.commarea, LinkedOK(d, p, n),
           d.request \in Requests, ~d.external, d.txn
    PROVE  BankCall(d, w)
<1>1. Last(d.stack) = n /\ Head(d.stack) = p
  BY Pair, Zenon
<1>2. RunsOK(d, w)
  BY <1>1 DEF RunsOK
<1> QED
  BY <1>2 DEF BankCall

(* The program on top has its answer, the others of the call wait.            *)
LEMMA AnsweredRuns ==
    ASSUME NEW c, NEW s, NEW d, NEW w, NEW n, Runs(c, s), s.program # "TRANSFER",
           ProgramOK(n, w), n.program = s.program, n.req = s.req, n.id = s.id,
           Same(d, c), d.phase = "run", d.queue = c.queue, d.stack = Append(Front(c.stack), n)
    PROVE  BankCall(d, w)
<1>0. d.request \in Requests /\ ~d.external /\ d.txn /\ n.req = d.request.commarea
  BY DEF Same, Runs
<1>1. CASE c.stack = <<s>> /\ SingleOK(c, s) /\ s.id = c.id
  <2>1. Front(c.stack) = <<>>
    BY <1>1, Stacks
  <2>2. d.stack = <<n>>
    BY <2>1, Stacks
  <2>3. SingleOK(d, n) /\ n.id = d.id
    BY <1>1 DEF SingleOK, Same, Origin
  <2> QED
    BY <1>0, <2>2, <2>3, RunsSingle
<1>2. ASSUME NEW p, c.stack = <<p, s>>, LinkedOK(c, p, s)
      PROVE  BankCall(d, w)
  <2>1. Front(c.stack) = <<p>>
    BY <1>2, Pair, Zenon
  <2>2. d.stack = <<p, n>>
    <3>1. Append(<<p>>, n) = <<p, n>>
      BY Stacks, Zenon
    <3> QED
      BY <2>1, <3>1, Zenon
  <2>3. LinkedOK(d, p, n)
    BY <1>2 DEF LinkedOK, Same, Origin
  <2> QED
    BY <1>0, <2>2, <2>3, RunsLinked
<1> QED
  BY <1>1, <1>2 DEF Runs

(* How a program takes an error, and how it goes on.                          *)
LEMMA LearnError ==
    ASSUME BankRegion, NEW s, IsState(s), NEW resp, resp.cond # "NORMAL",
           NEW n, n = Learn(s, resp)
    PROVE  /\ IsState(n) /\ n.program = s.program /\ n.req = s.req /\ n.id = s.id
           /\ n.at = s.at /\ n.cond # "NORMAL"
<1>1. n = BankLearn(s, resp)
  BY DEF BankRegion
<1>2. n = [s EXCEPT !.cond = resp.cond]
  BY <1>1 DEF BankLearn
<1> QED
  BY <1>2 DEF IsState

(* A program that got a normal response is one step further and has its       *)
(* value.                                                                     *)
LEMMA LearnNormal ==
    ASSUME BankRegion, NEW s, IsState(s), NEW resp, resp.cond = "NORMAL",
           NEW n, n = Learn(s, resp)
    PROVE  /\ IsState(n) /\ n.program = s.program /\ n.req = s.req /\ n.id = s.id
           /\ n.at = s.at + 1 /\ n.cond = s.cond /\ n.seen = Append(s.seen, resp.value)
<1>1. n = BankLearn(s, resp)
  BY DEF BankRegion
<1>2. n = [s EXCEPT !.at = @ + 1, !.seen = Append(@, resp.value)]
  BY <1>1 DEF BankLearn
<1> QED
  BY <1>2 DEF IsState

(* The accounts and the amount of a request are the ones the demo may name.   *)
LEMMA RequestParts ==
    ASSUME BankRegion, NEW q \in Requests
    PROVE  /\ q.program \in {"OPEN_ACCOUNTS", "LIST_AUDIT", "STATEMENT", "TRANSFER"}
           /\ q.program \in {"STATEMENT", "TRANSFER"} =>
                  q.commarea.from \in Named /\ q.commarea.to \in Named
           /\ q.program = "TRANSFER" => q.commarea.amount \in Nat
<1>1. BankRequest(q)
  BY DEF BankRegion, DemoRequests
<1>2. q.program \in {"STATEMENT", "TRANSFER"} =>
          q.commarea.from \in Named /\ q.commarea.to \in Named
  BY DEF Named
<1> QED
  BY <1>1, <1>2 DEF BankRequest

(* The balance of an account that a request names is a number.                *)
LEMMA BalanceNat ==
    ASSUME NEW m, NEW acct \in Named, NEW v, Shows(m, acct, v),
           Sound(m) \/ \E amount : Owes(m, amount)
    PROVE  v \in Nat
<1>1. OnlyKnown(m)
  BY DEF Sound, Owes
<1>2. Account(acct) \in DOMAIN m /\ Account(acct) \in {Account(ALICE), Account(BOB)}
      /\ v = m[Account(acct)]
  BY <1>1 DEF OnlyKnown, Shows
<1>3. \E total : Holds(m, total)
  BY <1>2 DEF Sound, Owes
<1> QED
  BY <1>2, <1>3 DEF Holds

(* What a running program of the demo works on.                               *)
LEMMA ProgramRequest ==
    ASSUME BankRegion, NEW c, NEW s, Runs(c, s)
    PROVE  /\ s.program \in {"DEBIT", "CREDIT"} =>
                  Origin(c) /\ \E p : c.stack = <<p, s>> /\ LinkedOK(c, p, s)
           /\ s.program \notin {"DEBIT", "CREDIT"} =>
                  c.stack = <<s>> /\ SingleOK(c, s) /\ s.id = c.id
           /\ s.program \in {"DEBIT", "CREDIT", "TRANSFER", "AUDIT_LOG"} =>
                  c.request.program = "TRANSFER" /\ s.req.amount \in Nat
           /\ s.program \in {"DEBIT", "CREDIT", "TRANSFER", "STATEMENT"} =>
                  s.req.from \in Named /\ s.req.to \in Named
<1>1. /\ c.request.program \in {"OPEN_ACCOUNTS", "LIST_AUDIT", "STATEMENT", "TRANSFER"}
      /\ c.request.program \in {"STATEMENT", "TRANSFER"} =>
             s.req.from \in Named /\ s.req.to \in Named
      /\ c.request.program = "TRANSFER" => s.req.amount \in Nat
  BY RequestParts DEF Runs
<1>2. CASE c.stack = <<s>> /\ SingleOK(c, s) /\ s.id = c.id
  <2>1. s.program \notin {"DEBIT", "CREDIT"}
    BY <1>1, <1>2 DEF SingleOK
  <2>2. s.program \in {"TRANSFER", "AUDIT_LOG"} => c.request.program = "TRANSFER"
    BY <1>1, <1>2 DEF SingleOK
  <2>3. s.program \in {"TRANSFER", "STATEMENT"} => c.request.program \in {"STATEMENT", "TRANSFER"}
    BY <1>1, <1>2 DEF SingleOK
  <2> QED
    BY <1>1, <1>2, <2>1, <2>2, <2>3
<1>3. CASE \E p : c.stack = <<p, s>> /\ LinkedOK(c, p, s)
  <2>1. s.program \in {"DEBIT", "CREDIT"} /\ c.request.program = "TRANSFER" /\ Origin(c)
    BY <1>3 DEF LinkedOK
  <2> QED
    BY <1>1, <1>3, <2>1
<1> QED
  BY <1>2, <1>3 DEF Runs

(* The commands a call of the demo can issue.                                 *)
LEMMA CommandDoes ==
    ASSUME BankRegion, NEW c, NEW m, NEW s, Runs(c, s), ProgramOK(s, m), NEW x \in Issue(s)
    PROVE  Does(s, x)
<1>1. ASSUME s.cond = "NORMAL", s.program = "DEBIT", s.at = 2
      PROVE  s.seen[1] \in Int /\ s.req.amount \in Int
  <2>1. s.req.amount \in Nat /\ s.req.from \in Named
    BY <1>1, ProgramRequest
  <2>2. StateOK(s, m)
    BY <1>1 DEF ProgramOK
  <2>3. Sound(m) /\ Shows(m, s.req.from, s.seen[1])
    BY <1>1, <2>2 DEF StateOK
  <2>4. s.seen[1] \in Nat
    BY <2>1, <2>3, BalanceNat
  <2> QED
    BY <2>1, <2>4
<1>2. s.at \in Steps(s.program) /\ s.program \in BankPrograms
  BY DEF ProgramOK, Runs
<1> QED
  BY <1>1, <1>2, IssueDoes

-------------------------------------------------------------------------------
(* One command, on the record of the call and on the records of its           *)
(* transaction.                                                               *)

(* A program that learns of an error ABENDs, whatever has become of its       *)
(* records.                                                                   *)
LEMMA FailedProgram ==
    ASSUME BankRegion, NEW s, NEW m, NEW w, ProgramOK(s, m),
           NEW resp, resp.cond # "NORMAL", NEW n, n = Learn(s, resp)
    PROVE  ProgramOK(n, w) /\ n.program = s.program /\ n.req = s.req /\ n.id = s.id
<1>0. IsState(s)
  BY DEF ProgramOK
<1>1. /\ IsState(n) /\ n.program = s.program /\ n.req = s.req /\ n.id = s.id
      /\ n.at = s.at /\ n.cond # "NORMAL"
  BY <1>0, LearnError
<1> QED
  BY <1>1 DEF ProgramOK

(* READ: the balance that is seen is the one on record.                       *)
LEMMA ReadProgram ==
    ASSUME BankRegion, NEW s, NEW m, ProgramOK(s, m), NEW x, Does(s, x), x.op = "READ",
           NEW resp, resp = exec_read(m, fct, x.file, x.key), NEW n, n = Learn(s, resp)
    PROVE  /\ ProgramOK(n, m) /\ n.program = s.program /\ n.req = s.req /\ n.id = s.id
           /\ s.program \in {"DEBIT", "CREDIT", "STATEMENT"}
<1>0. /\ s.cond = "NORMAL" /\ x.file = "ACCOUNTS"
      /\ \/ s.program \in {"DEBIT", "STATEMENT"} /\ s.at = 1 /\ x.key = s.req.from
         \/ s.program = "CREDIT" /\ s.at = 1 /\ x.key = s.req.to
         \/ s.program = "STATEMENT" /\ s.at = 2 /\ x.key = s.req.to
  BY DEF Does, ABEND, Store, Read, Invoke, RETURN
<1>1. CASE resp.cond # "NORMAL"
  BY <1>0, <1>1, FailedProgram
<1>2. CASE resp.cond = "NORMAL"
  <2>1. Shows(m, x.key, resp.value)
    BY <1>0, <1>2 DEF exec_read, Normal, Condition, Shows, Account
  <2>0. IsState(s)
    BY DEF ProgramOK
  <2>2. /\ IsState(n) /\ n.program = s.program /\ n.req = s.req /\ n.id = s.id
        /\ n.at = s.at + 1 /\ n.cond = s.cond /\ n.seen = Append(s.seen, resp.value)
    BY <1>2, <2>0, LearnNormal
  <2>3. StateOK(s, m)
    BY <1>0 DEF ProgramOK
  <2>4. CASE s.at = 1
    <3>1. s.seen = <<>>
      BY <1>0, <2>3, <2>4 DEF StateOK
    <3>2. n.seen = <<resp.value>> /\ n.seen[1] = resp.value
      BY <2>2, <3>1
    <3>3. StateOK(n, m)
      BY <1>0, <2>1, <2>2, <2>3, <2>4, <3>2 DEF StateOK
    <3>4. n.at \in Steps(n.program)
      BY <1>0, <2>2, <2>4 DEF Steps
    <3> QED
      BY <1>0, <2>2, <3>3, <3>4 DEF ProgramOK
  <2>5. CASE s.at = 2
    <3>1. s.program = "STATEMENT" /\ x.key = s.req.to
      BY <1>0, <2>5
    <3>2. s.seen = <<s.seen[1]>> /\ Shows(m, s.req.from, s.seen[1]) /\ Sound(m)
      BY <2>3, <2>5, <3>1 DEF StateOK
    <3>3. PICK a, b, f : a = s.seen[1] /\ b = resp.value /\ f = <<a, b>>
      OBVIOUS
    <3>4. n.seen = f
      <4>1. s.seen = <<a>> /\ n.seen = Append(s.seen, b)
        BY <2>2, <3>2, <3>3
      <4>2. Append(<<a>>, b) = f
        BY <3>3, Pair, Zenon
      <4> QED
        BY <4>1, <4>2, Zenon
    <3>5. n.seen[1] = a /\ n.seen[2] = b /\ n.seen = <<n.seen[1], n.seen[2]>>
      BY <3>3, <3>4
    <3>6. StateOK(n, m)
      BY <2>1, <2>2, <2>5, <3>1, <3>2, <3>3, <3>5 DEF StateOK
    <3>7. n.at \in Steps(n.program)
      BY <2>2, <2>5, <3>1 DEF Steps
    <3> QED
      BY <1>0, <2>2, <3>1, <3>6, <3>7 DEF ProgramOK
  <2> QED
    BY <1>0, <2>4, <2>5
<1> QED
  BY <1>1, <1>2

(* BROWSE, by LIST_AUDIT.                                                     *)
LEMMA BrowseProgram ==
    ASSUME BankRegion, NEW s, NEW m, ProgramOK(s, m), NEW x, Does(s, x), x.op = "BROWSE",
           NEW resp, NEW n, n = Learn(s, resp)
    PROVE  /\ ProgramOK(n, m) /\ n.program = s.program /\ n.req = s.req /\ n.id = s.id
           /\ s.program # "TRANSFER"
<1>0. s.cond = "NORMAL" /\ s.program = "LIST_AUDIT" /\ s.at = 1
  BY DEF Does, ABEND, Store, Read, Invoke, RETURN
<1>1. CASE resp.cond # "NORMAL"
  BY <1>0, <1>1, FailedProgram
<1>2. CASE resp.cond = "NORMAL"
  <2>0. IsState(s)
    BY DEF ProgramOK
  <2>2. /\ IsState(n) /\ n.program = s.program /\ n.req = s.req /\ n.id = s.id
        /\ n.at = s.at + 1 /\ n.cond = s.cond
    BY <1>2, <2>0, LearnNormal
  <2>3. Sound(m)
    BY <1>0 DEF ProgramOK, StateOK
  <2> QED
    BY <1>0, <2>2, <2>3 DEF ProgramOK, StateOK, Steps
<1> QED
  BY <1>1, <1>2

(* What a WRITE or a REWRITE does to the records, if it succeeds.             *)
LEMMA StoredRecord ==
    ASSUME NEW x, x.op \in {"WRITE", "REWRITE"}, x.file \in DOMAIN fct.files,
           NEW r, r = Executed(x)
    PROVE  \/ r.resp.cond # "NORMAL" /\ r.w = working
           \/ /\ r.resp.cond = "NORMAL"
              /\ r.w = Assign(working, storage_key(fct.files[x.file], x.key), x.data)
              /\ x.op = "WRITE" => storage_key(fct.files[x.file], x.key) \notin DOMAIN working
<1>1. PICK k : k = storage_key(fct.files[x.file], x.key)
  OBVIOUS
<1>2. CASE x.op = "WRITE"
  <2>1. r = IF k \in DOMAIN working THEN Failed(working, "DuplicateKey")
            ELSE Stored(working, k, x.data)
    BY <1>1, <1>2 DEF Executed, exec_write, resolves
  <2> QED
    BY <1>1, <1>2, <2>1 DEF Failed, Stored, Normal, Condition
<1>3. CASE x.op = "REWRITE"
  <2>1. r = IF k \in DOMAIN working THEN Stored(working, k, x.data)
            ELSE Failed(working, "RecordNotFound")
    BY <1>1, <1>3 DEF Executed, exec_rewrite, resolves
  <2> QED
    BY <1>1, <1>3, <2>1 DEF Failed, Stored, Normal, Condition
<1> QED
  BY <1>2, <1>3

(* The writing steps of the demo's programs.                                  *)
LEMMA WritingSteps ==
    ASSUME NEW s, NEW x, Does(s, x), x.op \in {"WRITE", "REWRITE", "DELETE"}
    PROVE  /\ s.cond = "NORMAL" /\ x.op \in {"WRITE", "REWRITE"}
           /\ \/ /\ s.program = "OPEN_ACCOUNTS" /\ s.at = 1 /\ x.op = "WRITE"
                 /\ x.file = "ACCOUNTS" /\ x.key = ALICE /\ x.data = 1000
              \/ /\ s.program = "OPEN_ACCOUNTS" /\ s.at = 2
                 /\ x.file = "ACCOUNTS" /\ x.key = BOB /\ x.data = 500
              \/ /\ s.program = "DEBIT" /\ s.at = 2 /\ ~(s.seen[1] < s.req.amount)
                 /\ x.file = "ACCOUNTS" /\ x.key = s.req.from
                 /\ x.data = s.seen[1] - s.req.amount
              \/ /\ s.program = "CREDIT" /\ s.at = 2
                 /\ x.file = "ACCOUNTS" /\ x.key = s.req.to
                 /\ x.data = s.seen[1] + s.req.amount
              \/ /\ s.program = "AUDIT_LOG" /\ s.at = 1 /\ x.op = "WRITE"
                 /\ x.file = "AUDIT" /\ x.key = <<s.id>> /\ x.data = s.req
BY DEF Does, ABEND, Store, Read, Invoke, RETURN

(* WRITE and REWRITE: each changing step takes the ledger from what one step  *)
(* of the program finds to what the next one does.                            *)
LEMMA ChangeProgram ==
    ASSUME BankRegion, NEW s, ProgramOK(s, working), NEW x, Does(s, x),
           x.op \in {"WRITE", "REWRITE", "DELETE"},
           s.program \in {"DEBIT", "CREDIT"} =>
               (s.req.from \in Named /\ s.req.to \in Named /\ s.req.amount \in Nat),
           NEW r, r = Executed(x), NEW n, n = Learn(s, r.resp)
    PROVE  /\ ProgramOK(n, r.w) /\ n.program = s.program /\ n.req = s.req /\ n.id = s.id
           /\ s.program # "TRANSFER"
<1> DEFINE m == working
           w == r.w
<1>1. s.cond = "NORMAL" /\ x.op \in {"WRITE", "REWRITE"} /\ s.program # "TRANSFER"
      /\ x.file \in {"ACCOUNTS", "AUDIT"}
  BY WritingSteps
<1>2. x.file \in DOMAIN fct.files
  BY <1>1, DemoFiles DEF FilesApart
<1>3. IsState(s) /\ StateOK(s, m)
  BY <1>1 DEF ProgramOK
<1>4. CASE r.resp.cond # "NORMAL"
  <2>1. PICK e : e = r.resp
    OBVIOUS
  <2> QED
    BY <1>1, <1>4, <2>1, FailedProgram
<1>5. CASE r.resp.cond = "NORMAL"
  <2>1. /\ w = Assign(m, storage_key(fct.files[x.file], x.key), x.data)
        /\ x.op = "WRITE" => storage_key(fct.files[x.file], x.key) \notin DOMAIN m
    BY <1>1, <1>2, <1>5, StoredRecord
  <2>2. /\ IsState(n) /\ n.program = s.program /\ n.req = s.req /\ n.id = s.id
        /\ n.at = s.at + 1 /\ n.cond = s.cond
    <3>1. PICK e : e = r.resp
      OBVIOUS
    <3> QED
      BY <1>3, <1>5, <3>1, LearnNormal
  <2> HIDE DEF m, w
  <2>3. CASE s.program = "OPEN_ACCOUNTS" /\ s.at = 1
    <3>1. x.op = "WRITE" /\ x.file = "ACCOUNTS" /\ x.key = ALICE /\ x.data = 1000
      BY <2>3, WritingSteps
    <3>2. Sound(m) /\ Account(ALICE) \notin DOMAIN m /\ w = Assign(m, Account(ALICE), 1000)
      BY <1>3, <2>1, <2>3, <3>1 DEF Account, StateOK
    <3>3. HalfOpen(w)
      BY <3>2, OpeningSound
    <3>4. StateOK(n, w) /\ n.at \in Steps(n.program)
      BY <2>2, <2>3, <3>3 DEF StateOK, Steps
    <3> QED
      BY <1>1, <2>2, <3>4 DEF ProgramOK, w
  <2>4. CASE s.program = "OPEN_ACCOUNTS" /\ s.at = 2
    <3>1. x.file = "ACCOUNTS" /\ x.key = BOB /\ x.data = 500
      BY <2>4, WritingSteps
    <3>2. HalfOpen(m) /\ w = Assign(m, Account(BOB), 500)
      BY <1>3, <2>1, <2>4, <3>1 DEF Account, StateOK
    <3>3. Sound(w)
      BY <3>2, OpeningSound
    <3>4. StateOK(n, w) /\ n.at \in Steps(n.program)
      BY <2>2, <2>4, <3>3 DEF StateOK, Steps
    <3> QED
      BY <1>1, <2>2, <3>4 DEF ProgramOK, w
  <2>5. CASE s.program = "DEBIT" /\ s.at = 2
    <3>1. /\ x.file = "ACCOUNTS" /\ x.key = s.req.from /\ ~(s.seen[1] < s.req.amount)
          /\ x.data = s.seen[1] - s.req.amount
      BY <2>5, WritingSteps
    <3>2. PICK acct, v, amount : acct = s.req.from /\ v = s.seen[1] /\ amount = s.req.amount
      OBVIOUS
    <3>3. /\ Sound(m) /\ Shows(m, acct, v) /\ w = Assign(m, Account(acct), v - amount)
          /\ acct \in Named /\ amount \in Nat /\ ~(v < amount)
      BY <1>3, <2>1, <2>5, <3>1, <3>2 DEF Account, StateOK
    <3>4. Owes(w, amount)
      BY <3>3, DebitOwes
    <3>5. StateOK(n, w) /\ n.at \in Steps(n.program)
      BY <2>2, <2>5, <3>2, <3>4 DEF StateOK, Steps
    <3> QED
      BY <1>1, <2>2, <3>5 DEF ProgramOK, w
  <2>6. CASE s.program = "CREDIT" /\ s.at = 2
    <3>1. /\ x.file = "ACCOUNTS" /\ x.key = s.req.to
          /\ x.data = s.seen[1] + s.req.amount
      BY <2>6, WritingSteps
    <3>2. PICK acct, v, amount : acct = s.req.to /\ v = s.seen[1] /\ amount = s.req.amount
      OBVIOUS
    <3>3. /\ Owes(m, amount) /\ Shows(m, acct, v) /\ w = Assign(m, Account(acct), v + amount)
          /\ acct \in Named /\ amount \in Nat
      BY <1>3, <2>1, <2>6, <3>1, <3>2 DEF Account, StateOK
    <3>4. Sound(w)
      BY <3>3, CreditSound
    <3>5. StateOK(n, w) /\ n.at \in Steps(n.program)
      BY <2>2, <2>6, <3>2, <3>4 DEF StateOK, Steps
    <3> QED
      BY <1>1, <2>2, <3>5 DEF ProgramOK, w
  <2>7. CASE s.program = "AUDIT_LOG" /\ s.at = 1
    <3>1. x.file = "AUDIT" /\ x.key = <<s.id>>
      BY <2>7, WritingSteps
    <3>2. PICK i, v : i = s.id /\ v = x.data
      OBVIOUS
    <3>3. Sound(m) /\ w = Assign(m, Audit(i), v)
      BY <1>3, <2>1, <2>7, <3>1, <3>2 DEF Audit, StateOK
    <3>4. Sound(w)
      BY <3>3, AuditKeepsSound
    <3>5. StateOK(n, w) /\ n.at \in Steps(n.program)
      BY <2>2, <2>7, <3>4 DEF StateOK, Steps
    <3> QED
      BY <1>1, <2>2, <3>5 DEF ProgramOK, w
  <2> QED
    BY <2>3, <2>4, <2>5, <2>6, <2>7, WritingSteps
<1> QED
  BY <1>4, <1>5

(* READ, BROWSE, WRITE and REWRITE: the program that issued it goes on.       *)
LEMMA AnswerKeeps ==
    ASSUME BankRegion, NEW c, IsCall(c), NEW s, Runs(c, s), s = Last(c.stack), NEW w,
           NEW resp, NEW d, d = Respond(c, resp), NEW n, n = Learn(s, resp),
           ProgramOK(n, w), n.program = s.program, n.req = s.req, n.id = s.id,
           s.program # "TRANSFER"
    PROVE  BankCall(d, w)
<1>1. /\ Same(d, c) /\ d.phase = "run" /\ d.queue = c.queue
      /\ d.stack = Append(Front(c.stack), Learn(Last(c.stack), resp))
  BY AnsweredCall
<1>2. d.stack = Append(Front(c.stack), n)
  BY <1>1
<1> QED
  BY <1>1, <1>2, AnsweredRuns

(* The program that TRANSFER LINKs or XCTLs to, or that a task begins with.   *)
LEMMA EnteredProgram ==
    ASSUME BankRegion, NEW program, NEW req, NEW c, NEW eib, eib = Eib(c),
           NEW n, n = Enter(program, req, eib)
    PROVE  /\ IsState(n) /\ n.program = program /\ n.req = req /\ n.id = c.id
           /\ n.at = 1 /\ n.seen = <<>> /\ n.cond = "NORMAL" /\ n.at \in Steps(program)
<1>1. n = BankEnter(program, req, eib)
  BY DEF BankRegion
<1>2. n = [program |-> program, at |-> 1, req |-> req, seen |-> <<>>,
           id |-> c.id, cond |-> "NORMAL"]
  BY <1>1 DEF BankEnter, Eib
<1> QED
  BY <1>2 DEF IsState, Steps

(* A program of the demo is found.                                            *)
LEMMA RunEntered ==
    ASSUME BankRegion, NEW c, IsCall(c), NEW program \in BankPrograms, NEW req,
           NEW eib, eib = Eib(c), NEW n, n = Enter(program, req, eib), NEW d, d = Run(c, program, req)
    PROVE  /\ Same(d, c) /\ d.phase = "run" /\ d.queue = c.queue
           /\ d.stack = Append(c.stack, n)
<1>1. d = [c EXCEPT !.phase = "run", !.stack = Append(@, n)]
  BY DEF Run, resolve, BankRegion
<1> QED
  BY <1>1 DEF IsCall, Same

(* Where TRANSFER stands.                                                     *)
LEMMA TransferRuns ==
    ASSUME BankRegion, NEW c, NEW s, Runs(c, s), s.program = "TRANSFER"
    PROVE  /\ c.stack = <<s>> /\ s.id = c.id /\ Origin(c) /\ c.request.program = "TRANSFER"
           /\ s.at # 4 => c.queue = <<>>
           /\ s.at = 4 => c.queue = <<AuditOf(c.request)>>
<1>1. c.stack = <<s>> /\ SingleOK(c, s) /\ s.id = c.id
  BY ProgramRequest
<1> QED
  BY <1>1 DEF SingleOK

(* LINK: DEBIT finds a sound ledger, CREDIT one that owes the amount.         *)
LEMMA LinkKeeps ==
    ASSUME BankRegion, NEW c, IsCall(c), NEW m, NEW s, Runs(c, s), s = Last(c.stack),
           ProgramOK(s, m), NEW x, Does(s, x), x.op = "LINK",
           NEW d, d = link(c, x.program, x.commarea)
    PROVE  BankCall(d, m)
<1>1. /\ s.cond = "NORMAL" /\ s.program = "TRANSFER" /\ x.commarea = s.req
      /\ \/ s.at = 1 /\ x.program = "DEBIT"
         \/ s.at = 2 /\ x.program = "CREDIT"
  BY DEF Does, ABEND, Store, Read, Invoke, RETURN
<1>2. /\ c.stack = <<s>> /\ s.id = c.id /\ Origin(c) /\ c.request.program = "TRANSFER"
      /\ c.queue = <<>>
  BY <1>1, TransferRuns
<1>3. StateOK(s, m) /\ IsState(s)
  BY <1>1 DEF ProgramOK
<1>5. c.request \in Requests /\ ~c.external /\ c.txn /\ s.req = c.request.commarea
  BY DEF Runs
<1>6. CASE link_level(c) + 1 > MAX_LINK_DEPTH
  <2>1. PICK resp, n : resp = Condition("LinkStackOverflow") /\ n = Learn(s, resp)
    OBVIOUS
  <2>2. d = Respond(c, resp) /\ resp.cond # "NORMAL"
    BY <1>6, <2>1 DEF link, Condition
  <2>3. IsState(n) /\ n.program = s.program /\ n.req = s.req /\ n.id = s.id
        /\ n.at = s.at /\ n.cond # "NORMAL"
    BY <1>3, <2>1, <2>2, LearnError
  <2>4. ProgramOK(n, m)
    BY <1>1, <2>3 DEF ProgramOK, Steps
  <2>5. /\ Same(d, c) /\ d.phase = "run" /\ d.queue = c.queue
        /\ d.stack = Append(Front(c.stack), Learn(Last(c.stack), resp))
    BY <2>2, AnsweredCall
  <2>6. d.stack = <<n>>
    <3>1. Front(c.stack) = <<>>
      BY <1>2, Stacks
    <3> QED
      BY <2>1, <2>5, <3>1, Stacks
  <2>7. SingleOK(d, n) /\ n.id = d.id /\ n.req = d.request.commarea
    BY <1>1, <1>2, <1>5, <2>3, <2>5 DEF SingleOK, Same, Origin
  <2>8. d.request \in Requests /\ ~d.external /\ d.txn
    BY <1>5, <2>5 DEF Same
  <2> QED
    BY <2>4, <2>5, <2>6, <2>7, <2>8, RunsSingle
<1>7. CASE ~(link_level(c) + 1 > MAX_LINK_DEPTH)
  <2>1. PICK n, program, req, eib : /\ program = x.program /\ req = x.commarea
                                    /\ eib = Eib(c) /\ n = Enter(program, req, eib)
    OBVIOUS
  <2>2. d = Run(c, program, req) /\ program \in BankPrograms
    BY <1>1, <1>7, <2>1 DEF link, BankPrograms
  <2>3. /\ Same(d, c) /\ d.phase = "run" /\ d.queue = c.queue
        /\ d.stack = Append(c.stack, n)
    BY <2>1, <2>2, RunEntered
  <2>4. /\ IsState(n) /\ n.program = program /\ n.req = req
        /\ n.at = 1 /\ n.seen = <<>> /\ n.cond = "NORMAL" /\ n.at \in Steps(program)
    BY <2>1, EnteredProgram
  <2>5. ProgramOK(n, m)
    BY <1>1, <1>3, <2>1, <2>4 DEF ProgramOK, StateOK
  <2>7. d.stack = <<s, n>>
    <3>1. Append(<<s>>, n) = <<s, n>>
      BY Stacks, Zenon
    <3> QED
      BY <1>2, <2>3, <3>1, Zenon
  <2>8. LinkedOK(d, s, n)
    BY <1>1, <1>2, <1>3, <1>5, <2>1, <2>4, <2>3 DEF LinkedOK, Same, Origin
  <2>9. d.request \in Requests /\ ~d.external /\ d.txn
    BY <1>5, <2>3 DEF Same
  <2>10. n.req = d.request.commarea
    BY <1>1, <1>5, <2>1, <2>3, <2>4 DEF Same
  <2> QED
    BY <2>3, <2>5, <2>7, <2>8, <2>9, <2>10, RunsLinked
<1> QED
  BY <1>6, <1>7

(* XCTL: STATEMENT takes TRANSFER's place, with the audit record queued.      *)
LEMMA XctlKeeps ==
    ASSUME BankRegion, NEW c, IsCall(c), NEW m, NEW s, Runs(c, s),
           ProgramOK(s, m), NEW x, Does(s, x), x.op = "XCTL",
           NEW d, d = xctl(c, x.program, x.commarea)
    PROVE  BankCall(d, m)
<1>1. /\ s.cond = "NORMAL" /\ s.program = "TRANSFER" /\ x.commarea = s.req
      /\ s.at = 4 /\ x.program = "STATEMENT"
  BY DEF Does, ABEND, Store, Read, Invoke, RETURN
<1>2. /\ c.stack = <<s>> /\ s.id = c.id /\ Origin(c) /\ c.request.program = "TRANSFER"
      /\ c.queue = <<AuditOf(c.request)>>
  BY <1>1, TransferRuns
<1>3. Sound(m)
  BY <1>1 DEF ProgramOK, StateOK
<1>4. c.request \in Requests /\ ~c.external /\ c.txn /\ s.req = c.request.commarea
  BY DEF Runs
<1>5. PICK e, n, program, req, eib :
          /\ program = x.program /\ req = x.commarea /\ e = [c EXCEPT !.stack = Front(@)]
          /\ eib = Eib(e) /\ n = Enter(program, req, eib)
  OBVIOUS
<1>6. IsCall(e) /\ Same(e, c) /\ e.queue = c.queue /\ e.stack = Front(c.stack)
  BY <1>5 DEF IsCall, Same
<1>7. d = Run(e, program, req) /\ program \in BankPrograms
  BY <1>1, <1>5 DEF xctl, BankPrograms
<1>8. /\ Same(d, e) /\ d.phase = "run" /\ d.queue = e.queue /\ d.stack = Append(e.stack, n)
  <2>1. IsCall(e) /\ eib = Eib(e) /\ n = Enter(program, req, eib)
    BY <1>5, <1>6
  <2> QED
    BY <1>7, <2>1, RunEntered
<1>9. /\ IsState(n) /\ n.program = program /\ n.req = req /\ n.id = e.id
      /\ n.at = 1 /\ n.seen = <<>> /\ n.cond = "NORMAL" /\ n.at \in Steps(program)
  <2>1. eib = Eib(e) /\ n = Enter(program, req, eib)
    BY <1>5
  <2> QED
    BY <2>1, EnteredProgram
<1>10. ProgramOK(n, m)
  BY <1>1, <1>3, <1>5, <1>9 DEF ProgramOK, StateOK
<1>11. d.stack = <<n>>
  <2>1. Front(c.stack) = <<>>
    BY <1>2, Stacks
  <2>2. d.stack = Append(<<>>, n)
    BY <1>6, <1>8, <2>1
  <2> QED
    BY <2>2
<1>12. Same(d, c) /\ d.queue = c.queue
  BY <1>6, <1>8 DEF Same
<1>13. SingleOK(d, n) /\ n.id = d.id
  BY <1>1, <1>2, <1>5, <1>6, <1>9, <1>12 DEF SingleOK, Same, Origin
<1>14. d.request \in Requests /\ ~d.external /\ d.txn
  BY <1>4, <1>12 DEF Same
<1>15. n.req = d.request.commarea
  BY <1>1, <1>4, <1>5, <1>9, <1>12 DEF Same
<1> QED
  BY <1>8, <1>10, <1>11, <1>13, <1>14, <1>15, RunsSingle

(* START: the audit record is queued.                                         *)
LEMMA StartKeeps ==
    ASSUME BankRegion, NEW c, IsCall(c), NEW m, NEW s, Runs(c, s), s = Last(c.stack),
           ProgramOK(s, m), NEW x, Does(s, x), x.op = "START",
           NEW d, d = start(c, x.program, x.commarea)
    PROVE  BankCall(d, m)
<1>1. /\ s.cond = "NORMAL" /\ s.program = "TRANSFER" /\ x.commarea = s.req
      /\ s.at = 3 /\ x.program = "AUDIT_LOG"
  BY DEF Does, ABEND, Store, Read, Invoke, RETURN
<1>2. /\ c.stack = <<s>> /\ s.id = c.id /\ Origin(c) /\ c.request.program = "TRANSFER"
      /\ c.queue = <<>>
  BY <1>1, TransferRuns
<1>3. Sound(m) /\ IsState(s)
  BY <1>1 DEF ProgramOK, StateOK
<1>4. c.request \in Requests /\ ~c.external /\ c.txn /\ s.req = c.request.commarea
  BY DEF Runs
<1>5. PICK q : q = AuditOf(c.request)
  OBVIOUS
<1>6. PICK e, n, resp :
          /\ e = [c EXCEPT !.queue = Append(@, q), !.started = @ + 1]
          /\ resp = Normal(<<>>) /\ n = Learn(s, resp)
  OBVIOUS
<1>7. IsCall(e) /\ Same(e, c) /\ e.queue = Append(c.queue, q) /\ e.stack = c.stack
  BY <1>6 DEF IsCall, Same
<1>8. d = Respond(e, resp) /\ resp.cond = "NORMAL"
  <2>1. q = [program |-> x.program, commarea |-> x.commarea]
    BY <1>1, <1>4, <1>5 DEF AuditOf
  <2>2. d = Respond(e, resp)
    BY <1>6, <2>1, Zenon DEF start
  <2> QED
    BY <1>6, <2>2 DEF Normal
<1>9. /\ Same(d, e) /\ d.phase = "run" /\ d.queue = e.queue
      /\ d.stack = Append(Front(e.stack), Learn(Last(e.stack), resp))
  BY <1>7, <1>8, AnsweredCall
<1>10. /\ IsState(n) /\ n.program = s.program /\ n.req = s.req /\ n.id = s.id
       /\ n.at = s.at + 1 /\ n.cond = s.cond
  BY <1>3, <1>6, <1>8, LearnNormal
<1>11. ProgramOK(n, m)
  BY <1>1, <1>3, <1>10 DEF ProgramOK, StateOK, Steps
<1>12. d.stack = <<n>>
  <2>1. Front(c.stack) = <<>>
    BY <1>2, Stacks
  <2>2. d.stack = Append(<<>>, n)
    BY <1>6, <1>7, <1>9, <2>1
  <2> QED
    BY <2>2
<1>13. Same(d, c) /\ d.queue = <<q>>
  <2>1. e.queue = <<q>>
    BY <1>2, <1>7
  <2> QED
    BY <1>7, <1>9, <2>1 DEF Same
<1>14. SingleOK(d, n) /\ n.id = d.id
  BY <1>1, <1>2, <1>5, <1>10, <1>13 DEF SingleOK, Same, Origin
<1>15. d.request \in Requests /\ ~d.external /\ d.txn
  BY <1>4, <1>13 DEF Same
<1>16. n.req = d.request.commarea
  BY <1>4, <1>10, <1>13 DEF Same
<1> QED
  BY <1>9, <1>11, <1>12, <1>14, <1>15, <1>16, RunsSingle

(* What a program of the demo returns, and where.                             *)
LEMMA LeavingSteps ==
    ASSUME NEW s, NEW m, ProgramOK(s, m), NEW x, Does(s, x), x.op \in {"RETURN", "ABEND"},
           NEW resp, resp = IF x.op = "RETURN" THEN Normal(x.commarea) ELSE Condition(x.cond)
    PROVE  \/ resp.cond # "NORMAL"
           \/ /\ resp.cond = "NORMAL" /\ s.cond = "NORMAL" /\ StateOK(s, m)
              /\ s.program # "TRANSFER"
              /\ s.program \in {"OPEN_ACCOUNTS", "DEBIT", "CREDIT", "STATEMENT"} => s.at = 3
              /\ s.program \in {"AUDIT_LOG", "LIST_AUDIT"} => s.at = 2
              /\ s.program = "STATEMENT" => resp.value = s.seen
<1>1. CASE x.op = "ABEND"
  <2>1. x.cond # "NORMAL"
    BY <1>1 DEF Does, ABEND, Store, Read, Invoke, RETURN
  <2> QED
    BY <1>1, <2>1 DEF Condition
<1>2. CASE x.op = "RETURN"
  <2>1. resp.cond = "NORMAL" /\ resp.value = x.commarea
    BY <1>2 DEF Normal
  <2>2. /\ s.cond = "NORMAL" /\ s.program # "TRANSFER"
        /\ s.program \in {"OPEN_ACCOUNTS", "DEBIT", "CREDIT", "STATEMENT"} => s.at = 3
        /\ s.program \in {"AUDIT_LOG", "LIST_AUDIT"} => s.at = 2
        /\ s.program = "STATEMENT" => x.commarea = s.seen
    BY <1>2 DEF Does, ABEND, Store, Read, Invoke, RETURN
  <2>3. StateOK(s, m)
    BY <2>2 DEF ProgramOK
  <2> QED
    BY <2>1, <2>2, <2>3
<1> QED
  BY <1>1, <1>2

(* The task's first program leaves: what is committed if it returned is sound,*)
(* and a statement is in it.                                                  *)
LEMMA LastLeaves ==
    ASSUME BankRegion, NEW c, IsCall(c), NEW m, NEW s, Runs(c, s), ProgramOK(s, m),
           c.stack = <<s>>, SingleOK(c, s), NEW x, Does(s, x), x.op \in {"RETURN", "ABEND"},
           NEW resp, resp = IF x.op = "RETURN" THEN Normal(x.commarea) ELSE Condition(x.cond),
           NEW e, e = [c EXCEPT !.stack = Front(@)], NEW d, d = Returned(e, resp)
    PROVE  BankCall(d, m) /\ d.phase = "end" /\ d.outcome = resp /\ Same(d, c)
<1>1. c.request \in Requests /\ ~c.external /\ c.txn
  BY DEF Runs
<1>2. e.stack = <<>> /\ IsCall(e)
  <2>1. Front(c.stack) = <<>>
    BY Stacks
  <2> QED
    BY <2>1 DEF IsCall
<1>3. Same(e, c) /\ e.queue = c.queue
  BY DEF IsCall, Same
<1>4. d = [e EXCEPT !.phase = "end", !.outcome = resp]
  BY <1>2 DEF Returned
<1>5. Same(d, e) /\ d.queue = e.queue /\ d.phase = "end" /\ d.outcome = resp
  BY <1>2, <1>4 DEF IsCall, Same
<1>6. Same(d, c) /\ d.queue = c.queue
  BY <1>3, <1>5 DEF Same
<1>7. s.program \notin {"DEBIT", "CREDIT"}
  <2>1. c.request.program \notin {"DEBIT", "CREDIT"}
    BY <1>1, RequestParts
  <2> QED
    BY <2>1 DEF SingleOK
<1>8. d.queue = <<>> \/ (Origin(d) /\ d.request.program = "TRANSFER"
                           /\ d.queue = <<AuditOf(d.request)>>)
  BY <1>6 DEF SingleOK, Same, Origin
<1>9. ASSUME resp.cond = "NORMAL"
      PROVE  /\ Sound(m)
             /\ Origin(d) /\ d.request.program \in {"STATEMENT", "TRANSFER"} =>
                    /\ resp.value = <<resp.value[1], resp.value[2]>>
                    /\ Shows(m, d.request.commarea.from, resp.value[1])
                    /\ Shows(m, d.request.commarea.to, resp.value[2])
             /\ Origin(d) /\ d.request.program = "TRANSFER" => d.queue # <<>>
  <2>1. /\ s.cond = "NORMAL" /\ StateOK(s, m)
        /\ s.program # "TRANSFER"
        /\ s.program \in {"OPEN_ACCOUNTS", "DEBIT", "CREDIT", "STATEMENT"} => s.at = 3
        /\ s.program \in {"AUDIT_LOG", "LIST_AUDIT"} => s.at = 2
        /\ s.program = "STATEMENT" => resp.value = s.seen
    BY <1>9, LeavingSteps
  <2>2. Sound(m)
    BY <1>7, <2>1 DEF StateOK, Runs, BankPrograms
  <2>3. ASSUME Origin(d), d.request.program \in {"STATEMENT", "TRANSFER"}
        PROVE  /\ resp.value = <<resp.value[1], resp.value[2]>>
               /\ Shows(m, d.request.commarea.from, resp.value[1])
               /\ Shows(m, d.request.commarea.to, resp.value[2])
    <3>1. s.program = "STATEMENT"
      BY <1>6, <2>1, <2>3 DEF SingleOK, Same, Origin
    <3>2. s.req = d.request.commarea
      BY <1>6 DEF Runs, Same
    <3> QED
      BY <2>1, <3>1, <3>2 DEF StateOK
  <2>4. ASSUME Origin(d), d.request.program = "TRANSFER"
        PROVE  d.queue # <<>>
    <3>1. s.program = "STATEMENT" /\ Origin(c) /\ c.request.program = "TRANSFER"
      BY <1>6, <2>1, <2>4 DEF SingleOK, Same, Origin
    <3>2. d.queue = <<AuditOf(c.request)>>
      BY <1>6, <3>1 DEF SingleOK
    <3> QED
      BY <3>2
  <2> QED
    BY <2>2, <2>3, <2>4
<1>10. EndsOK(d, m)
  BY <1>5, <1>8, <1>9 DEF EndsOK
<1>11. d.request \in Requests /\ ~d.external /\ d.txn
  BY <1>1, <1>6 DEF Same
<1>12. BankCall(d, m)
  BY <1>5, <1>10, <1>11 DEF BankCall
<1> QED
  BY <1>5, <1>6, <1>12

(* DEBIT or CREDIT leaves: TRANSFER goes on, with what it finds at its next   *)
(* step.                                                                      *)
LEMMA LinkedLeaves ==
    ASSUME BankRegion, NEW c, NEW m, NEW s, Runs(c, s), NEW p, LinkedOK(c, p, s),
           NEW resp, resp.cond = "NORMAL" => s.at = 3 /\ StateOK(s, m),
           NEW e, IsCall(e), e.stack = <<p>>, Same(e, c), e.queue = c.queue,
           NEW d, d = Returned(e, resp)
    PROVE  BankCall(d, m) /\ d.phase = "run" /\ Same(d, c)
<1>1. c.request \in Requests /\ ~c.external /\ c.txn /\ s.req = c.request.commarea
  BY DEF Runs
<1>4. d = Respond(e, resp)
  BY Stacks DEF Returned
<1>5. PICK n : n = Learn(p, resp)
  OBVIOUS
<1>6. /\ Same(d, e) /\ d.phase = "run" /\ d.queue = e.queue
      /\ d.stack = Append(Front(e.stack), Learn(Last(e.stack), resp))
  BY <1>4, AnsweredCall
<1>7. d.stack = <<n>>
  <2>1. Front(e.stack) = <<>> /\ Last(e.stack) = p
    BY Stacks
  <2>2. d.stack = Append(<<>>, n)
    BY <1>5, <1>6, <2>1
  <2> QED
    BY <2>2
<1>8. Same(d, c) /\ d.queue = <<>>
  BY <1>6 DEF Same, LinkedOK
<1>9. /\ IsState(p) /\ p.program = "TRANSFER" /\ p.cond = "NORMAL" /\ p.id = c.id
      /\ p.req = c.request.commarea
      /\ \/ p.at = 1 /\ s.program = "DEBIT"
         \/ p.at = 2 /\ s.program = "CREDIT"
  BY DEF LinkedOK
<1>10. ProgramOK(n, m) /\ n.program = p.program /\ n.req = p.req /\ n.id = p.id /\ n.at # 4
  <2>1. CASE resp.cond # "NORMAL"
    <3>1. /\ IsState(n) /\ n.program = p.program /\ n.req = p.req /\ n.id = p.id
          /\ n.at = p.at /\ n.cond # "NORMAL"
      BY <1>5, <1>9, <2>1, LearnError
    <3> QED
      BY <1>9, <3>1 DEF ProgramOK, Steps
  <2>2. CASE resp.cond = "NORMAL"
    <3>1. /\ IsState(n) /\ n.program = p.program /\ n.req = p.req /\ n.id = p.id
          /\ n.at = p.at + 1 /\ n.cond = p.cond
      <4>1. IsState(p)
        BY <1>9
      <4> QED
        BY <1>5, <2>2, <4>1, LearnNormal
    <3>2. s.at = 3 /\ StateOK(s, m)
      BY <2>2
    <3>3. n.req.amount = s.req.amount
      BY <1>1, <1>9, <3>1
    <3>4. StateOK(n, m)
      BY <1>9, <3>1, <3>2, <3>3 DEF StateOK
    <3> QED
      BY <1>9, <3>1, <3>4 DEF ProgramOK, Steps
  <2> QED
    BY <2>1, <2>2
<1>11. SingleOK(d, n) /\ n.id = d.id
  BY <1>8, <1>9, <1>10 DEF SingleOK, Same, Origin, LinkedOK
<1>12. d.request \in Requests /\ ~d.external /\ d.txn
  BY <1>1, <1>8 DEF Same
<1>13. n.req = d.request.commarea
  BY <1>8, <1>9, <1>10 DEF Same
<1>14. BankCall(d, m)
  BY <1>6, <1>7, <1>10, <1>11, <1>12, <1>13, RunsSingle
<1> QED
  BY <1>6, <1>8, <1>14

(* RETURN and ABEND.                                                          *)
LEMMA LeaveKeeps ==
    ASSUME BankRegion, NEW c, IsCall(c), NEW m, NEW s, Runs(c, s), ProgramOK(s, m),
           NEW x, Does(s, x), x.op \in {"RETURN", "ABEND"},
           NEW resp, resp = IF x.op = "RETURN" THEN Normal(x.commarea) ELSE Condition(x.cond),
           NEW e, e = [c EXCEPT !.stack = Front(@)], NEW d, d = Returned(e, resp)
    PROVE  BankCall(d, m)
<1>1. CASE c.stack = <<s>> /\ SingleOK(c, s) /\ s.id = c.id
  BY <1>1, LastLeaves
<1>2. ASSUME NEW p, c.stack = <<p, s>>, LinkedOK(c, p, s)
      PROVE  BankCall(d, m)
  <2>1. PICK r, f, g : r = resp /\ f = e /\ g = d
    OBVIOUS
  <2>2. r.cond = "NORMAL" => s.at = 3 /\ StateOK(s, m)
    BY <1>2, <2>1, LeavingSteps DEF LinkedOK
  <2>3. Front(c.stack) = <<p>>
    BY <1>2, Pair, Zenon
  <2>4. IsCall(f) /\ Same(f, c) /\ f.queue = c.queue /\ f.stack = Front(c.stack)
    BY <2>1 DEF IsCall, Same
  <2>5. g = Returned(f, r)
    BY <2>1
  <2>6. f.stack = <<p>>
    BY <2>3, <2>4
  <2>7. BankCall(g, m)
    BY <1>2, <2>2, <2>4, <2>5, <2>6, LinkedLeaves
  <2> QED
    BY <2>1, <2>7
<1> QED
  BY <1>1, <1>2 DEF Runs

-------------------------------------------------------------------------------
(* Task Control, on the record of a call.                                     *)

(* A call that does nothing.                                                  *)
LEMMA IdleBank ==
    ASSUME NEW d, d.phase = "idle", ~d.external, NEW w
    PROVE  BankCall(d, w)
BY DEF BankCall

(* start_task is called, and its first request is dispatched.                 *)
LEMMA CalledBank ==
    ASSUME NEW request \in Requests, NEW n, NEW w,
           NEW d, d = [Idle EXCEPT !.phase = "dispatch", !.queue = <<request>>,
                                   !.request = request, !.calls = n, !.started = 1]
    PROVE  BankCall(d, w)
<1>1. /\ d.phase = "dispatch" /\ d.queue = <<request>> /\ d.request = request
      /\ ~d.external /\ d.result = <<>>
  BY DEF Idle
<1>2. WaitsOK(d)
  BY <1>1 DEF WaitsOK, Origin
<1>3. d.request \in Requests
  BY <1>1
<1> QED
  BY <1>1, <1>2, <1>3 DEF BankCall

(* A dispatched request keeps the call one of the demo.                       *)
LEMMA DispatchedBank ==
    ASSUME NEW c, IsCall(c), NEW m, BankCall(c, m), c.phase = "dispatch", NEW n, NEW w,
           NEW d, d = [c EXCEPT !.phase = "begin", !.id = n, !.ran = @ + 1]
    PROVE  BankCall(d, w)
<1>1. /\ d.phase = "begin" /\ d.queue = c.queue /\ d.request = c.request
      /\ d.external = c.external /\ d.result = c.result
  BY DEF IsCall
<1>2. WaitsOK(d)
  BY <1>1 DEF WaitsOK, Origin, BankCall, AuditOf
<1>3. d.request \in Requests /\ ~d.external
  BY <1>1 DEF BankCall
<1> QED
  BY <1>1, <1>2, <1>3 DEF BankCall

(* A task begins: its program finds the committed ledger.                     *)
LEMMA BegunBank ==
    ASSUME BankRegion, NEW c, IsCall(c), NEW m, BankCall(c, m), c.phase = "begin",
           c.queue # <<>>, c.stack = <<>>, NEW w, Sound(w), NEW q, q = Head(c.queue),
           NEW d, d = Run([c EXCEPT !.queue = Tail(@), !.txn = TRUE], q.program, q.commarea)
    PROVE  BankCall(d, w)
<1>1. WaitsOK(c) /\ c.request \in Requests /\ ~c.external
  BY DEF BankCall
<1>2. /\ c.queue = <<q>>
      /\ \/ Origin(c) /\ q = c.request
         \/ ~Origin(c) /\ c.request.program = "TRANSFER" /\ q = AuditOf(c.request)
  BY <1>1 DEF WaitsOK
<1>3. /\ q.program \in {"OPEN_ACCOUNTS", "LIST_AUDIT", "STATEMENT", "TRANSFER", "AUDIT_LOG"}
      /\ q.commarea = c.request.commarea
  BY <1>1, <1>2, RequestParts DEF AuditOf
<1>4. PICK e, n, program, req, eib :
          /\ program = q.program /\ req = q.commarea
          /\ e = [c EXCEPT !.queue = Tail(@), !.txn = TRUE]
          /\ eib = Eib(e) /\ n = Enter(program, req, eib)
  OBVIOUS
<1>5. /\ IsCall(e) /\ e.queue = Tail(c.queue) /\ e.stack = <<>> /\ e.request = c.request
      /\ e.result = c.result /\ e.txn
  BY <1>4 DEF IsCall
<1>6. ~e.external
  BY <1>1, <1>4 DEF IsCall
<1>7. e.queue = <<>>
  BY <1>2, <1>5
<1>8. d = Run(e, program, req) /\ program \in BankPrograms
  BY <1>3, <1>4 DEF BankPrograms
<1>9. Same(d, e) /\ d.phase = "run" /\ d.queue = e.queue /\ d.stack = Append(e.stack, n)
  <2>1. IsCall(e) /\ eib = Eib(e) /\ n = Enter(program, req, eib)
    BY <1>4, <1>5
  <2> QED
    BY <1>8, <2>1, RunEntered
<1>10. /\ IsState(n) /\ n.program = program /\ n.req = req /\ n.id = e.id
       /\ n.at = 1 /\ n.seen = <<>> /\ n.cond = "NORMAL" /\ n.at \in Steps(program)
  <2>1. eib = Eib(e) /\ n = Enter(program, req, eib)
    BY <1>4
  <2> QED
    BY <2>1, EnteredProgram
<1>11. ProgramOK(n, w)
  <2>1. n.program \in {"OPEN_ACCOUNTS", "LIST_AUDIT", "STATEMENT", "TRANSFER", "AUDIT_LOG"}
    BY <1>3, <1>4, <1>10
  <2>2. StateOK(n, w)
    BY <1>10, <2>1 DEF StateOK
  <2> QED
    BY <1>10, <2>2 DEF ProgramOK
<1>12. d.stack = <<n>>
  BY <1>5, <1>9
<1>13. SingleOK(d, n) /\ n.id = d.id
  <2>1. /\ d.request = c.request /\ d.result = c.result /\ d.queue = <<>>
        /\ n.program = q.program /\ n.at = 1 /\ n.id = d.id
    BY <1>4, <1>5, <1>7, <1>9, <1>10 DEF Same
  <2>2. CASE Origin(c) /\ q = c.request
    BY <2>1, <2>2 DEF SingleOK, Origin
  <2>3. CASE ~Origin(c) /\ c.request.program = "TRANSFER" /\ q = AuditOf(c.request)
    BY <2>1, <2>3 DEF SingleOK, Origin, AuditOf
  <2> QED
    BY <1>2, <2>2, <2>3, <2>1
<1>14. d.request \in Requests /\ ~d.external /\ d.txn
  BY <1>1, <1>5, <1>6, <1>9 DEF Same
<1>15. n.req = d.request.commarea
  BY <1>3, <1>4, <1>5, <1>9, <1>10 DEF Same
<1> QED
  BY <1>9, <1>11, <1>12, <1>13, <1>14, <1>15, RunsSingle

(* The task has ended: the audit task of a transfer is left in the queue.     *)
LEMMA EndedBank ==
    ASSUME NEW c, IsCall(c), NEW m, BankCall(c, m), c.phase = "end", c.outcome # <<>>,
           NEW w, NEW d, d = Ended(c)
    PROVE  BankCall(d, w)
<1>1. d = [c EXCEPT !.phase = "dispatch", !.txn = FALSE, !.outcome = <<>>,
                    !.result = IF @ = <<>> THEN c.outcome ELSE @,
                    !.first = IF c.ran = 1 THEN c.outcome ELSE @]
  BY Zenon DEF Ended
<1>2. /\ d.phase = "dispatch" /\ d.queue = c.queue /\ d.request = c.request
      /\ d.external = c.external /\ d.result # <<>>
  BY <1>1 DEF IsCall
<1>3. EndsOK(c, m) /\ c.request \in Requests /\ ~c.external
  BY DEF BankCall
<1>4. WaitsOK(d)
  BY <1>2, <1>3 DEF WaitsOK, EndsOK, Origin
<1>5. d.request \in Requests /\ ~d.external
  BY <1>2, <1>3
<1> QED
  BY <1>2, <1>4, <1>5 DEF BankCall

-------------------------------------------------------------------------------
(* One step of the region.                                                    *)

(* What a step of thread t does to the ledger: the call it leaves behind is   *)
(* as the invariant says, and the records of others are not touched.          *)
LedgerOf(t) ==
    /\ \E d : Update(t, d) /\ BankCall(d, working')
    /\ Sound(data') /\ (working' = working \/ t \in lock \/ lock = {})

(* READ, BROWSE, WRITE and REWRITE.                                           *)
LEMMA FileLedger ==
    ASSUME BankRegion, RInv, LedgerInv, NEW t \in Threads, NEW x,
           ExecRead(t, x) \/ ExecBrowse(t, x) \/ Change(t, x)
    PROVE  LedgerOf(t)
<1>1. PICK c, s, e : c = task[t] /\ s = Last(c.stack) /\ e = [c EXCEPT !.commands = @ + 1]
  OBVIOUS
<1>2. c.phase = "run" /\ x \in Issue(s) /\ e = Counted(t)
  BY <1>1 DEF ExecRead, ExecBrowse, Change, Issues, Counted
<1>3. BankCall(c, working) /\ IsCall(c) /\ Sound(data)
  BY <1>1 DEF LedgerInv, RInv, CallOK, CallTyped
<1>4. Runs(c, s) /\ ProgramOK(s, working)
  BY <1>1, <1>2, <1>3, RunningProgram
<1>5. Does(s, x)
  BY <1>2, <1>4, CommandDoes
<1>6. IsCall(e) /\ Runs(e, s) /\ s = Last(e.stack)
  BY <1>1, <1>3, <1>4, CountedRuns
<1>7. CASE ExecRead(t, x)
  <2>1. PICK resp : resp = exec_read(working, fct, x.file, x.key)
    OBVIOUS
  <2>2. PICK d : d = Respond(e, resp) /\ Update(t, d)
    BY <1>2, <1>7, <2>1 DEF ExecRead
  <2>3. PICK n : n = Learn(s, resp)
    OBVIOUS
  <2>4. x.op = "READ" /\ working' = working /\ data' = data
    BY <1>7 DEF ExecRead, Issues, Stay
  <2>5. /\ ProgramOK(n, working) /\ n.program = s.program /\ n.req = s.req /\ n.id = s.id
        /\ s.program # "TRANSFER"
    BY <1>4, <1>5, <2>1, <2>3, <2>4, ReadProgram
  <2>6. BankCall(d, working)
    BY <1>6, <2>2, <2>3, <2>5, AnswerKeeps
  <2> QED
    BY <1>3, <2>2, <2>4, <2>6 DEF LedgerOf
<1>8. CASE ExecBrowse(t, x)
  <2>1. PICK resp : resp = exec_browse(working, fct, x.file, x.key, x.limit)
    OBVIOUS
  <2>2. PICK d : d = Respond(e, resp) /\ Update(t, d)
    BY <1>2, <1>8, <2>1 DEF ExecBrowse
  <2>3. PICK n : n = Learn(s, resp)
    OBVIOUS
  <2>4. x.op = "BROWSE" /\ working' = working /\ data' = data
    BY <1>8 DEF ExecBrowse, Issues, Stay
  <2>5. /\ ProgramOK(n, working) /\ n.program = s.program /\ n.req = s.req /\ n.id = s.id
        /\ s.program # "TRANSFER"
    BY <1>4, <1>5, <2>3, <2>4, BrowseProgram
  <2>6. BankCall(d, working)
    BY <1>6, <2>2, <2>3, <2>5, AnswerKeeps
  <2> QED
    BY <1>3, <2>2, <2>4, <2>6 DEF LedgerOf
<1>9. CASE Change(t, x)
  <2>1. PICK r : r = Executed(x) /\ working' = r.w /\ Update(t, Respond(e, r.resp))
    BY <1>2, <1>9 DEF Change
  <2>2. PICK d, n, resp : resp = r.resp /\ d = Respond(e, resp) /\ n = Learn(s, resp)
    OBVIOUS
  <2>3. x.op \in {"WRITE", "REWRITE", "DELETE"} /\ data' = data /\ task[t].txn
    BY <1>9 DEF Change, Issues
  <2>4. s.program \in {"DEBIT", "CREDIT"} =>
            (s.req.from \in Named /\ s.req.to \in Named /\ s.req.amount \in Nat)
    BY <1>4, ProgramRequest
  <2>5. /\ ProgramOK(n, r.w) /\ n.program = s.program /\ n.req = s.req /\ n.id = s.id
        /\ s.program # "TRANSFER"
    <3>1. r = Executed(x) /\ n = Learn(s, r.resp)
      BY <2>1, <2>2
    <3> QED
      BY <1>4, <1>5, <2>3, <2>4, <3>1, ChangeProgram
  <2>6. PICK w : w = r.w
    OBVIOUS
  <2>7. BankCall(d, w)
    BY <1>6, <2>2, <2>5, <2>6, AnswerKeeps
  <2>8. t \in lock
    BY <2>3 DEF RInv, StoreOK
  <2>9. Update(t, d) /\ BankCall(d, working')
    BY <2>1, <2>2, <2>6, <2>7
  <2> QED
    BY <1>3, <2>3, <2>8, <2>9 DEF LedgerOf
<1> QED
  BY <1>7, <1>8, <1>9

(* LINK, XCTL, START, RETURN and ABEND.                                       *)
LEMMA ProgramLedger ==
    ASSUME BankRegion, RInv, LedgerInv, NEW t \in Threads, NEW x,
           Link(t, x) \/ Xctl(t, x) \/ Start(t, x) \/ Leave(t, x)
    PROVE  LedgerOf(t)
<1>1. PICK c, s, e : c = task[t] /\ s = Last(c.stack) /\ e = [c EXCEPT !.commands = @ + 1]
  OBVIOUS
<1>2. c.phase = "run" /\ x \in Issue(s) /\ e = Counted(t)
  BY <1>1 DEF Link, Xctl, Start, Leave, Issues, Counted
<1>3. BankCall(c, working) /\ IsCall(c) /\ Sound(data)
  BY <1>1 DEF LedgerInv, RInv, CallOK, CallTyped
<1>4. Runs(c, s) /\ ProgramOK(s, working)
  BY <1>1, <1>2, <1>3, RunningProgram
<1>5. Does(s, x)
  BY <1>2, <1>4, CommandDoes
<1>6. IsCall(e) /\ Runs(e, s) /\ s = Last(e.stack)
  BY <1>1, <1>3, <1>4, CountedRuns
<1>7. UNCHANGED <<working, data>>
  BY DEF Link, Xctl, Start, Leave, Stay
<1>8. CASE Link(t, x)
  <2>1. PICK d : d = link(e, x.program, x.commarea) /\ Update(t, d)
    BY <1>2, <1>8 DEF Link
  <2>2. BankCall(d, working)
    BY <1>4, <1>5, <1>6, <1>8, <2>1, LinkKeeps DEF Link, Issues
  <2> QED
    BY <1>3, <1>7, <2>1, <2>2 DEF LedgerOf
<1>9. CASE Xctl(t, x)
  <2>1. PICK d : d = xctl(e, x.program, x.commarea) /\ Update(t, d)
    BY <1>2, <1>9 DEF Xctl
  <2>2. BankCall(d, working)
    BY <1>4, <1>5, <1>6, <1>9, <2>1, XctlKeeps DEF Xctl, Issues
  <2> QED
    BY <1>3, <1>7, <2>1, <2>2 DEF LedgerOf
<1>10. CASE Start(t, x)
  <2>1. PICK d : d = start(e, x.program, x.commarea) /\ Update(t, d)
    BY <1>2, <1>10 DEF Start
  <2>2. BankCall(d, working)
    BY <1>4, <1>5, <1>6, <1>10, <2>1, StartKeeps DEF Start, Issues
  <2> QED
    BY <1>3, <1>7, <2>1, <2>2 DEF LedgerOf
<1>11. CASE Leave(t, x)
  <2>1. PICK resp, f : /\ resp = IF x.op = "RETURN" THEN Normal(x.commarea)
                                 ELSE Condition(x.cond)
                       /\ f = [c EXCEPT !.stack = Front(@)]
    OBVIOUS
  <2>2. PICK d : d = Returned(f, resp) /\ Update(t, d)
    BY <1>1, <1>11, <2>1 DEF Leave
  <2>3. x.op \in {"RETURN", "ABEND"}
    BY <1>11 DEF Leave, Issues
  <2>4. BankCall(d, working)
    BY <1>3, <1>4, <1>5, <2>1, <2>2, <2>3, LeaveKeeps
  <2> QED
    BY <1>3, <1>7, <2>2, <2>4 DEF LedgerOf
<1> QED
  BY <1>8, <1>9, <1>10, <1>11

(* A program of the demo never issues SYNCPOINT, never panics, and is never   *)
(* without its transaction.                                                   *)
LEMMA NoSyncpoint ==
    ASSUME BankRegion, RInv, LedgerInv, NEW t \in Threads, NEW x
    PROVE  /\ ~Panic(t, x) /\ ~Syncpoint(t, x) /\ ~SyncpointRollback(t, x)
           /\ ~Resume(t)
<1>1. PICK c, s : c = task[t] /\ s = Last(c.stack)
  OBVIOUS
<1>2. BankCall(c, working)
  BY <1>1 DEF LedgerInv
<1>3. ~Resume(t)
  BY <1>1, <1>2 DEF Resume, BankCall
<1>4. ASSUME c.phase = "run", x \in Issue(s)
      PROVE  c.txn /\ x.op \notin {"PANIC", "SYNCPOINT", "ROLLBACK"}
  <2>1. Runs(c, s) /\ ProgramOK(s, working)
    BY <1>1, <1>2, <1>4, RunningProgram
  <2>2. Does(s, x)
    BY <1>4, <2>1, CommandDoes
  <2>3. x.op \notin {"PANIC", "SYNCPOINT", "ROLLBACK"}
    BY <2>2 DEF Does, ABEND, Store, Read, Invoke, RETURN
  <2> QED
    BY <2>1, <2>3 DEF Runs
<1>5. ~Panic(t, x)
  BY <1>1, <1>4 DEF Panic, Issues
<1>6. ~Syncpoint(t, x) /\ ~SyncpointRollback(t, x)
  BY <1>1, <1>4 DEF Syncpoint, SyncpointRollback, Issues
<1> QED
  BY <1>3, <1>5, <1>6

(* The loop of start_task: a task that ends normally commits a sound ledger.  *)
LEMMA TaskLedger ==
    ASSUME BankRegion, RInv, LedgerInv, NEW t \in Threads,
           \/ \E request \in Requests : Call(t, request)
           \/ Dispatch(t) \/ BeginTask(t) \/ EndNormal(t) \/ EndAbend(t) \/ Return(t)
    PROVE  LedgerOf(t)
<1>1. PICK c : c = task[t]
  OBVIOUS
<1>2. BankCall(c, working) /\ CallOK(c) /\ IsCall(c) /\ Sound(data)
  BY <1>1 DEF LedgerInv, RInv, CallOK, CallTyped
<1>3. ASSUME NEW request \in Requests, Call(t, request)
      PROVE  LedgerOf(t)
  <2>1. PICK n : n = c.calls + 1
    OBVIOUS
  <2>2. PICK d : /\ Update(t, d)
                 /\ d = [Idle EXCEPT !.phase = "dispatch", !.queue = <<request>>,
                              !.request = request, !.calls = n, !.started = 1]
    BY <1>1, <1>3, <2>1 DEF Call
  <2>3. BankCall(d, working)
    BY <2>2, CalledBank
  <2> QED
    BY <1>2, <1>3, <2>2, <2>3 DEF LedgerOf, Call, Stay
<1>4. CASE Dispatch(t)
  <2>1. PICK n : n = next_task
    OBVIOUS
  <2>2. PICK d : Update(t, d) /\ d = [c EXCEPT !.phase = "begin", !.id = n, !.ran = @ + 1]
    BY <1>1, <1>4, <2>1 DEF Dispatch
  <2>3. BankCall(d, working)
    BY <1>1, <1>2, <1>4, <2>2, DispatchedBank DEF Dispatch
  <2> QED
    BY <1>2, <1>4, <2>2, <2>3 DEF LedgerOf, Dispatch, Stay
<1>5. CASE BeginTask(t)
  <2>1. PICK q : q = Head(c.queue)
    OBVIOUS
  <2>2. PICK d : /\ Update(t, d)
                 /\ d = Run([c EXCEPT !.queue = Tail(@), !.txn = TRUE], q.program, q.commarea)
    BY <1>1, <1>5, <2>1 DEF BeginTask
  <2>3. c.phase = "begin" /\ lock = {} /\ data' = data
    BY <1>1, <1>5 DEF BeginTask, begin_write
  <2>4. working' = data
    BY <1>5 DEF BeginTask, begin_write
  <2>5. c.queue # <<>> /\ c.stack = <<>>
    BY <1>2, <2>3 DEF CallOK, PhaseOK
  <2>6. BankCall(d, data)
    BY <1>2, <2>1, <2>2, <2>3, <2>5, BegunBank
  <2>7. BankCall(d, working')
    BY <2>4, <2>6
  <2> QED
    BY <1>2, <2>2, <2>3, <2>7 DEF LedgerOf
<1>6. ASSUME c.phase = "end", c.outcome.cond = "NORMAL"
      PROVE  c.txn /\ Sound(working) /\ t \in lock
  <2>1. c.txn /\ Sound(working)
    BY <1>2, <1>6 DEF BankCall, EndsOK
  <2> QED
    BY <1>1, <2>1 DEF RInv, StoreOK
<1>7. CASE EndNormal(t)
  <2>1. c.phase = "end" /\ c.outcome.cond = "NORMAL" /\ ~c.external
    BY <1>1, <1>7 DEF EndNormal, TaskEnded
  <2>2. c.txn /\ Sound(working) /\ t \in lock /\ c.outcome # <<>>
    BY <1>2, <1>6, <2>1 DEF CallOK, PhaseOK
  <2>3. ASSUME commit(t), Update(t, Ended(c))
        PROVE  LedgerOf(t)
    <3>1. PICK d : d = Ended(c) /\ Update(t, d)
      BY <2>3
    <3>2. \A w : BankCall(d, w)
      BY <1>2, <2>1, <2>2, <3>1, EndedBank
    <3>3. data' = working
      BY <2>3 DEF commit
    <3> QED
      BY <2>2, <3>1, <3>2, <3>3 DEF LedgerOf
  <2>4. ASSUME commit_fails(t), Update(t, Reply(c, Condition("Io")))
        PROVE  LedgerOf(t)
    <3>1. PICK a, d : a = Condition("Io") /\ d = Reply(c, a) /\ Update(t, d)
      BY <2>4
    <3>2. d.phase = "idle" /\ d.external = c.external
      BY <1>2, <3>1, ReplyFields
    <3>3. \A w : BankCall(d, w)
      BY <2>1, <3>2, IdleBank
    <3>4. data' = data
      BY <2>4 DEF commit_fails
    <3> QED
      BY <1>2, <2>2, <3>1, <3>3, <3>4 DEF LedgerOf
  <2> QED
    BY <1>1, <1>7, <2>2, <2>3, <2>4 DEF EndNormal
<1>8. CASE EndAbend(t)
  <2>1. c.phase = "end" /\ c.outcome # <<>> /\ rollback(t) /\ Update(t, Ended(c))
    BY <1>1, <1>2, <1>8 DEF EndAbend, TaskEnded, CallOK, PhaseOK
  <2>2. PICK d : d = Ended(c) /\ Update(t, d)
    BY <2>1
  <2>3. \A w : BankCall(d, w)
    BY <1>2, <2>1, <2>2, EndedBank
  <2>4. data' = data
    BY <2>1 DEF rollback
  <2>5. t \in lock
    BY <1>1, <1>2, <2>1 DEF BankCall, RInv, StoreOK
  <2> QED
    BY <1>2, <2>2, <2>3, <2>4, <2>5 DEF LedgerOf
<1>9. CASE Return(t)
  <2>1. PICK a, d : a = c.result /\ d = Reply(c, a) /\ Update(t, d)
    BY <1>1, <1>9 DEF Return
  <2>2. d.phase = "idle" /\ d.external = c.external
    BY <1>2, <2>1, ReplyFields
  <2>3. \A w : BankCall(d, w)
    BY <1>2, <2>2, IdleBank DEF BankCall
  <2> QED
    BY <1>2, <1>9, <2>1, <2>3 DEF LedgerOf, Return, Stay
<1> QED
  BY <1>3, <1>4, <1>5, <1>7, <1>8, <1>9

(* Every step of a thread is such a step.                                     *)
LEMMA ThreadLedger ==
    ASSUME BankRegion, RInv, LedgerInv, NEW t \in Threads,
           \/ \E request \in Requests : Call(t, request)
           \/ Acquire(t) \/ Proceed(t)
    PROVE  LedgerOf(t)
<1>1. CASE Acquire(t)
  BY <1>1, TaskLedger, NoSyncpoint DEF Acquire
<1>2. CASE Dispatch(t) \/ EndNormal(t) \/ EndAbend(t) \/ Return(t)
  BY <1>2, TaskLedger
<1>3. CASE Command(t)
  BY <1>3, FileLedger, ProgramLedger, NoSyncpoint DEF Command
<1>4. CASE \E request \in Requests : Call(t, request)
  BY <1>4, TaskLedger
<1> QED
  BY <1>1, <1>2, <1>3, <1>4 DEF Proceed

(* A call without a transaction does not depend on what the transaction of    *)
(* another shows.                                                             *)
LEMMA OthersLedger ==
    ASSUME RInv, LedgerInv, NEW t \in Threads, LedgerOf(t)
    PROVE  LedgerInv'
<1>1. PICK d : Update(t, d) /\ BankCall(d, working')
  BY DEF LedgerOf
<1>2. task' = [task EXCEPT ![t] = d] /\ DOMAIN task = Threads
  BY <1>1 DEF RInv, Update
<1>3. ASSUME NEW u \in Threads
      PROVE  BankCall(task'[u], working')
  <2>1. CASE u = t
    BY <1>1, <1>2, <2>1
  <2>2. CASE u # t
    <3>1. task'[u] = task[u] /\ BankCall(task[u], working)
      BY <1>2, <2>2 DEF LedgerInv
    <3>2. CASE working' = working
      BY <3>1, <3>2
    <3>3. CASE t \in lock \/ lock = {}
      <4>1. ~task[u].txn
        BY <2>2, <3>3 DEF RInv, StoreOK
      <4>2. BankCall(task[u], working')
        BY <3>1, <4>1 DEF BankCall
      <4> QED
        BY <3>1, <4>2
    <3> QED
      BY <3>2, <3>3 DEF LedgerOf
  <2> QED
    BY <2>1, <2>2
<1>4. Sound(data')
  BY DEF LedgerOf
<1> QED
  BY <1>3, <1>4 DEF LedgerInv

(* One step of the region keeps the ledger, whenever the process dies.        *)
LEMMA NextLedger ==
    ASSUME BankRegion, RInv, LedgerInv, [Next]_vars
    PROVE  LedgerInv'
<1>1. CASE UNCHANGED <<data, working, task>>
  BY <1>1 DEF LedgerInv
<1>2. CASE Restart
  <2>1. \A t \in Threads : task'[t].phase = "idle" /\ task'[t].external = task[t].external
    BY <1>2 DEF Restart, Idle
  <2>2. \A t \in Threads : ~task[t].external
    BY DEF LedgerInv, BankCall
  <2>3. \A t \in Threads : BankCall(task'[t], working')
    BY <2>1, <2>2, IdleBank
  <2>4. Sound(data')
    BY <1>2 DEF Restart, LedgerInv
  <2> QED
    BY <2>3, <2>4 DEF LedgerInv
<1>3. CASE \E t \in Threads : \/ \E request \in Requests : Call(t, request)
                              \/ Acquire(t) \/ Proceed(t)
  BY <1>3, ThreadLedger, OthersLedger
<1> QED
  BY <1>1, <1>2, <1>3 DEF Next, vars, task_count_hint, Stay

(* A new region: no accounts and no calls.                                    *)
LEMMA InitLedger ==
    ASSUME Init
    PROVE  LedgerInv
<1>1. data = NoRecords /\ task = [t \in Threads |-> Idle] /\ DOMAIN NoRecords = {}
  BY DEF Init, NewStore, NoRecords
<1>2. Sound(data)
  BY <1>1 DEF Sound, OnlyKnown
<1>3. \A t \in Threads : task[t].phase = "idle" /\ ~task[t].external
  BY <1>1 DEF Idle
<1>4. \A t \in Threads : BankCall(task[t], working)
  BY <1>3, IdleBank
<1> QED
  BY <1>2, <1>4 DEF LedgerInv

(* Region's specification is Gateway's without external callers.              *)
LEMMA RegionSteps ==
    /\ Init => GatewayInit
    /\ [Next]_vars => [GatewayNext]_vars
BY DEF Init, GatewayInit, GatewayNext, Idle

-------------------------------------------------------------------------------
(* The ledger of the demo is sound in every state, for any accounts and any   *)
(* amounts that requests name, any number of threads, failed commits and      *)
(* process deaths.                                                            *)
THEOREM LedgerInvariance == ASSUME BankRegion PROVE Spec => [](RInv /\ LedgerInv)
<1>1. Init => RInv /\ LedgerInv
  BY InitRInv, InitLedger, RegionSteps
<1>2. RInv /\ LedgerInv /\ [Next]_vars => (RInv /\ LedgerInv)'
  BY NextKeeps, NextLedger, RegionSteps
<1> QED
  BY <1>1, <1>2, PTL DEF Spec

(* No money is made or lost, no account is overdrawn, and no account is       *)
(* opened without the other.                                                  *)
THEOREM BalancesSafety == ASSUME BankRegion PROVE Spec => []BalancesSound
<1>1. LedgerInv => BalancesSound
  <2> SUFFICES ASSUME Sound(data) PROVE BalancesSound
    BY DEF LedgerInv
  <2>1. CASE Account(ALICE) \notin DOMAIN data /\ Account(BOB) \notin DOMAIN data
    BY <2>1 DEF BalancesSound
  <2>2. CASE Holds(data, 1500)
    <3>1. PICK a, b : a = data[Account(ALICE)] /\ b = data[Account(BOB)]
      OBVIOUS
    <3>2. a \in Nat /\ b \in Nat /\ a + b = 1500
      BY <2>2, <3>1 DEF Holds
    <3>3. a >= 0 /\ b >= 0
      BY <3>2
    <3> QED
      BY <3>1, <3>2, <3>3 DEF BalancesSound
  <2> QED
    BY <2>1, <2>2 DEF Sound
<1> QED
  BY <1>1, LedgerInvariance, PTL

(* The end of the originating task is the only step that gives a call its     *)
(* result, and it commits the balances that the result shows.                 *)
LEMMA ResultCommitted ==
    ASSUME BankRegion, RInv, LedgerInv, Next, NEW t \in Threads,
           task[t].phase = "end", task[t].result = <<>>,
           task'[t].result # <<>>, task'[t].result.cond = "NORMAL",
           task[t].request.program \in {"TRANSFER", "STATEMENT"}
    PROVE  task'[t].result.value = <<data'[Account(task[t].request.commarea.from)],
                                     data'[Account(task[t].request.commarea.to)]>>
<1>1. PICK c, d : c = task[t] /\ d = task'[t]
  OBVIOUS
<1>2. IsCall(c) /\ BankCall(c, working) /\ DOMAIN task = Threads
  BY <1>1 DEF RInv, LedgerInv, CallOK, CallTyped
<1>3. ~task_count_hint /\ ~Restart
  <2>1. ~task_count_hint
    BY DEF task_count_hint
  <2>2. ASSUME Restart PROVE FALSE
    <3>1. task'[t] = [Idle EXCEPT !.calls = task[t].calls, !.external = task[t].external]
      BY <2>2 DEF Restart
    <3>2. task'[t].result = <<>>
      BY <3>1 DEF Idle
    <3> QED
      BY <3>2
  <2> QED
    BY <2>1, <2>2
<1>4. PICK u \in Threads : \/ \E request \in Requests : Call(u, request)
                           \/ Acquire(u) \/ Proceed(u)
  BY <1>3 DEF Next
<1>5. u = t
  <2>1. PICK e : task' = [task EXCEPT ![u] = e]
    BY <1>4, ThreadLedger DEF LedgerOf, Update
  <2> QED
    BY <1>2, <2>1
<1>6. EndNormal(t) \/ EndAbend(t)
  BY <1>4, <1>5 DEF Call, Acquire, BeginTask, Resume, Proceed, Dispatch, Return
<1>7. ASSUME Update(t, Ended(c))
      PROVE  d.result = c.outcome
  <2>1. d = Ended(c)
    BY <1>1, <1>2, <1>7 DEF Update
  <2> QED
    BY <1>1, <1>2, <2>1 DEF Ended, IsCall
<1>8. ~EndAbend(t)
  BY <1>1, <1>7 DEF EndAbend
<1>9. EndNormal(t)
  BY <1>6, <1>8
<1>10. ~Update(t, Reply(c, Condition("Io")))
  <2> SUFFICES ASSUME Update(t, Reply(c, Condition("Io"))) PROVE FALSE
    OBVIOUS
  <2>1. PICK a : a = Condition("Io") /\ d = Reply(c, a)
    BY <1>1, <1>2 DEF Update
  <2>2. d.result = c.result
    BY <1>2, <2>1, ReplyFields
  <2> QED
    BY <1>1, <2>2
<1>11. c.phase = "end" /\ c.txn /\ EndsOK(c, working)
  BY <1>1, <1>2 DEF BankCall
<1>12. data' = working /\ Update(t, Ended(c)) /\ c.outcome.cond = "NORMAL"
  BY <1>1, <1>9, <1>10, <1>11 DEF EndNormal, commit
<1>13. PICK v : v = c.outcome.value
  OBVIOUS
<1>14. /\ v = <<v[1], v[2]>>
       /\ Shows(working, c.request.commarea.from, v[1])
       /\ Shows(working, c.request.commarea.to, v[2])
  BY <1>1, <1>11, <1>12, <1>13 DEF EndsOK, Origin
<1>15. v[1] = data'[Account(c.request.commarea.from)]
       /\ v[2] = data'[Account(c.request.commarea.to)]
  BY <1>12, <1>14 DEF Shows
<1>16. d.result.value = v
  BY <1>7, <1>12, <1>13
<1> QED
  BY <1>1, <1>14, <1>15, <1>16

(* The balances that a transfer or a statement reports are the committed ones.*)
THEOREM StatementSafety == ASSUME BankRegion PROVE Spec => StatementTrue
<1>1. RInv /\ LedgerInv /\ [Next]_vars =>
          [\A t \in Threads :
               /\ task[t].phase = "end" /\ task[t].result = <<>>
               /\ task'[t].result # <<>> /\ task'[t].result.cond = "NORMAL"
               /\ task[t].request.program \in {"TRANSFER", "STATEMENT"}
               => task'[t].result.value = <<data'[Account(task[t].request.commarea.from)],
                                            data'[Account(task[t].request.commarea.to)]>>]_vars
  BY ResultCommitted
<1> QED
  BY <1>1, LedgerInvariance, PTL DEF Spec, StatementTrue

-------------------------------------------------------------------------------
(* The audit trail: records.                                                  *)

(* A task number is in the trail exactly if its key is.                       *)
LEMMA AuditsKeys ==
    ASSUME BankRegion, NEW m, NEW i
    PROVE  i \in Audits(m) <=> Audit(i) \in DOMAIN m
<1>1. AuditId(Audit(i)) = i
  BY KeysApart
<1>2. ASSUME i \in Audits(m) PROVE Audit(i) \in DOMAIN m
  <2>1. PICK k \in DOMAIN m : k = Audit(AuditId(k)) /\ i = AuditId(k)
    BY <1>2 DEF Audits
  <2> QED
    BY <2>1
<1>3. ASSUME Audit(i) \in DOMAIN m PROVE i \in Audits(m)
  <2>1. PICK k : k = Audit(i)
    OBVIOUS
  <2>2. k \in DOMAIN m /\ AuditId(k) = i /\ k = Audit(AuditId(k))
    BY <1>1, <1>3, <2>1
  <2> QED
    BY <2>2 DEF Audits
<1> QED
  BY <1>2, <1>3

(* The trail m is under way from base: what TrailKept says, on keys.          *)
LEMMA TrailKeys ==
    ASSUME BankRegion, NEW c, NEW base, NEW m
    PROVE  TrailKept(c, base, m) <=>
               /\ \A i : Audit(i) \in DOMAIN base =>
                      Audit(i) \in DOMAIN m /\ m[Audit(i)] = base[Audit(i)]
               /\ \A i : Audit(i) \in DOMAIN m =>
                      Audit(i) \in DOMAIN base \/ (Logged(c) /\ i = c.id)
<1>1. \A i : /\ i \in Audits(base) <=> Audit(i) \in DOMAIN base
             /\ i \in Audits(m) <=> Audit(i) \in DOMAIN m
  BY AuditsKeys
<1> QED
  BY <1>1 DEF TrailKept

(* Money is no audit record.                                                  *)
LEMMA AccountKeepsTrail ==
    ASSUME BankRegion, NEW m, NEW acct \in Named, NEW v, NEW w, w = Assign(m, Account(acct), v)
    PROVE  \A i : /\ Audit(i) \in DOMAIN w <=> Audit(i) \in DOMAIN m
                  /\ Audit(i) \in DOMAIN m => w[Audit(i)] = m[Audit(i)]
<1>1. PICK k : k = Account(acct)
  OBVIOUS
<1>2. \A i : Audit(i) # k
  BY <1>1, KeysApart
<1>3. DOMAIN w = DOMAIN m \cup {k} /\ \A x \in DOMAIN m : x # k => w[x] = m[x]
  BY <1>1 DEF Assign
<1> QED
  BY <1>2, <1>3

(* AUDIT_LOG adds one record.                                                 *)
LEMMA AuditExtends ==
    ASSUME BankRegion, NEW m, NEW j, NEW v, NEW w, w = Assign(m, Audit(j), v)
    PROVE  /\ Audit(j) \in DOMAIN w /\ w[Audit(j)] = v
           /\ \A i : i # j =>
                  /\ Audit(i) \in DOMAIN w <=> Audit(i) \in DOMAIN m
                  /\ Audit(i) \in DOMAIN m => w[Audit(i)] = m[Audit(i)]
<1>1. PICK k : k = Audit(j)
  OBVIOUS
<1>2. \A i : i # j => Audit(i) # k
  <2>1. \A i : AuditId(Audit(i)) = i
    BY KeysApart
  <2> QED
    BY <1>1, <2>1
<1>3. /\ DOMAIN w = DOMAIN m \cup {k} /\ \A x \in DOMAIN m : x # k => w[x] = m[x]
      /\ w[k] = v
  BY <1>1 DEF Assign
<1> QED
  BY <1>1, <1>2, <1>3

-------------------------------------------------------------------------------
(* The audit trail: one step of a thread.                                     *)

(* What a step of thread t does to the trail.                                 *)
TrailOf(t, d) ==
    /\ Update(t, d) /\ UNCHANGED restarts
    /\ LogOK(d, working')
    /\ t \in lock' => TrailKept(d, data', working')
    /\ Finished(d) => Recorded(d, data')
    /\ \/ next_task' = next_task /\ (Busy(d) => Busy(task[t]) /\ d.id = task[t].id)
       \/ next_task' = next_task + 1 /\ d.id = next_task
    /\ \/ data' = data
       \/ data' = working /\ t \in lock /\ ~Busy(d) /\ Busy(task[t])
    /\ \/ UNCHANGED <<working, lock>>
       \/ t \in lock /\ lock' \subseteq lock
       \/ lock = {} /\ lock' = {t}

(* A call that has no transaction is not writing the trail.                   *)
LEMMA OtherCalls ==
    ASSUME RInv, LedgerInv, NEW t \in Threads, NEW u \in Threads, u # t, t \in lock \/ lock = {}
    PROVE  ~task[u].txn /\ u \notin lock /\ task[u].phase \notin {"run", "end"}
<1>1. ~task[u].txn /\ u \notin lock
  BY DEF RInv, StoreOK
<1>2. BankCall(task[u], working)
  BY DEF LedgerInv
<1> QED
  BY <1>1, <1>2 DEF BankCall

(* Such a step keeps the trail, the other calls' numbers and their records.   *)
LEMMA OthersTrail ==
    ASSUME BankRegion, RInv, LedgerInv, TrailInv, restarts = 0, NEW t \in Threads,
           NEW d, TrailOf(t, d)
    PROVE  TrailInv'
<1>0. restarts' = 0 /\ next_task \in Nat
  BY DEF TrailOf, RInv
<1>1. task' = [task EXCEPT ![t] = d] /\ DOMAIN task = Threads
  BY DEF TrailOf, Update, RInv
<1>2. task'[t] = d /\ \A u \in Threads \ {t} : task'[u] = task[u]
  BY <1>1
<1>3. NumbersApart /\ \A u \in Threads :
          /\ LogOK(task[u], working)
          /\ u \in lock => TrailKept(task[u], data, working)
          /\ Finished(task[u]) => Recorded(task[u], data)
  BY DEF TrailInv
<1>4. next_task' \in {next_task, next_task + 1}
  BY DEF TrailOf
<1>5. Busy(d) => \/ next_task' = next_task /\ Busy(task[t]) /\ d.id = task[t].id
                 \/ next_task' = next_task + 1 /\ d.id = next_task
  BY DEF TrailOf
<1>6. ASSUME NEW i \in Audits(data')
      PROVE  /\ i \in Nat /\ i < next_task
             /\ \A u \in Threads \ {t} : Busy(task[u]) => task[u].id # i
             /\ Busy(d) => d.id # i
  <2>1. CASE data' = data
    <3>1. i \in Nat /\ i < next_task /\ \A u \in Threads : Busy(task[u]) => task[u].id # i
      BY <1>3, <1>6, <2>1 DEF NumbersApart
    <3> QED
      BY <1>0, <1>5, <3>1
  <2>2. CASE data' = working /\ t \in lock /\ ~Busy(d) /\ Busy(task[t])
    <3>1. TrailKept(task[t], data, working)
      BY <1>3, <2>2
    <3>2. i \in Audits(data) \/ i = task[t].id
      BY <1>6, <2>2, <3>1 DEF TrailKept
    <3> QED
      BY <1>3, <2>2, <3>2 DEF NumbersApart
  <2> QED
    BY <2>1, <2>2 DEF TrailOf
<1>7. \A u \in Threads \ {t} : Busy(task[u]) => task[u].id \in Nat /\ task[u].id < next_task
  BY <1>3 DEF NumbersApart
<1>8. Busy(d) => /\ d.id \in Nat /\ d.id < next_task'
                 /\ \A u \in Threads \ {t} : Busy(task[u]) => task[u].id # d.id
  BY <1>0, <1>3, <1>5, <1>7 DEF NumbersApart
<1>9. NumbersApart'
  <2>1. \A i \in Audits(data') : i \in Nat /\ i < next_task'
    BY <1>0, <1>4, <1>6
  <2>2. \A i \in Audits(data') : \A u \in Threads : Busy(task'[u]) => task'[u].id # i
    BY <1>2, <1>6
  <2>3. \A u \in Threads : Busy(task'[u]) => task'[u].id \in Nat /\ task'[u].id < next_task'
    BY <1>0, <1>2, <1>4, <1>7, <1>8
  <2>4. \A u, v \in Threads :
            u # v /\ Busy(task'[u]) /\ Busy(task'[v]) => task'[u].id # task'[v].id
    BY <1>2, <1>3, <1>8 DEF NumbersApart
  <2> QED
    BY <2>1, <2>2, <2>3, <2>4 DEF NumbersApart
<1>10. ASSUME NEW u \in Threads
       PROVE  /\ LogOK(task'[u], working')
              /\ u \in lock' => TrailKept(task'[u], data', working')
              /\ Finished(task'[u]) => Recorded(task'[u], data')
  <2>1. CASE u = t
    BY <1>2, <2>1 DEF TrailOf
  <2>2. CASE u # t
    <3>1. task'[u] = task[u]
      BY <1>2, <2>2
    <3>2. Finished(task[u]) => Recorded(task[u], data')
      <4>1. CASE data' = data
        BY <1>3, <4>1
      <4>2. CASE data' = working /\ t \in lock
        <5>1. TrailKept(task[t], data, working)
          BY <1>3, <4>2
        <5>2. \A i : Audit(i) \in DOMAIN data =>
                  Audit(i) \in DOMAIN working /\ working[Audit(i)] = data[Audit(i)]
          BY <5>1, TrailKeys
        <5>3. Recorded(task[u], data) => Recorded(task[u], working)
          BY <5>2 DEF Recorded
        <5> QED
          BY <1>3, <4>2, <5>3
      <4> QED
        BY <4>1, <4>2 DEF TrailOf
    <3>3. CASE UNCHANGED <<working, lock>> /\ t \notin lock
      <4>1. data' = data
        BY <3>3 DEF TrailOf
      <4> QED
        BY <1>3, <3>1, <3>2, <3>3, <4>1
    <3>4. CASE t \in lock \/ lock = {}
      <4>1. u \notin lock /\ task[u].phase \notin {"run", "end"}
        BY <2>2, <3>4, OtherCalls
      <4>2. u \notin lock'
        BY <2>2, <4>1 DEF TrailOf
      <4>3. LogOK(task[u], working')
        BY <4>1 DEF LogOK, Logged, Logging
      <4> QED
        BY <3>1, <3>2, <4>2, <4>3
    <3> QED
      BY <3>3, <3>4 DEF TrailOf
  <2> QED
    BY <2>1, <2>2
<1> QED
  BY <1>9, <1>10 DEF TrailInv

(* What a call keeps through a command, on every path of Program Control.     *)
LEMMA ReturnedSame ==
    ASSUME NEW c, IsCall(c), NEW resp, NEW d, d = Returned(c, resp)
    PROVE  Same(d, c) /\ d.phase \in {"run", "end"}
<1>1. CASE c.stack = <<>>
  <2>1. d = [c EXCEPT !.phase = "end", !.outcome = resp]
    BY <1>1 DEF Returned
  <2> QED
    BY <2>1 DEF IsCall, Same
<1>2. CASE c.stack # <<>>
  BY <1>2, AnsweredCall DEF Returned
<1> QED
  BY <1>1, <1>2

(* Running a program changes nothing that the trail is about.                 *)
LEMMA RunSame ==
    ASSUME NEW c, IsCall(c), NEW program, NEW req, NEW d, d = Run(c, program, req)
    PROVE  Same(d, c) /\ d.phase \in {"run", "end"}
<1>1. CASE resolve(program)
  <2>1. PICK n : n = Enter(program, req, Eib(c))
    OBVIOUS
  <2>2. d = [c EXCEPT !.phase = "run", !.stack = Append(@, n)]
    BY <1>1, <2>1 DEF Run
  <2> QED
    BY <2>2 DEF IsCall, Same
<1>2. CASE ~resolve(program)
  <2>1. PICK r : r = Condition("ProgramNotFound")
    OBVIOUS
  <2>2. d = Returned(c, r)
    BY <1>2, <2>1 DEF Run
  <2> QED
    BY <2>2, ReturnedSame
<1> QED
  BY <1>1, <1>2

(* Nor do LINK, XCTL and START.                                               *)
LEMMA ProgramSame ==
    ASSUME NEW c, IsCall(c), NEW program, NEW req, NEW d,
           \/ d = link(c, program, req) \/ d = xctl(c, program, req)
           \/ d = start(c, program, req)
    PROVE  Same(d, c) /\ d.phase \in {"run", "end"}
<1>1. CASE d = link(c, program, req)
  <2>1. CASE d = Run(c, program, req)
    BY <2>1, RunSame
  <2>2. CASE d = Respond(c, Condition("LinkStackOverflow"))
    <3>1. PICK r : r = Condition("LinkStackOverflow") /\ d = Respond(c, r)
      BY <2>2
    <3> QED
      BY <3>1, AnsweredCall
  <2> QED
    BY <1>1, <2>1, <2>2 DEF link
<1>2. CASE d = xctl(c, program, req)
  <2>1. PICK e : e = [c EXCEPT !.stack = Front(@)]
    OBVIOUS
  <2>2. IsCall(e) /\ Same(e, c)
    BY <2>1 DEF IsCall, Same
  <2>3. d = Run(e, program, req)
    BY <1>2, <2>1, Zenon DEF xctl
  <2>4. Same(d, e) /\ d.phase \in {"run", "end"}
    BY <2>2, <2>3, RunSame
  <2> QED
    BY <2>2, <2>4 DEF Same
<1>3. CASE d = start(c, program, req)
  <2>1. PICK q : q = [program |-> program, commarea |-> req]
    OBVIOUS
  <2>2. PICK e, r : /\ e = [c EXCEPT !.queue = Append(@, q), !.started = @ + 1]
                    /\ r = Normal(<<>>)
    OBVIOUS
  <2>3. IsCall(e) /\ Same(e, c)
    BY <2>2 DEF IsCall, Same
  <2>4. d = Respond(e, r)
    BY <1>3, <2>1, <2>2, Zenon DEF start
  <2>5. Same(d, e) /\ d.phase = "run"
    BY <2>3, <2>4, AnsweredCall
  <2> QED
    BY <2>3, <2>5 DEF Same
<1> QED
  BY <1>1, <1>2, <1>3

(* AUDIT_LOG is the one program that runs when the transfer has ended.        *)
LEMMA LoggingProgram ==
    ASSUME BankRegion, NEW c, NEW s, Runs(c, s)
    PROVE  /\ Origin(c) => s.program # "AUDIT_LOG"
           /\ ~Origin(c) => /\ s.program = "AUDIT_LOG" /\ c.request.program = "TRANSFER"
                            /\ c.stack = <<s>> /\ SingleOK(c, s) /\ s.id = c.id
<1>1. c.request.program # "AUDIT_LOG"
  BY RequestParts DEF Runs
<1>2. CASE c.stack = <<s>> /\ SingleOK(c, s) /\ s.id = c.id
  BY <1>1, <1>2 DEF SingleOK
<1>3. CASE \E p : c.stack = <<p, s>> /\ LinkedOK(c, p, s)
  BY <1>3 DEF LinkedOK
<1> QED
  BY <1>2, <1>3 DEF Runs

(* A command of the originating task does not touch the trail.                *)
LEMMA QuietTrail ==
    ASSUME BankRegion, RInv, LedgerInv, TrailInv, restarts = 0, NEW t \in Threads,
           NEW c, c = task[t], c.phase = "run", Origin(c),
           NEW d, Update(t, d), Same(d, c), d.phase \in {"run", "end"},
           UNCHANGED <<data, lock, next_task, restarts>>,
           \A i : /\ Audit(i) \in DOMAIN working' <=> Audit(i) \in DOMAIN working
                  /\ Audit(i) \in DOMAIN working => working'[Audit(i)] = working[Audit(i)]
    PROVE  TrailOf(t, d)
<1>1. BankCall(c, working)
  BY DEF LedgerInv
<1>2. t \in lock
  <2>1. c.txn
    BY <1>1 DEF BankCall
  <2> QED
    BY <2>1 DEF RInv, StoreOK
<1>3. Origin(d) /\ d.id = c.id /\ Busy(c) /\ ~Logged(c) /\ ~Logged(d) /\ ~Logging(d)
  BY DEF Origin, Same, Busy, Logged, Logging
<1>4. LogOK(d, working')
  BY <1>3 DEF LogOK
<1>5. TrailKept(c, data, working)
  BY <1>2 DEF TrailInv
<1>6. TrailKept(d, data, working')
  <2>1. /\ \A i : Audit(i) \in DOMAIN data =>
               Audit(i) \in DOMAIN working /\ working[Audit(i)] = data[Audit(i)]
        /\ \A i : Audit(i) \in DOMAIN working =>
               Audit(i) \in DOMAIN data \/ (Logged(c) /\ i = c.id)
    BY <1>5, TrailKeys
  <2>2. PICK w : w = working'
    OBVIOUS
  <2>3. /\ \A i : Audit(i) \in DOMAIN data =>
               Audit(i) \in DOMAIN w /\ w[Audit(i)] = data[Audit(i)]
        /\ \A i : Audit(i) \in DOMAIN w =>
               Audit(i) \in DOMAIN data \/ (Logged(d) /\ i = d.id)
    BY <1>3, <2>1, <2>2
  <2>4. TrailKept(d, data, w)
    BY <2>3, TrailKeys
  <2> QED
    BY <2>2, <2>4
<1>7. ~Finished(d)
  BY DEF Finished
<1>8. TrailKept(d, data', working')
  BY <1>6
<1> QED
  BY <1>2, <1>3, <1>4, <1>7, <1>8 DEF TrailOf

(* AUDIT_LOG's WRITE finds no record under its task's number.                 *)
LEMMA NumberFree ==
    ASSUME BankRegion, TrailInv, restarts = 0, NEW t \in Threads, t \in lock,
           Busy(task[t]), ~Logged(task[t])
    PROVE  Audit(task[t].id) \notin DOMAIN working
<1>1. TrailKept(task[t], data, working) /\ NumbersApart
  BY DEF TrailInv
<1>2. Audit(task[t].id) \notin DOMAIN data
  BY <1>1, AuditsKeys DEF NumbersApart
<1> QED
  BY <1>1, <1>2, TrailKeys

(* The WRITE of AUDIT_LOG.                                                    *)
LEMMA LogTrail ==
    ASSUME BankRegion, RInv, LedgerInv, TrailInv, restarts = 0, NEW t \in Threads,
           NEW c, c = task[t], NEW s, s = Last(c.stack), c.phase = "run", Runs(c, s),
           IsState(s), ~Origin(c), NEW x, Does(s, x), x.op \in {"WRITE", "REWRITE", "DELETE"},
           NEW r, r = Executed(x), working' = r.w, NEW resp, resp = r.resp,
           NEW e, IsCall(e), Same(e, c), e.stack = c.stack,
           NEW d, d = Respond(e, resp), Update(t, d),
           UNCHANGED <<data, lock, next_task, restarts>>
    PROVE  TrailOf(t, d)
<1>1. /\ s.program = "AUDIT_LOG" /\ c.request.program = "TRANSFER" /\ c.stack = <<s>>
      /\ s.id = c.id /\ s.req = c.request.commarea
  BY LoggingProgram DEF Runs
<1>2. /\ s.cond = "NORMAL" /\ s.at = 1 /\ x.op = "WRITE" /\ x.file = "AUDIT"
      /\ x.key = <<s.id>> /\ x.data = s.req
  BY <1>1, WritingSteps
<1>3. t \in lock
  BY DEF Runs, RInv, StoreOK
<1>4. Busy(c) /\ ~Logged(c) /\ Logging(c)
  BY <1>2 DEF Busy, Logged, Logging
<1>5. Audit(c.id) \notin DOMAIN working
  BY <1>3, <1>4, NumberFree
<1>6. PICK j, v, w, k : j = c.id /\ v = s.req /\ w = r.w /\ k = Audit(j)
  OBVIOUS
<1>7. k = storage_key(fct.files[x.file], x.key)
  BY <1>1, <1>2, <1>6 DEF Audit
<1>8. resp.cond = "NORMAL" /\ w = Assign(working, k, v)
  <2>1. r = exec_write(working, fct, x.file, x.key, x.data)
    BY <1>2 DEF Executed
  <2>2. x.file \in DOMAIN fct.files
    BY <1>2, DemoFiles DEF FilesApart
  <2>3. r = Stored(working, k, x.data)
    BY <1>5, <1>6, <1>7, <2>1, <2>2 DEF exec_write, resolves
  <2> QED
    BY <1>2, <1>6, <2>3 DEF Stored, Normal
<1>9. /\ Audit(j) \in DOMAIN w /\ w[Audit(j)] = v
      /\ \A i : i # j =>
             /\ Audit(i) \in DOMAIN w <=> Audit(i) \in DOMAIN working
             /\ Audit(i) \in DOMAIN working => w[Audit(i)] = working[Audit(i)]
  BY <1>6, <1>8, AuditExtends
<1>10. PICK n, a : a = resp /\ n = Learn(s, a)
  OBVIOUS
<1>11. n.at = 2 /\ n.cond = "NORMAL"
  <2>1. a.cond = "NORMAL"
    BY <1>8, <1>10
  <2>2. n.at = s.at + 1 /\ n.cond = s.cond
    BY <1>10, <2>1, LearnNormal
  <2> QED
    BY <1>2, <2>2
<1>12. Same(d, e) /\ d.phase = "run" /\ d.stack = <<n>>
  <2>1. /\ Same(d, e) /\ d.phase = "run"
        /\ d.stack = Append(Front(e.stack), Learn(Last(e.stack), resp))
    BY AnsweredCall
  <2>2. Front(e.stack) = <<>>
    <3>1. e.stack = <<s>>
      BY <1>1
    <3>2. Front(<<s>>) = <<>>
      BY Stacks, Zenon
    <3> QED
      BY <3>1, <3>2, Zenon
  <2>3. d.stack = Append(<<>>, n)
    BY <1>10, <2>1, <2>2
  <2> QED
    BY <2>1, <2>3
<1>13. Same(d, c) /\ Last(d.stack) = n
  BY <1>12, Stacks DEF Same
<1>14. ~Origin(d) /\ d.id = j /\ d.request = c.request /\ Busy(d) /\ Logged(d) /\ Logging(d)
  BY <1>6, <1>11, <1>12, <1>13 DEF Origin, Same, Busy, Logged, Logging
<1>15. LogOK(d, w)
  BY <1>1, <1>6, <1>9, <1>11, <1>12, <1>13, <1>14 DEF LogOK, Recorded
<1>16. TrailKept(d, data, w)
  <2>1. TrailKept(c, data, working)
    BY <1>3 DEF TrailInv
  <2>2. /\ \A i : Audit(i) \in DOMAIN data =>
               Audit(i) \in DOMAIN working /\ working[Audit(i)] = data[Audit(i)]
        /\ \A i : Audit(i) \in DOMAIN working =>
               Audit(i) \in DOMAIN data \/ (Logged(c) /\ i = c.id)
    BY <2>1, TrailKeys
  <2>3. /\ \A i : Audit(i) \in DOMAIN data =>
               Audit(i) \in DOMAIN w /\ w[Audit(i)] = data[Audit(i)]
        /\ \A i : Audit(i) \in DOMAIN w =>
               Audit(i) \in DOMAIN data \/ (Logged(d) /\ i = d.id)
    BY <1>4, <1>5, <1>6, <1>9, <1>14, <2>2
  <2> QED
    BY <2>3, TrailKeys
<1>17. ~Finished(d)
  BY <1>12 DEF Finished
<1>18. LogOK(d, working') /\ TrailKept(d, data', working')
  BY <1>6, <1>15, <1>16
<1> QED
  BY <1>3, <1>4, <1>6, <1>14, <1>17, <1>18 DEF TrailOf

(* READ, BROWSE, WRITE and REWRITE.                                           *)
LEMMA FileTrail ==
    ASSUME BankRegion, RInv, LedgerInv, TrailInv, restarts = 0, NEW t \in Threads, NEW x,
           ExecRead(t, x) \/ ExecBrowse(t, x) \/ Change(t, x)
    PROVE  \E d : TrailOf(t, d)
<1>1. PICK c, s, e : c = task[t] /\ s = Last(c.stack) /\ e = [c EXCEPT !.commands = @ + 1]
  OBVIOUS
<1>2. c.phase = "run" /\ x \in Issue(s) /\ e = Counted(t)
  BY <1>1 DEF ExecRead, ExecBrowse, Change, Issues, Counted
<1>3. BankCall(c, working) /\ IsCall(c)
  BY <1>1 DEF LedgerInv, RInv, CallOK, CallTyped
<1>4. Runs(c, s) /\ ProgramOK(s, working) /\ IsState(s)
  BY <1>1, <1>2, <1>3, RunningProgram DEF ProgramOK
<1>5. Does(s, x)
  BY <1>2, <1>4, CommandDoes
<1>6. IsCall(e) /\ Same(e, c) /\ e.stack = c.stack
  BY <1>1, <1>3 DEF IsCall, Same
<1>7. UNCHANGED <<data, lock, next_task, restarts>>
  BY DEF ExecRead, ExecBrowse, Change, Stay, Issues
<1>8. ASSUME NEW resp, NEW d, d = Respond(e, resp), Update(t, d)
      PROVE  Same(d, c) /\ d.phase \in {"run", "end"}
  <2>1. Same(d, e) /\ d.phase = "run"
    BY <1>6, <1>8, AnsweredCall
  <2> QED
    BY <1>6, <2>1 DEF Same
<1>9. CASE ExecRead(t, x) \/ ExecBrowse(t, x)
  <2>1. Origin(c)
    <3>1. x.op \in {"READ", "BROWSE"}
      BY <1>9 DEF ExecRead, ExecBrowse, Issues
    <3>2. s.program # "AUDIT_LOG"
      BY <1>5, <3>1 DEF Does, ABEND, Store, Read, Invoke, RETURN
    <3> QED
      BY <1>4, <3>2, LoggingProgram
  <2>2. PICK resp : Update(t, Respond(e, resp))
    BY <1>2, <1>9 DEF ExecRead, ExecBrowse
  <2>3. PICK d : d = Respond(e, resp) /\ Update(t, d)
    BY <2>2
  <2>4. Same(d, c) /\ d.phase \in {"run", "end"}
    BY <1>8, <2>3
  <2>5. working' = working
    BY <1>9 DEF ExecRead, ExecBrowse, Stay
  <2>6. TrailOf(t, d)
    BY <1>1, <1>2, <1>7, <2>1, <2>3, <2>4, <2>5, QuietTrail
  <2> QED
    BY <2>6
<1>10. CASE Change(t, x)
  <2>1. PICK r : r = Executed(x) /\ working' = r.w /\ Update(t, Respond(e, r.resp))
    BY <1>2, <1>10 DEF Change
  <2>2. PICK d, resp : resp = r.resp /\ d = Respond(e, resp) /\ Update(t, d)
    BY <2>1
  <2>3. x.op \in {"WRITE", "REWRITE", "DELETE"}
    BY <1>10 DEF Change, Issues
  <2>4. CASE ~Origin(c)
    <3>1. TrailOf(t, d)
      BY <1>1, <1>2, <1>4, <1>5, <1>6, <1>7, <2>1, <2>2, <2>3, <2>4, LogTrail
    <3> QED
      BY <3>1
  <2>5. CASE Origin(c)
    <3>1. s.program # "AUDIT_LOG"
      BY <1>4, <2>5, LoggingProgram
    <3>2. x.op \in {"WRITE", "REWRITE"} /\ x.file = "ACCOUNTS" /\ x.key \in Named
      <4>1. s.program \in {"DEBIT", "CREDIT"} => s.req.from \in Named /\ s.req.to \in Named
        BY <1>4, ProgramRequest
      <4>2. ALICE \in Named /\ BOB \in Named
        BY KeysApart
      <4> QED
        BY <1>5, <2>3, <3>1, <4>1, <4>2, WritingSteps
    <3>3. x.file \in DOMAIN fct.files
      BY <3>2, DemoFiles DEF FilesApart
    <3>4. PICK acct, v, w : acct = x.key /\ v = x.data /\ w = r.w
      OBVIOUS
    <3>5. w = working \/ w = Assign(working, Account(acct), v)
      BY <2>1, <3>2, <3>3, <3>4, StoredRecord DEF Account
    <3>6. \A i : /\ Audit(i) \in DOMAIN w <=> Audit(i) \in DOMAIN working
                 /\ Audit(i) \in DOMAIN working => w[Audit(i)] = working[Audit(i)]
      BY <3>2, <3>4, <3>5, AccountKeepsTrail
    <3>7. \A i : /\ Audit(i) \in DOMAIN working' <=> Audit(i) \in DOMAIN working
                 /\ Audit(i) \in DOMAIN working => working'[Audit(i)] = working[Audit(i)]
      BY <2>1, <3>4, <3>6
    <3>8. Same(d, c) /\ d.phase \in {"run", "end"}
      BY <1>8, <2>2
    <3>9. TrailOf(t, d)
      BY <1>1, <1>2, <1>7, <2>2, <2>5, <3>7, <3>8, QuietTrail
    <3> QED
      BY <3>9
  <2> QED
    BY <2>4, <2>5
<1> QED
  BY <1>9, <1>10

(* LINK, XCTL, START, RETURN and ABEND.                                       *)
LEMMA ProgramTrail ==
    ASSUME BankRegion, RInv, LedgerInv, TrailInv, restarts = 0, NEW t \in Threads, NEW x,
           Link(t, x) \/ Xctl(t, x) \/ Start(t, x) \/ Leave(t, x)
    PROVE  \E d : TrailOf(t, d)
<1>1. PICK c, s, e : c = task[t] /\ s = Last(c.stack) /\ e = [c EXCEPT !.commands = @ + 1]
  OBVIOUS
<1>2. c.phase = "run" /\ x \in Issue(s) /\ e = Counted(t)
  BY <1>1 DEF Link, Xctl, Start, Leave, Issues, Counted
<1>3. BankCall(c, working) /\ IsCall(c)
  BY <1>1 DEF LedgerInv, RInv, CallOK, CallTyped
<1>4. Runs(c, s) /\ ProgramOK(s, working)
  BY <1>1, <1>2, <1>3, RunningProgram
<1>5. Does(s, x)
  BY <1>2, <1>4, CommandDoes
<1>6. UNCHANGED <<data, lock, working, next_task, restarts>>
  BY DEF Link, Xctl, Start, Leave, Stay, Issues
<1>7. ASSUME NEW d, Update(t, d), Same(d, c), d.phase \in {"run", "end"}, Origin(c)
      PROVE  TrailOf(t, d)
  BY <1>1, <1>2, <1>6, <1>7, QuietTrail
<1>8. CASE Link(t, x) \/ Xctl(t, x) \/ Start(t, x)
  <2>1. x.op \in {"LINK", "XCTL", "START"}
    BY <1>8 DEF Link, Xctl, Start, Issues
  <2>2. s.program = "TRANSFER"
    BY <1>5, <2>1 DEF Does, ABEND, Store, Read, Invoke, RETURN
  <2>3. Origin(c)
    BY <1>4, <2>2, TransferRuns
  <2>4. PICK d, p, a : /\ Update(t, d)
                       /\ d = link(e, p, a) \/ d = xctl(e, p, a) \/ d = start(e, p, a)
    BY <1>2, <1>8 DEF Link, Xctl, Start
  <2>5. IsCall(e) /\ Same(e, c)
    BY <1>1, <1>3 DEF IsCall, Same
  <2>6. Same(d, e) /\ d.phase \in {"run", "end"}
    BY <2>4, <2>5, ProgramSame
  <2>7. Same(d, c)
    BY <2>5, <2>6 DEF Same
  <2> QED
    BY <1>7, <2>3, <2>4, <2>6, <2>7
<1>9. CASE Leave(t, x)
  <2>1. PICK resp, f : /\ resp = IF x.op = "RETURN" THEN Normal(x.commarea)
                                 ELSE Condition(x.cond)
                       /\ f = [c EXCEPT !.stack = Front(@)]
    OBVIOUS
  <2>2. PICK d : d = Returned(f, resp) /\ Update(t, d)
    BY <1>1, <1>9, <2>1 DEF Leave
  <2>3. x.op \in {"RETURN", "ABEND"}
    BY <1>9 DEF Leave, Issues
  <2>4. IsCall(f) /\ Same(f, c)
    BY <1>3, <2>1 DEF IsCall, Same
  <2>5. Same(d, f) /\ d.phase \in {"run", "end"}
    BY <2>2, <2>4, ReturnedSame
  <2>6. Same(d, c)
    BY <2>4, <2>5 DEF Same
  <2>7. CASE Origin(c)
    BY <1>7, <2>2, <2>5, <2>6, <2>7
  <2>8. CASE ~Origin(c)
    <3>1. s.program = "AUDIT_LOG" /\ c.stack = <<s>> /\ SingleOK(c, s)
      BY <1>4, <2>8, LoggingProgram
    <3>2. d.phase = "end" /\ d.outcome = resp
      BY <1>3, <1>4, <1>5, <2>1, <2>2, <2>3, <3>1, LastLeaves
    <3>3. LogOK(c, working)
      BY <1>1 DEF TrailInv
    <3>4. s.cond = "NORMAL"
      BY <1>1, <1>2, <2>8, <3>3 DEF LogOK, Logging
    <3>5. s.at = 2 /\ x.op = "RETURN"
      BY <1>5, <2>3, <3>1, <3>4 DEF Does, ABEND, Store, Read, Invoke, RETURN
    <3>6. Logged(c) /\ Recorded(c, working) /\ Busy(c)
      BY <1>1, <1>2, <2>8, <3>3, <3>5 DEF Logged, Logging, LogOK, Busy
    <3>7. d.outcome.cond = "NORMAL"
      BY <2>1, <3>2, <3>5 DEF Normal
    <3>8. d.id = c.id /\ d.request = c.request /\ Logged(d)
      BY <2>6, <2>8, <3>2 DEF Same, Logged, Logging, Origin
    <3>9. LogOK(d, working)
      BY <3>2, <3>6, <3>7, <3>8 DEF LogOK, Recorded
    <3>10. t \in lock
      BY <1>1, <1>4 DEF Runs, RInv, StoreOK
    <3>11. TrailKept(c, data, working)
      BY <1>1, <3>10 DEF TrailInv
    <3>12. TrailKept(d, data, working)
      BY <3>8, <3>11 DEF TrailKept
    <3>13. ~Finished(d)
      BY <3>2 DEF Finished
    <3>14. LogOK(d, working') /\ TrailKept(d, data', working')
      BY <1>6, <3>9, <3>12
    <3>15. TrailOf(t, d)
      BY <1>1, <1>6, <2>2, <3>6, <3>8, <3>13, <3>14 DEF TrailOf
    <3> QED
      BY <3>15
  <2> QED
    BY <2>7, <2>8
<1> QED
  BY <1>8, <1>9

(* The trail and the number of a call that is not in a task.                  *)
LEMMA RestingTrail ==
    ASSUME NEW d, d.phase \in {"idle", "dispatch", "begin"}, NEW w
    PROVE  LogOK(d, w) /\ (d.phase # "begin" => ~Busy(d))
BY DEF LogOK, Logging, Logged, Busy

(* The loop of start_task, but for the end of a task.                         *)
LEMMA CallTrail ==
    ASSUME BankRegion, RInv, LedgerInv, TrailInv, restarts = 0, NEW t \in Threads,
           \/ \E request \in Requests : Call(t, request)
           \/ Dispatch(t) \/ BeginTask(t) \/ Return(t)
    PROVE  \E d : TrailOf(t, d)
<1>1. PICK c : c = task[t]
  OBVIOUS
<1>2. BankCall(c, working) /\ CallOK(c) /\ IsCall(c)
  BY <1>1 DEF LedgerInv, RInv, CallOK, CallTyped
<1>3. ASSUME c.phase \in {"idle", "dispatch", "begin"}, ~c.external
      PROVE  t \notin lock
  <2>1. ~c.txn
    BY <1>2, <1>3 DEF CallOK, TxnOK
  <2> QED
    BY <1>1, <2>1 DEF RInv, StoreOK
<1>4. ASSUME NEW request \in Requests, Call(t, request)
      PROVE  \E d : TrailOf(t, d)
  <2>1. PICK n : n = c.calls + 1
    OBVIOUS
  <2>2. PICK d : /\ Update(t, d)
                 /\ d = [Idle EXCEPT !.phase = "dispatch", !.queue = <<request>>,
                              !.request = request, !.calls = n, !.started = 1]
    BY <1>1, <1>4, <2>1 DEF Call
  <2>3. d.phase = "dispatch" /\ d.queue # <<>>
    BY <2>2 DEF Idle
  <2>4. ~Finished(d) /\ LogOK(d, working) /\ ~Busy(d)
    BY <2>3, RestingTrail DEF Finished
  <2>5. t \notin lock
    BY <1>1, <1>3, <1>4 DEF Call
  <2>6. UNCHANGED <<data, lock, working, next_task, restarts>>
    BY <1>4 DEF Call, Stay
  <2>7. TrailOf(t, d)
    BY <2>2, <2>4, <2>5, <2>6 DEF TrailOf
  <2> QED
    BY <2>7
<1>5. CASE Dispatch(t)
  <2>1. PICK n : n = next_task
    OBVIOUS
  <2>2. PICK d : Update(t, d) /\ d = [c EXCEPT !.phase = "begin", !.id = n, !.ran = @ + 1]
    BY <1>1, <1>5, <2>1 DEF Dispatch
  <2>3. d.phase = "begin" /\ d.id = next_task
    BY <1>2, <2>1, <2>2 DEF IsCall
  <2>4. ~Finished(d) /\ LogOK(d, working)
    BY <2>3, RestingTrail DEF Finished
  <2>5. t \notin lock
    BY <1>1, <1>2, <1>3, <1>5 DEF Dispatch, BankCall
  <2>6. UNCHANGED <<data, lock, working, restarts>> /\ next_task' = next_task + 1
    BY <1>5 DEF Dispatch, Stay, NextTaskId
  <2>7. TrailOf(t, d)
    BY <2>2, <2>3, <2>4, <2>5, <2>6 DEF TrailOf
  <2> QED
    BY <2>7
<1>6. CASE Return(t)
  <2>1. PICK a, d : a = c.result /\ d = Reply(c, a) /\ Update(t, d)
    BY <1>1, <1>6 DEF Return
  <2>2. /\ d.phase = "idle" /\ d.answer = c.result
        /\ d.id = c.id /\ d.request = c.request
    BY <1>2, <2>1 DEF Reply, IsCall
  <2>3. c.phase = "dispatch" /\ c.queue = <<>>
    BY <1>1, <1>6 DEF Return
  <2>4. ~Origin(c)
    BY <1>2, <2>3 DEF BankCall, WaitsOK
  <2>5. Finished(d) => Finished(c)
    BY <2>2, <2>3, <2>4 DEF Finished
  <2>6. Finished(c) => Recorded(c, data)
    BY <1>1 DEF TrailInv
  <2>7. Finished(d) => Recorded(d, data)
    BY <2>2, <2>5, <2>6 DEF Recorded
  <2>8. LogOK(d, working) /\ ~Busy(d)
    BY <2>2, RestingTrail
  <2>9. t \notin lock
    BY <1>2, <1>3, <2>3 DEF BankCall
  <2>10. UNCHANGED <<data, lock, working, next_task, restarts>>
    BY <1>6 DEF Return, Stay
  <2>11. TrailOf(t, d)
    BY <2>1, <2>7, <2>8, <2>9, <2>10 DEF TrailOf
  <2> QED
    BY <2>11
<1>7. CASE BeginTask(t)
  <2>1. PICK q : q = Head(c.queue)
    OBVIOUS
  <2>2. PICK e : e = [c EXCEPT !.queue = Tail(@), !.txn = TRUE]
    OBVIOUS
  <2>3. PICK d : Update(t, d) /\ d = Run(e, q.program, q.commarea)
    BY <1>1, <1>7, <2>1, <2>2 DEF BeginTask
  <2>4. /\ c.phase = "begin" /\ lock = {} /\ lock' = {t}
        /\ UNCHANGED <<data, next_task, restarts>>
    BY <1>1, <1>7 DEF BeginTask, begin_write
  <2>5. working' = data
    BY <1>7 DEF BeginTask, begin_write
  <2>6. IsCall(e) /\ e.id = c.id /\ e.stack = <<>>
    BY <1>2, <2>2, <2>4 DEF IsCall, CallOK, PhaseOK
  <2>7. /\ q.program \in BankPrograms
    <3>1. c.queue # <<>>
      BY <1>2, <2>4 DEF CallOK, PhaseOK
    <3>2. WaitsOK(c) /\ c.request \in Requests
      BY <1>2, <2>4 DEF BankCall
    <3>3. q = c.request \/ q = AuditOf(c.request)
      BY <2>1, <3>1, <3>2 DEF WaitsOK
    <3> QED
      BY <3>2, <3>3, RequestParts DEF AuditOf, BankPrograms
  <2>8. PICK n, program, req, eib : /\ program = q.program /\ req = q.commarea
                                    /\ eib = Eib(e) /\ n = Enter(program, req, eib)
    OBVIOUS
  <2>9. Same(d, e) /\ d.phase = "run" /\ d.stack = Append(e.stack, n)
    BY <2>3, <2>6, <2>7, <2>8, RunEntered
  <2>10. n.at = 1 /\ n.cond = "NORMAL"
    BY <2>8, EnteredProgram
  <2>11. d.id = c.id /\ Last(d.stack) = n
    <3>1. d.stack = <<n>>
      BY <2>6, <2>9
    <3> QED
      BY <2>6, <2>9, <3>1, Stacks DEF Same
  <2>12. ~Logged(d) /\ LogOK(d, data) /\ ~Finished(d)
    BY <2>9, <2>10, <2>11 DEF Logged, LogOK, Finished
  <2>13. TrailKept(d, data, data)
    <3>1. \A i \in Audits(data) : Audit(i) \in DOMAIN data
      BY AuditsKeys
    <3> QED
      BY <3>1 DEF TrailKept
  <2>14. LogOK(d, working') /\ TrailKept(d, data', working')
    BY <2>4, <2>5, <2>12, <2>13
  <2>15. Busy(c)
    BY <2>4 DEF Busy
  <2>16. TrailOf(t, d)
    BY <1>1, <2>3, <2>4, <2>11, <2>12, <2>14, <2>15 DEF TrailOf
  <2> QED
    BY <2>16
<1> QED
  BY <1>4, <1>5, <1>6, <1>7

(* The end of a task: the record of a transfer is committed with the task     *)
(* that logs it, and that task never ABENDs.                                  *)
LEMMA EndTrail ==
    ASSUME BankRegion, RInv, LedgerInv, TrailInv, restarts = 0, NEW t \in Threads,
           EndNormal(t) \/ EndAbend(t)
    PROVE  \E d : TrailOf(t, d)
<1>1. PICK c : c = task[t]
  OBVIOUS
<1>2. BankCall(c, working) /\ CallOK(c) /\ IsCall(c)
  BY <1>1 DEF LedgerInv, RInv, CallOK, CallTyped
<1>3. c.phase = "end" /\ UNCHANGED <<next_task, restarts>>
  BY <1>1 DEF EndNormal, EndAbend, TaskEnded
<1>4. c.txn /\ EndsOK(c, working) /\ Busy(c) /\ c.outcome # <<>>
  BY <1>2, <1>3 DEF BankCall, Busy, CallOK, PhaseOK
<1>5. t \in lock
  BY <1>1, <1>4 DEF RInv, StoreOK
<1>6. LogOK(c, working)
  BY <1>1 DEF TrailInv
<1>7. ASSUME NEW d, d = Ended(c)
      PROVE  /\ d.phase = "dispatch" /\ d.queue = c.queue /\ d.id = c.id
             /\ d.request = c.request /\ ~Origin(d) /\ LogOK(d, working') /\ ~Busy(d)
             /\ Origin(c) => d.result = c.outcome
             /\ ~Origin(c) => d.result = c.result
  <2>1. d = [c EXCEPT !.phase = "dispatch", !.txn = FALSE, !.outcome = <<>>,
                      !.result = IF @ = <<>> THEN c.outcome ELSE @,
                      !.first = IF c.ran = 1 THEN c.outcome ELSE @]
    BY <1>7, Zenon DEF Ended
  <2>2. /\ d.phase = "dispatch" /\ d.queue = c.queue /\ d.id = c.id
        /\ d.request = c.request
        /\ d.result = IF c.result = <<>> THEN c.outcome ELSE c.result
    BY <1>2, <2>1 DEF IsCall
  <2>3. ~Origin(d) /\ (Origin(c) => d.result = c.outcome) /\ (~Origin(c) => d.result = c.result)
    BY <1>4, <2>2 DEF Origin
  <2>4. LogOK(d, working') /\ ~Busy(d)
    BY <2>2, RestingTrail
  <2> QED
    BY <2>2, <2>3, <2>4
<1>8. ASSUME Release(t)
      PROVE  t \notin lock' /\ lock' \subseteq lock
  BY <1>8 DEF Release
<1>9. CASE EndAbend(t)
  <2>1. PICK d : d = Ended(c) /\ Update(t, d)
    BY <1>1, <1>9 DEF EndAbend
  <2>2. c.outcome.cond # "NORMAL" /\ Release(t) /\ data' = data
    BY <1>1, <1>9 DEF EndAbend, rollback
  <2>3. Origin(c)
    BY <1>3, <1>6, <2>2 DEF LogOK, Logging
  <2>4. d.phase = "dispatch" /\ d.result = c.outcome /\ LogOK(d, working') /\ ~Busy(d)
    BY <1>7, <2>1, <2>3
  <2>5. ~Finished(d)
    BY <2>2, <2>4 DEF Finished
  <2>6. TrailOf(t, d)
    BY <1>1, <1>3, <1>5, <1>8, <2>1, <2>2, <2>4, <2>5 DEF TrailOf
  <2> QED
    BY <2>6
<1>10. ASSUME commit(t), Update(t, Ended(c)), c.outcome.cond = "NORMAL"
       PROVE  \E d : TrailOf(t, d)
  <2>1. PICK d : d = Ended(c) /\ Update(t, d)
    BY <1>10
  <2>2. Release(t) /\ data' = working
    BY <1>10 DEF commit
  <2>3. /\ d.phase = "dispatch" /\ d.queue = c.queue /\ d.id = c.id
        /\ d.request = c.request /\ LogOK(d, working') /\ ~Busy(d)
    BY <1>7, <2>1
  <2>4. ASSUME Finished(d) PROVE Recorded(d, working)
    <3>1. d.queue = <<>> /\ d.request.program = "TRANSFER"
      BY <2>3, <2>4 DEF Finished
    <3>2. ~Origin(c)
      BY <1>4, <1>10, <2>3, <3>1 DEF EndsOK
    <3>3. Recorded(c, working)
      BY <1>3, <1>6, <3>2 DEF LogOK, Logged, Logging
    <3> QED
      BY <2>3, <3>3 DEF Recorded
  <2>5. Finished(d) => Recorded(d, data')
    BY <2>2, <2>4
  <2>6. TrailOf(t, d)
    BY <1>1, <1>3, <1>4, <1>5, <1>8, <2>1, <2>2, <2>3, <2>5 DEF TrailOf
  <2> QED
    BY <2>6
<1>11. ASSUME commit_fails(t), Update(t, Reply(c, Condition("Io")))
       PROVE  \E d : TrailOf(t, d)
  <2>1. PICK a, d : a = Condition("Io") /\ d = Reply(c, a) /\ Update(t, d)
    BY <1>11
  <2>2. Release(t) /\ data' = data
    BY <1>11 DEF commit_fails
  <2>3. d.phase = "idle" /\ d.answer = a /\ a.cond # "NORMAL"
    BY <1>2, <2>1, ReplyFields DEF Condition
  <2>4. LogOK(d, working') /\ ~Busy(d) /\ ~Finished(d)
    BY <2>3, RestingTrail DEF Finished
  <2>5. TrailOf(t, d)
    BY <1>1, <1>3, <1>5, <1>8, <2>1, <2>2, <2>4 DEF TrailOf
  <2> QED
    BY <2>5
<1>12. CASE EndNormal(t)
  BY <1>1, <1>4, <1>10, <1>11, <1>12 DEF EndNormal
<1> QED
  BY <1>9, <1>12

(* One step of the region keeps the trail.                                    *)
LEMMA NextTrail ==
    ASSUME BankRegion, RInv, LedgerInv, TrailInv, [Next]_vars
    PROVE  TrailInv'
<1>0. restarts \in Nat /\ next_task \in Nat
  BY RegionAssumption DEF RInv
<1>1. CASE UNCHANGED vars
  BY <1>1 DEF vars, TrailInv, NumbersApart
<1>2. CASE Restart
  <2>1. restarts' # 0
    <3>1. restarts' = restarts + 1
      BY <1>2 DEF Restart
    <3> QED
      BY <1>0, <3>1
  <2> QED
    BY <2>1 DEF TrailInv
<1>3. CASE task_count_hint
  <2>1. UNCHANGED <<data, lock, working, task, restarts>> /\ next_task' = next_task + 1
    BY <1>3 DEF task_count_hint, Stay, NextTaskId
  <2>2. NumbersApart => NumbersApart'
    BY <1>0, <2>1 DEF NumbersApart
  <2> QED
    BY <2>1, <2>2 DEF TrailInv
<1>4. ASSUME NEW t \in Threads, \/ \E request \in Requests : Call(t, request)
                                \/ Acquire(t) \/ Proceed(t)
      PROVE  TrailInv'
  <2>1. CASE restarts = 0
    <3>1. CASE (\E request \in Requests : Call(t, request)) \/ Acquire(t)
      <4>1. \E d : TrailOf(t, d)
        BY <2>1, <3>1, CallTrail, NoSyncpoint DEF Acquire
      <4> QED
        BY <2>1, <4>1, OthersTrail
    <3>2. CASE Dispatch(t) \/ EndNormal(t) \/ EndAbend(t) \/ Return(t)
      <4>1. \E d : TrailOf(t, d)
        BY <2>1, <3>2, CallTrail, EndTrail
      <4> QED
        BY <2>1, <4>1, OthersTrail
    <3>3. CASE Command(t)
      <4>1. \E d : TrailOf(t, d)
        BY <2>1, <3>3, FileTrail, ProgramTrail, NoSyncpoint DEF Command
      <4> QED
        BY <2>1, <4>1, OthersTrail
    <3> QED
      BY <1>4, <3>1, <3>2, <3>3 DEF Proceed
  <2>2. CASE restarts # 0
    <3>1. restarts' = restarts
      BY <1>4, NoSyncpoint DEF Call, Acquire, BeginTask, Resume, Proceed, Dispatch, EndNormal,
         EndAbend, Return, Command, Panic, ExecRead, ExecBrowse, Change, Link, Xctl, Start,
         Leave, Syncpoint, SyncpointRollback, Issues
    <3> QED
      BY <2>2, <3>1 DEF TrailInv
  <2> QED
    BY <2>1, <2>2
<1> QED
  BY <1>1, <1>2, <1>3, <1>4 DEF Next

(* A new region has no trail.                                                 *)
LEMMA InitTrail ==
    ASSUME BankRegion, Init
    PROVE  TrailInv
<1>1. data = NoRecords /\ lock = {} /\ task = [t \in Threads |-> Idle] /\ DOMAIN NoRecords = {}
  BY DEF Init, NewStore, NoRecords
<1>2. \A i : i \notin Audits(data)
  BY <1>1, AuditsKeys
<1>3. \A t \in Threads : task[t].phase = "idle" /\ task[t].answer = <<>>
  BY <1>1 DEF Idle
<1>4. \A t \in Threads : LogOK(task[t], working) /\ ~Busy(task[t]) /\ ~Finished(task[t])
  BY <1>3, RestingTrail DEF Finished
<1> QED
  BY <1>1, <1>2, <1>4 DEF TrailInv, NumbersApart

(* A transfer whose success the caller has learned is in the audit trail,     *)
(* until task numbers start again: no two tasks share a number, no record is  *)
(* overwritten, and no task that logs a transfer fails.                       *)
THEOREM TrailSafety == ASSUME BankRegion PROVE Spec => []TransfersAudited
<1>1. Init => RInv /\ LedgerInv /\ TrailInv
  BY InitRInv, InitLedger, InitTrail, RegionSteps
<1>2. RInv /\ LedgerInv /\ TrailInv /\ [Next]_vars => (RInv /\ LedgerInv /\ TrailInv)'
  BY NextKeeps, NextLedger, NextTrail, RegionSteps
<1>3. TrailInv => TransfersAudited
  BY DEF TrailInv, TransfersAudited, Finished, Recorded
<1> QED
  BY <1>1, <1>2, <1>3, PTL DEF Spec

===============================================================================
