-------------------------------- MODULE FileSet --------------------------------
(******************************************************************************)
(* What File Control promises: every file name has records of its own, which  *)
(* outlive the region; a region can use the files that it has defined.        *)
(******************************************************************************)
EXTENDS Integers, FiniteSets

CONSTANTS
    Names,           \* file names
    Commands,        \* records [op, file, key, data, limit]
    Before(_, _)     \* the order of record keys

VARIABLES
    content,    \* content[n]: the records of file n, key -> value
    known,      \* the files defined since the region was opened
    answer      \* the last command with its condition and value

vars == <<content, known, answer>>

Answer(c, cond, v) == answer' = [command |-> c, cond |-> cond, value |-> v]
NoAnswer == [command |-> <<>>, cond |-> "NORMAL", value |-> <<>>]
Has(c) == c.file \in known /\ c.key \in DOMAIN content[c.file]
Lacks(c) == c.file \in known /\ c.key \notin DOMAIN content[c.file]

Init ==
    /\ content = [n \in Names |-> [k \in {} |-> <<>>]]
    /\ known = {} /\ answer = NoAnswer

Reopen == known' = {} /\ answer' = NoAnswer /\ UNCHANGED content
Define(n) == known' = known \cup {n} /\ answer' = NoAnswer /\ UNCHANGED content

Unknown(c) ==
    c.file \notin known /\ Answer(c, "FileNotFound", <<>>) /\ UNCHANGED content
NotFound(c) ==
    /\ c.op \in {"READ", "REWRITE", "DELETE"} /\ Lacks(c)
    /\ Answer(c, "RecordNotFound", <<>>) /\ UNCHANGED content
Duplicate(c) ==
    /\ c.op = "WRITE" /\ Has(c)
    /\ Answer(c, "DuplicateKey", <<>>) /\ UNCHANGED content

Read(c) ==
    /\ c.op = "READ" /\ Has(c)
    /\ Answer(c, "NORMAL", content[c.file][c.key]) /\ UNCHANGED content

Store(c) ==
    /\ (c.op = "WRITE" /\ Lacks(c)) \/ (c.op = "REWRITE" /\ Has(c))
    /\ Answer(c, "NORMAL", <<>>)
    /\ content' = [content EXCEPT ![c.file] =
           [k \in DOMAIN @ \cup {c.key} |-> IF k = c.key THEN c.data ELSE @[k]]]

Delete(c) ==
    /\ c.op = "DELETE" /\ Has(c) /\ Answer(c, "NORMAL", <<>>)
    /\ content' = [content EXCEPT ![c.file] = [k \in DOMAIN @ \ {c.key} |-> @[k]]]

(* The keys from the given one on, and the i-th of them in key order.         *)
KeysFrom(m, key) == {k \in DOMAIN m : ~Before(k, key)}
Nth(S, i) == CHOOSE k \in S : Cardinality({x \in S : Before(x, k)}) = i - 1

(* The first limit records from the key on, in key order.                     *)
Page(m, S, limit) ==
    [i \in {i \in 1 .. Cardinality(S) : i <= limit} |-> <<Nth(S, i), m[Nth(S, i)]>>]

Browse(c) ==
    /\ c.op = "BROWSE" /\ c.file \in known /\ UNCHANGED content
    /\ Answer(c, "NORMAL",
              Page(content[c.file], KeysFrom(content[c.file], c.key), c.limit))

Next ==
    \/ Reopen
    \/ \E n \in Names : Define(n)
    \/ /\ UNCHANGED known
       /\ \E c \in Commands :
              /\ answer'.command = c
              /\ \/ Unknown(c) \/ NotFound(c) \/ Duplicate(c)
                 \/ Read(c) \/ Store(c) \/ Delete(c) \/ Browse(c)

Spec == Init /\ [][Next]_vars

===============================================================================
