--------------------------------- MODULE Files ---------------------------------
(******************************************************************************)
(* A region's files over its openings: Region::open, define_file, and the     *)
(* File Control commands of running tasks (runtime/file_control.rs).  The     *)
(* records survive; the File Control Table does not and is filled again by    *)
(* whatever order of define_file calls the program that opens it makes.       *)
(******************************************************************************)
EXTENDS FileControl

CONSTANTS
    Names, Keys, Values, Limits,
    Definitions,    \* the orders in which an opening may define files
    MaxOpenings     \* bound

ASSUME FilesAssumption ==
    /\ MaxOpenings \in Nat /\ Limits \subseteq Nat
    /\ Keys \subseteq Seq(0 .. BYTE - 1)
    /\ Definitions \subseteq Seq(Names) /\ \A d \in Definitions : Len(d) < FILE_IDS

VARIABLES
    fct,        \* FileControlTable
    defined,    \* history: the names defined since the region was opened
    records,    \* what WriteTxn shows: storage key -> value
    answer,     \* the last command and what it answered
    openings    \* number of openings so far

vars == <<fct, defined, records, answer, openings>>

Commands ==
    [op : {"READ", "DELETE"}, file : Names, key : Keys, data : {<<>>}, limit : {0}]
      \cup [op : {"WRITE", "REWRITE"}, file : Names, key : Keys, data : Values,
            limit : {0}]
      \cup [op : {"BROWSE"}, file : Names, key : Keys, data : {<<>>}, limit : Limits]

NoAnswer == [command |-> <<>>, cond |-> "NORMAL", value |-> <<>>]
Answered(c, resp) == [command |-> c, cond |-> resp.cond, value |-> resp.value]

Init ==
    /\ fct = EmptyTable /\ defined = <<>>
    /\ records = NoRecords /\ answer = NoAnswer /\ openings = 1

Reopen ==
    /\ openings < MaxOpenings /\ openings' = openings + 1
    /\ fct' = EmptyTable /\ defined' = <<>> /\ answer' = NoAnswer
    /\ UNCHANGED records

define_file(n) ==
    /\ \E d \in Definitions : IsPrefix(Append(defined, n), d)
    /\ fct' = define(fct, n) /\ defined' = Append(defined, n)
    /\ answer' = NoAnswer
    /\ UNCHANGED <<records, openings>>

Inquire(c) ==
    /\ c.op \in {"READ", "BROWSE"}
    /\ answer' = Answered(c, IF c.op = "READ"
                             THEN exec_read(records, fct, c.file, c.key)
                             ELSE exec_browse(records, fct, c.file, c.key, c.limit))
    /\ UNCHANGED <<fct, defined, records, openings>>

Changed(c) ==
    CASE c.op = "WRITE"   -> exec_write(records, fct, c.file, c.key, c.data)
      [] c.op = "REWRITE" -> exec_rewrite(records, fct, c.file, c.key, c.data)
      [] c.op = "DELETE"  -> exec_delete(records, fct, c.file, c.key)

Change(c) ==
    /\ c.op \in {"WRITE", "REWRITE", "DELETE"}
    /\ \E r \in {Changed(c)} : records' = r.w /\ answer' = Answered(c, r.resp)
    /\ UNCHANGED <<fct, defined, openings>>

Next ==
    \/ Reopen
    \/ \E n \in Names : define_file(n)
    \/ \E c \in Commands : Inquire(c) \/ Change(c)

Spec == Init /\ [][Next]_vars

-------------------------------------------------------------------------------
(* Properties.                                                                *)

(* The id a name gets when it is defined, in every order that defines it.     *)
IdsOf(n) == UNION {{i - 1 : i \in {j \in DOMAIN d : d[j] = n}} : d \in Definitions}

RecordsOf(id) ==
    LET own == {k \in DOMAIN records : SubSeq(k, 1, ID_BYTES) = to_be_bytes(id)}
    IN  [r \in {SubSeq(k, ID_BYTES + 1, Len(k)) : k \in own} |->
            records[to_be_bytes(id) \o r]]

(* The records of every file name.                                            *)
Contents ==
    [n \in Names |-> IF IdsOf(n) = {} THEN NoRecords
                     ELSE RecordsOf(CHOOSE id \in IdsOf(n) : TRUE)]

(* File Control implements separate, durable files over its one key space:    *)
(* every command answers and changes what it would on a map of its own per    *)
(* file name, and a browse returns that file's records from the start key on, *)
(* in order - across openings, for record keys of any length, as long as      *)
(* every opening gives a name the same id.                                    *)
OwnMaps == INSTANCE FileSet WITH
    content <- Contents,
    known   <- DOMAIN fct.files,
    Before  <- Less
ImplementsFileSet == OwnMaps!Spec

===============================================================================
