------------------------------- MODULE MCRegion --------------------------------
(* Region and Gateway with programs that may do anything, on a small instance.*)
EXTENDS Gateway

CONSTANTS P, Q, Missing    \* two defined programs, and one that is not

(* The state of such a program is its name.                                   *)
AnyEnter(program, commarea, eib) == program
AnyLearn(program, resp) == program

Key == <<1>>
Store(ops, v) == [op : ops, file : {"F"}, key : {Key}, data : {v}]
RETURN == [op |-> "RETURN", commarea |-> <<>>]
Finish == {RETURN, [op |-> "PANIC"], [op |-> "ABEND", cond |-> "InvalidRequest"]}
Invoke == [op : {"LINK", "XCTL", "START"}, program : {P}, commarea : {<<>>}]
            \cup [op : {"LINK"}, program : {Missing}, commarea : {<<>>}]

(* P does anything, Q stores a value of its own or deletes, and returns.      *)
AnyIssue(program) ==
    IF program = P
    THEN Store({"WRITE", "REWRITE"}, P) \cup Finish \cup Invoke
           \cup [op : {"SYNCPOINT", "ROLLBACK"}]
    ELSE Store({"WRITE", "DELETE"}, Q) \cup {RETURN}

AnyRequest == [program : {P, Q}, commarea : {<<>>}]
FileList == <<"F">>
===============================================================================
