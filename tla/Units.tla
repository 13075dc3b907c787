--------------------------------- MODULE Units ---------------------------------
(******************************************************************************)
(* Units of work, as the runtime promises them: one at a time, each reads the *)
(* committed records under its own changes, and takes effect as a whole or    *)
(* not at all.                                                                *)
(******************************************************************************)
CONSTANT Threads

VARIABLES
    db,        \* committed records: key -> value
    open,      \* the thread with a unit of work in progress, as a set
    effects,   \* effects[t]: key -> <<value>> the unit stored, <<>> it deleted
    seen       \* seen[t]: what the unit reads: key -> value

vars == <<db, open, effects, seen>>

None == [k \in {} |-> <<>>]

Apply(m, e) ==
    [k \in {k \in DOMAIN m \cup DOMAIN e : k \in DOMAIN e => e[k] # <<>>} |->
        IF k \in DOMAIN e THEN e[k][1] ELSE m[k]]

Init == open = {} /\ effects = [t \in Threads |-> None]
              /\ seen = [t \in Threads |-> None]

Begin(t) ==
    /\ open = {} /\ open' = {t}
    /\ seen' = [seen EXCEPT ![t] = db]
    /\ UNCHANGED <<db, effects>>

(* One record is stored or deleted.                                           *)
Change(t) ==
    /\ t \in open
    /\ \E k \in DOMAIN effects'[t] :
           effects' = [effects EXCEPT ![t] =
               [x \in DOMAIN @ \cup {k} |-> IF x = k THEN effects'[t][k] ELSE @[x]]]
    /\ seen' = [seen EXCEPT ![t] = Apply(db, effects'[t])]
    /\ UNCHANGED <<db, open>>

End(t) ==
    /\ open = {t} /\ open' = {}
    /\ effects' = [effects EXCEPT ![t] = None]
    /\ seen' = [seen EXCEPT ![t] = None]

Commit(t) == End(t) /\ db' = Apply(db, effects[t])
Backout(t) == End(t) /\ UNCHANGED db

Next == \E t \in Threads : Begin(t) \/ Change(t) \/ Commit(t) \/ Backout(t)

Spec == Init /\ [][Next]_vars

===============================================================================
