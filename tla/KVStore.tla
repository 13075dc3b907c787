-------------------------------- MODULE KVStore --------------------------------
(******************************************************************************)
(* What the storage engine promises its callers (storage/txn.rs): an ordered  *)
(* map with snapshots.  One write transaction at a time works on a private    *)
(* copy; commit() replaces the committed map by it at once, rollback() throws *)
(* it away; a read transaction keeps the map that was committed when it       *)
(* began, whatever happens later.  A map is a set of pairs <<key, value>>.    *)
(******************************************************************************)
CONSTANTS Readers, Keys, Values

VARIABLES
    committed,   \* the committed map
    writing,     \* a write transaction is open
    working,     \* ... and this is what it sees
    reading,     \* the readers with an open read transaction
    snapshot,    \* ... and the map each of them sees
    existed      \* delete()'s answer

vars == <<committed, writing, working, reading, snapshot, existed>>

IsMap(m) ==
    /\ m \subseteq Keys \X Values
    /\ \A e, f \in m : e[1] = f[1] => e = f

Without(m, k) == {e \in m : e[1] # k}
Update(m, k, v) == Without(m, k) \cup {<<k, v>>}

Init ==
    /\ IsMap(committed)
    /\ writing = FALSE /\ working = {}
    /\ reading = {} /\ snapshot = [r \in Readers |-> {}]
    /\ existed = FALSE

BeginRead(r) ==
    /\ r \notin reading
    /\ reading' = reading \cup {r}
    /\ snapshot' = [snapshot EXCEPT ![r] = committed]
    /\ UNCHANGED <<committed, writing, working, existed>>

DropRead(r) ==
    /\ r \in reading
    /\ reading' = reading \ {r}
    /\ snapshot' = [snapshot EXCEPT ![r] = {}]
    /\ UNCHANGED <<committed, writing, working, existed>>

BeginWrite ==
    /\ ~writing
    /\ writing' = TRUE /\ working' = committed
    /\ UNCHANGED <<committed, reading, snapshot, existed>>

Put(k, v) ==
    /\ writing /\ UNCHANGED <<writing, reading, existed>>
    /\ working' = Update(working, k, v)
    /\ UNCHANGED <<committed, snapshot>>

Delete(k) ==
    /\ writing /\ UNCHANGED <<writing, reading>>
    /\ working' = Without(working, k)
    /\ existed' = (\E e \in working : e[1] = k)
    /\ UNCHANGED <<committed, snapshot>>

Commit ==
    /\ writing
    /\ writing' = FALSE /\ working' = {} /\ existed' = FALSE
    /\ committed' = working
    /\ UNCHANGED <<reading, snapshot>>

Rollback ==
    /\ writing
    /\ writing' = FALSE /\ working' = {} /\ existed' = FALSE
    /\ UNCHANGED <<committed, reading, snapshot>>

Next ==
    \/ \E r \in Readers : BeginRead(r) \/ DropRead(r)
    \/ BeginWrite \/ Commit \/ Rollback
    \/ \E k \in Keys : Delete(k) \/ \E v \in Values : Put(k, v)

Spec == Init /\ [][Next]_vars

===============================================================================
