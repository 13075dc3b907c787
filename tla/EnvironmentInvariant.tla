-------------------------- MODULE EnvironmentInvariant --------------------------
(******************************************************************************)
(* The inductive invariant of Environment: why copy on write, the watermark   *)
(* and the two meta slots are together enough.  Each conjunct is named; the   *)
(* proofs are in EnvironmentProofs, and TLC checks the whole as an invariant. *)
(******************************************************************************)
EXTENDS Environment

OnePerPage(tree) == \A e, f \in tree : e[1] = f[1] => e = f

(* A meta page that some commit wrote, or NoMeta.                             *)
MetaOK(m) ==
    /\ m.txn_id <= attempt
    /\ m.txn_id = -1 => m = NoMeta
    /\ m.next_page >= META_PAGE_COUNT
    /\ Accounted(m)
    /\ OnePerPage(m.root)
    /\ \A e, f \in m.free : e[2] = f[2] => e = f
    /\ \A f \in m.free : f[1] <= m.txn_id
    /\ PagesOf(m.free_list_head) \subseteq m.chains

IMetas == /\ MetaOK(committed) /\ MetaOK(new_meta)
          /\ \A i \in Slots : MetaOK(slots[i]) /\ MetaOK(durable[i])

(* What must be down when the environment is.                                 *)
ILife ==
    /\ env = "open" => committed.txn_id >= 0
    /\ wpc # "none" => env = "open"
    /\ \A r \in Readers : rtx[r].pc # "idle" => env = "open"
    /\ env \notin {"open", "down"} =>
           \A i \in Slots : {slots[i], durable[i]} \subseteq {NoMeta, InitMeta}
    /\ env = "sync0" => slots[0] = InitMeta
    /\ env \in {"write1", "sync1"} => slots[0] = InitMeta
    /\ env = "sync1" => slots[1] = InitMeta

(* The readers list holds exactly the snapshots of the open ReadTxns.         *)
OpenAt(t) == {r \in Readers : rtx[r].pc = "open" /\ rtx[r].txn_id = t}
IBag == \A t \in TxnIds : readers[t] = Cardinality(OpenAt(t))

(* The pages the write transaction has taken from the free list or from the   *)
(* end of the file: the only ones it writes, with those of FreeChain.         *)
Taken == (FreePages(committed.free) \ FreePages(free_list))
            \cup (committed.next_page .. (next_page - 1))

OwnEntry(e) ==
    /\ e[1] \in Taken
    /\ \/ e[1] \in overlay /\ e[2] = Own("node")
       \/ e[1] \notin overlay /\ e[2] = Own("overflow") /\ file[e[1]] = e[2]

IWrite ==
    wpc # "none" =>
        /\ base_txn_id = committed.txn_id /\ committed.txn_id < attempt
        /\ free_list \subseteq committed.free
        /\ committed.next_page <= next_page
        /\ overlay \subseteq Taken
        /\ overlay \cap scratch_pool = {}
        /\ \A e \in root : e \in committed.root \/ OwnEntry(e)
        /\ OnePerPage(root)
        /\ PagesOf(root) \cup obsolete \cup scratch_pool
               = PagesOf(committed.root) \cup Taken
        /\ PagesOf(root) \cap obsolete = {}
        /\ PagesOf(root) \cap scratch_pool = {}
        /\ obsolete \cap scratch_pool = {}
        /\ scratch_pool \subseteq Taken
        /\ \A f \in committed.free \ free_list : f[1] <= reclaim_watermark

(* How far commit() has come.                                                 *)
IStage ==
    /\ wpc \in {"none", "work"} => new_meta = NoMeta
    /\ wpc \in {"written", "synced", "meta", "publish"} =>
           /\ new_meta = AdvancedMeta
           /\ \A p \in overlay : file[p] = Own("node")
           /\ \A p \in FreeChain : file[p] = Own("free")
    /\ wpc \in {"synced", "meta", "publish"} => unsynced = {}
    /\ wpc = "synced" => durable = slots
    /\ wpc = "meta" => /\ slots[1 - active] = new_meta
                       /\ durable[active] = slots[active]
    /\ wpc = "publish" => /\ durable = slots
                          /\ slots[active] = new_meta
                          /\ slots[1 - active] = committed
    /\ env = "open" /\ wpc # "publish" => slots[active] = committed

(* While no writer began in an unsettled store, every meta that a crash may   *)
(* bring back has all its pages.                                              *)
IDisk ==
    ~risky =>
        /\ \A m \in Recoverable : SurvivesPowerLoss(m)
        /\ env = "open" => Intact(committed.root)
        /\ wpc \in {"work", "written", "synced"} => Settled
        /\ wpc = "meta" => Recoverable \subseteq {committed, new_meta}
        /\ wpc = "publish" => Recoverable = {new_meta}

IAck ==
    /\ AckedDurable
    /\ env = "open" => committed = acked \/ committed.txn_id > acked.txn_id
    /\ env \notin {"open", "down"} => acked = NoMeta

(* A snapshot that was not overtaken: its pages are below the committed       *)
(* next_page, free pages among them were freed after it, and the writer in    *)
(* progress either started from it or respects it.                            *)
IReaders ==
    \A r \in Readers :
        rtx[r].pc # "idle" =>
            /\ rtx[r].txn_id <= committed.txn_id
            /\ ~rtx[r].late =>
                  /\ PagesOf(rtx[r].root)
                         \subseteq META_PAGE_COUNT .. (committed.next_page - 1)
                  /\ \A f \in committed.free :
                         f[2] \in PagesOf(rtx[r].root) => f[1] > rtx[r].txn_id
                  /\ wpc # "none" => \/ rtx[r].txn_id = base_txn_id
                                     \/ reclaim_watermark <= rtx[r].txn_id
                  /\ ~risky => Intact(rtx[r].root)

IInv == /\ TypeOK /\ IMetas /\ ILife /\ IBag /\ IWrite /\ IStage /\ IDisk
        /\ IAck /\ IReaders

===============================================================================
