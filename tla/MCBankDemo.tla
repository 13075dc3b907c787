------------------------------ MODULE MCBankDemo -------------------------------
(* The requests of the demo, a transfer the other way that depends on the     *)
(* first, and one to an account that does not exist: its CREDIT fails after   *)
(* its DEBIT.                                                                 *)
EXTENDS BankInvariant

BankRequests == {Setup, Listing, Show, transfer(ALICE, BOB, 200), transfer(BOB, ALICE, 600),
                 transfer(ALICE, BOB, 10000), transfer(ALICE, <<3>>, 100)}
ThreadSymmetry == Permutations(Threads)

(* The hypotheses of BankProofs about requests and files hold of this region. *)
ASSUME DemoRegion == DemoRequests /\ Files = BankFiles /\ Programs = BankPrograms
===============================================================================
