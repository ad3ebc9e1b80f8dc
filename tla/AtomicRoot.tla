----------------------------- MODULE AtomicRoot -----------------------------
(***************************************************************************)
(* What registration promises about one configured output root, with the   *)
(* filesystem left out.  root is the tree a consumer ends up with once     *)
(* every interrupted transaction is recovered.  A transaction is open from *)
(* the moment its journal is recorded until the journal is gone; while it  *)
(* is open the root is the tree it replaces or the complete new one, never *)
(* a third.  With no transaction open nothing changes the root.  A root    *)
(* whose write was acknowledged is settled for good: no crash or power     *)
(* loss reopens that transaction.                                          *)
(***************************************************************************)
CONSTANT Trees   \* the directory trees an output root can be

VARIABLES root,   \* the tree the output root settles to
          txn,    \* the open transaction, or None
          acked   \* the last transaction was reported written

vars == <<root, txn, acked>>

None == [kind |-> "none"]
Open(old, new) == [kind |-> "open", old |-> old, new |-> new]

Init == root \in Trees /\ txn = None /\ acked = FALSE

\* The staged tree and the journal naming it are recorded.
Begin(new) ==
    /\ txn = None
    /\ txn' = Open(root, new)
    /\ acked' = FALSE
    /\ UNCHANGED root

\* Commit installs the new tree; rollback or recovery puts the old one back.
Switch ==
    /\ txn # None
    /\ root' \in {txn.old, txn.new}
    /\ UNCHANGED <<txn, acked>>

\* Commit, rollback or recovery removes the journal.
Settle ==
    /\ txn # None
    /\ txn' = None
    /\ UNCHANGED <<root, acked>>

\* The write is reported as written.
Acknowledge ==
    /\ txn = None
    /\ acked' = TRUE
    /\ UNCHANGED <<root, txn>>

\* A power loss undoes what no flush made durable: the removal of a journal,
\* and with it the installation of the tree recovery had found in place.
Reopen(old, new) ==
    /\ txn = None
    /\ ~acked
    /\ root \in {old, new}
    /\ root' \in {old, new}
    /\ txn' = Open(old, new)
    /\ UNCHANGED acked

Next ==
    \/ \E new \in Trees : Begin(new)
    \/ Switch
    \/ Settle
    \/ Acknowledge
    \/ \E old, new \in Trees : Reopen(old, new)

Spec == Init /\ [][Next]_vars
=============================================================================
