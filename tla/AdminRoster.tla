---------------------------- MODULE AdminRoster ----------------------------
(***************************************************************************)
(* What the back office promises of its accounts (internal/admin), each    *)
(* operation taking effect at once: accounts are created, promoted,        *)
(* enabled and disabled, and no disable takes away the last active         *)
(* super_admin.                                                            *)
(***************************************************************************)
CONSTANT Accounts

VARIABLE account

Row == [level : {"admin", "super_admin"}, status : {"active", "disabled"}]
NoRow == [level |-> "none", status |-> "none"]

Init == account \in [Accounts -> Row \cup {NoRow}]

\* The active super_admins of an account table.
SupersOf(table) ==
    {a \in Accounts : table[a] = [level |-> "super_admin", status |-> "active"]}

Create(a, l) ==
    /\ account[a] = NoRow
    /\ account' = [account EXCEPT ![a] = [level |-> l, status |-> "active"]]

Promote(a) ==
    /\ account[a] # NoRow
    /\ account' = [account EXCEPT ![a].level = "super_admin"]

Enable(a) ==
    /\ account[a] # NoRow
    /\ account' = [account EXCEPT ![a].status = "active"]

Disable(a) ==
    /\ account[a] # NoRow
    /\ SupersOf(account) \ {a} # {}
    /\ account' = [account EXCEPT ![a].status = "disabled"]

Next ==
    \E a \in Accounts :
        \/ \E l \in {"admin", "super_admin"} : Create(a, l)
        \/ Promote(a) \/ Enable(a) \/ Disable(a)

Spec == Init /\ [][Next]_account
=============================================================================
