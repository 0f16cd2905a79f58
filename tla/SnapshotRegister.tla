-------------------------- MODULE SnapshotRegister --------------------------
(***************************************************************************)
(* What the bridge relies on of its action channel: a register that is     *)
(* stored into and read whole.  A read may be refused, which leaves the    *)
(* reader's snapshot alone and tells it whether it holds one at all.       *)
(* RlBridge works on this register; ActionChannel implements it.           *)
(***************************************************************************)
CONSTANTS Messages, Initial

VARIABLES stored,       \* the last message stored
          received,     \* whether there is one
          snapshot,     \* the reader's copy
          has_read,     \* whether it was ever taken
          result        \* what the last read returned

vars == <<stored, received, snapshot, has_read, result>>

Init ==
    /\ stored = Initial /\ snapshot = Initial
    /\ received = FALSE /\ has_read = FALSE /\ result = FALSE

Put(m) ==
    /\ stored' = m /\ received' = TRUE
    /\ UNCHANGED <<snapshot, has_read, result>>

Take ==
    /\ received
    /\ snapshot' = stored /\ has_read' = TRUE /\ result' = TRUE
    /\ UNCHANGED <<stored, received>>

\* The store is in progress: keep what was taken before, if anything was.
Keep ==
    /\ result' = has_read
    /\ UNCHANGED <<stored, received, snapshot, has_read>>

Nothing ==
    /\ ~received
    /\ result' = FALSE
    /\ UNCHANGED <<stored, received, snapshot, has_read>>

Next == (\E m \in Messages : Put(m)) \/ Take \/ Keep \/ Nothing

Spec == Init /\ [][Next]_vars
=============================================================================
