--------------------------- MODULE ActionChannel ---------------------------
(***************************************************************************)
(* The action channel (src/rl_bridge/action_channel.cpp): the ROS thread   *)
(* stores a message under a mutex, the executor thread copies it out with  *)
(* try_lock().  Both copy field by field, an element of the action vector  *)
(* being a field, in an order the lock makes irrelevant.                   *)
(***************************************************************************)
CONSTANTS Fields, Values,     \* of a message
          Messages, Initial   \* those stored; incoming_ and the snapshot before any

ASSUME ChannelAssumption == Messages \cup {Initial} \subseteq [Fields -> Values]

VARIABLES
    writer,     \* the ROS thread: "idle", or "storing" with the mutex
    message,    \* the message it stores
    unstored,   \* the fields it has yet to copy
    reader,     \* the executor thread: "idle", "calling" try_read(), "copying" with the mutex
    uncopied,   \* the fields it has yet to copy
    incoming, received, has_read,   \* incoming_, received_, has_read_
    snapshot,   \* the caller's snapshot
    result      \* what the last try_read() returned

vars == <<writer, message, unstored, reader, uncopied, incoming, received, has_read,
          snapshot, result>>

\* Seeded faults: a channel that was not resized, a mutex the reader does not take, a
\* try_read() that claims to have something, and one that waits.
InitUnsized ==
    /\ writer = "idle" /\ message = Initial /\ unstored = {}
    /\ reader = "idle" /\ uncopied = {}
    /\ incoming = <<>> /\ received = FALSE /\ has_read = FALSE
    /\ snapshot = Initial /\ result = FALSE
FreeOfReaders == reader # "copying"
BusyWithSomething ==
    /\ reader = "calling" /\ reader' = "idle" /\ result' = TRUE
    /\ UNCHANGED <<writer, message, unstored, uncopied, incoming, received, has_read, snapshot>>
BusyUntilFree ==
    /\ reader = "calling" /\ writer = "idle" /\ reader' = "idle" /\ result' = has_read
    /\ UNCHANGED <<writer, message, unstored, uncopied, incoming, received, has_read, snapshot>>

Init ==
    /\ writer = "idle" /\ message = Initial /\ unstored = {}
    /\ reader = "idle" /\ uncopied = {}
    /\ incoming = Initial /\ received = FALSE /\ has_read = FALSE
    /\ snapshot = Initial /\ result = FALSE

----------------------------------------------------------------------------

Free == writer = "idle" /\ reader # "copying"

(* store() *)
StoreLock(m) ==
    /\ writer = "idle" /\ Free
    /\ writer' = "storing" /\ message' = m /\ unstored' = Fields
    /\ UNCHANGED <<reader, uncopied, incoming, received, has_read, snapshot, result>>

StoreField(f) ==
    /\ writer = "storing" /\ f \in unstored
    /\ incoming' = [incoming EXCEPT ![f] = message[f]]
    /\ unstored' = unstored \ {f}
    /\ UNCHANGED <<writer, message, reader, uncopied, received, has_read, snapshot, result>>

StoreUnlock ==
    /\ writer = "storing" /\ unstored = {}
    /\ received' = TRUE /\ writer' = "idle"
    /\ UNCHANGED <<message, unstored, reader, uncopied, incoming, has_read, snapshot, result>>

(* try_read() *)
ReadCall ==
    /\ reader = "idle" /\ reader' = "calling"
    /\ UNCHANGED <<writer, message, unstored, uncopied, incoming, received, has_read, snapshot,
                   result>>

\* try_lock() fails while the mutex is held, and may fail when it is not.
ReadBusy ==
    /\ reader = "calling" /\ reader' = "idle"
    /\ result' = has_read
    /\ UNCHANGED <<writer, message, unstored, uncopied, incoming, received, has_read, snapshot>>

ReadNothing ==
    /\ reader = "calling" /\ Free /\ ~received
    /\ reader' = "idle" /\ result' = FALSE
    /\ UNCHANGED <<writer, message, unstored, uncopied, incoming, received, has_read, snapshot>>

ReadLock ==
    /\ reader = "calling" /\ Free /\ received
    /\ reader' = "copying" /\ uncopied' = Fields
    /\ UNCHANGED <<writer, message, unstored, incoming, received, has_read, snapshot, result>>

ReadField(f) ==
    /\ reader = "copying" /\ f \in uncopied
    /\ snapshot' = [snapshot EXCEPT ![f] = incoming[f]]
    /\ uncopied' = uncopied \ {f}
    /\ UNCHANGED <<writer, message, unstored, reader, incoming, received, has_read, result>>

ReadUnlock ==
    /\ reader = "copying" /\ uncopied = {}
    /\ has_read' = TRUE /\ result' = TRUE /\ reader' = "idle"
    /\ UNCHANGED <<writer, message, unstored, uncopied, incoming, received, snapshot>>

Callback == \/ \E m \in Messages : StoreLock(m)
            \/ \E f \in Fields : StoreField(f)
            \/ StoreUnlock

Executor == \/ ReadCall \/ ReadBusy \/ ReadNothing \/ ReadLock
            \/ \E f \in Fields : ReadField(f)
            \/ ReadUnlock

Next == Callback \/ Executor

\* The executor keeps running its loop; nothing is assumed of the ROS thread,
\* which may be descheduled with the mutex in its hands.
Spec == Init /\ [][Next]_vars /\ WF_vars(Executor)

----------------------------------------------------------------------------
(* Properties. *)

TypeOK ==
    /\ writer \in {"idle", "storing"} /\ reader \in {"idle", "calling", "copying"}
    /\ message \in Messages \cup {Initial}
    /\ unstored \subseteq Fields /\ uncopied \subseteq Fields
    /\ incoming \in [Fields -> Values] /\ snapshot \in [Fields -> Values]
    /\ received \in BOOLEAN /\ has_read \in BOOLEAN /\ result \in BOOLEAN

\* The two threads never touch incoming_ at the same time, which for a vector that is
\* not atomic would be undefined behaviour (the comment of action_channel.cpp:28-29).
NoDataRace == ~(writer = "storing" /\ reader = "copying")

\* What try_read() hands out is a message as it was stored, never a mixture of two.
NeverTorn == reader # "copying" /\ has_read => snapshot \in Messages

\* The inductive invariant behind these: whoever holds the mutex has copied exactly
\* the fields it is through with, and whoever does not sees a message or nothing.
MutexInv ==
    /\ TypeOK
    /\ NoDataRace
    /\ writer = "storing" =>
        message \in Messages /\ \A f \in Fields \ unstored : incoming[f] = message[f]
    /\ reader = "copying" =>
        received /\ \A f \in Fields \ uncopied : snapshot[f] = incoming[f]
    /\ received /\ writer = "idle" => incoming \in Messages
    /\ NeverTorn

\* The channel is the register the bridge relies on: a store takes effect when it
\* gets the mutex, and so does a read.
Register == INSTANCE SnapshotRegister WITH
    stored   <- IF writer = "storing" THEN message ELSE incoming,
    received <- received \/ writer = "storing",
    snapshot <- IF reader = "copying" THEN incoming ELSE snapshot,
    has_read <- has_read \/ reader = "copying",
    result   <- result \/ reader = "copying"

ImplementsRegister == Register!Init /\ [][Register!Next]_Register!vars

\* try_read() returns whatever the ROS thread does with the mutex (the comment of
\* action_channel.cpp:28-29: the executor never waits for the callback).
ExecutorNeverWaits == reader # "idle" ~> reader = "idle"
=============================================================================
