------------------------ MODULE ActionChannelProofs ------------------------
(***************************************************************************)
(* For any number of fields and any messages, the action channel hands out *)
(* whole messages and implements the register RlBridge is written on.      *)
(* Liveness (ExecutorNeverWaits) is left to TLC.                           *)
(***************************************************************************)
EXTENDS ActionChannel, TLAPS

LEMMA InitMutexInv == Init => MutexInv
BY ChannelAssumption DEF Init, MutexInv, TypeOK, NoDataRace, NeverTorn

LEMMA NextMutexInv == MutexInv /\ [Next]_vars => MutexInv'
<1> SUFFICES ASSUME MutexInv, [Next]_vars PROVE MutexInv'
    OBVIOUS
<1> USE ChannelAssumption DEF MutexInv, TypeOK, NoDataRace, NeverTorn
<1>1. ASSUME NEW m \in Messages, StoreLock(m) PROVE MutexInv'
    BY <1>1 DEF StoreLock, Free
<1>2. ASSUME NEW f \in Fields, StoreField(f) PROVE MutexInv'
    BY <1>2 DEF StoreField
<1>3. CASE StoreUnlock
    <2>1. incoming = message
        BY <1>3 DEF StoreUnlock
    <2> QED
        BY <1>3, <2>1 DEF StoreUnlock
<1>4. CASE ReadCall
    BY <1>4 DEF ReadCall
<1>5. CASE ReadBusy
    BY <1>5 DEF ReadBusy
<1>6. CASE ReadNothing
    BY <1>6 DEF ReadNothing
<1>7. CASE ReadLock
    BY <1>7 DEF ReadLock, Free
<1>8. ASSUME NEW f \in Fields, ReadField(f) PROVE MutexInv'
    BY <1>8 DEF ReadField
<1>9. CASE ReadUnlock
    <2>1. snapshot = incoming
        BY <1>9 DEF ReadUnlock
    <2> QED
        BY <1>9, <2>1 DEF ReadUnlock
<1>10. CASE UNCHANGED vars
    BY <1>10 DEF vars
<1> QED
    BY <1>1, <1>2, <1>3, <1>4, <1>5, <1>6, <1>7, <1>8, <1>9, <1>10
    DEF Next, Callback, Executor

\* The channel's state is well typed, its two threads are never inside the mutex
\* together, and what each has copied is exactly what it is through with.
THEOREM ChannelInvariance == Spec => []MutexInv
BY InitMutexInv, NextMutexInv, PTL DEF Spec

\* Between store() and try_read() the mutex, the copies and the fields stay well typed.
THEOREM ChannelTypes == Spec => []TypeOK
<1>1. MutexInv => TypeOK
    BY DEF MutexInv
<1> QED
    BY <1>1, ChannelInvariance, PTL

\* try_read() never hands out a mixture of two messages.
THEOREM ChannelNeverTears == Spec => []NeverTorn
<1>1. MutexInv => NeverTorn
    BY DEF MutexInv
<1> QED
    BY <1>1, ChannelInvariance, PTL

----------------------------------------------------------------------------

LEMMA InitRegister == Init => Register!Init
BY DEF Init, Register!Init

LEMMA NextRegister == MutexInv /\ [Next]_vars => [Register!Next]_Register!vars
<1> SUFFICES ASSUME MutexInv, [Next]_vars PROVE [Register!Next]_Register!vars
    OBVIOUS
<1> USE ChannelAssumption DEF MutexInv, TypeOK, NoDataRace
<1>1. ASSUME NEW m \in Messages, StoreLock(m) PROVE Register!Put(m)
    BY <1>1 DEF StoreLock, Free, Register!Put
<1>2. ASSUME NEW f \in Fields, StoreField(f) PROVE UNCHANGED Register!vars
    BY <1>2 DEF StoreField, Register!vars
<1>3. CASE StoreUnlock
    <2>1. incoming = message
        BY <1>3 DEF StoreUnlock
    <2> QED
        BY <1>3, <2>1 DEF StoreUnlock, Register!vars
<1>4. CASE ReadCall
    BY <1>4 DEF ReadCall, Register!vars
<1>5. ASSUME ReadBusy PROVE Register!Keep
    BY <1>5 DEF ReadBusy, Register!Keep
<1>6. ASSUME ReadNothing PROVE Register!Nothing
    BY <1>6 DEF ReadNothing, Free, Register!Nothing
<1>7. ASSUME ReadLock PROVE Register!Take
    BY <1>7 DEF ReadLock, Free, Register!Take
<1>8. ASSUME NEW f \in Fields, ReadField(f) PROVE UNCHANGED Register!vars
    BY <1>8 DEF ReadField, Register!vars
<1>9. CASE ReadUnlock
    <2>1. snapshot = incoming
        BY <1>9 DEF ReadUnlock
    <2> QED
        BY <1>9, <2>1 DEF ReadUnlock, Register!vars
<1>10. CASE UNCHANGED vars
    BY <1>10 DEF vars, Register!vars
<1> QED
    BY <1>1, <1>2, <1>3, <1>4, <1>5, <1>6, <1>7, <1>8, <1>9, <1>10
    DEF Next, Callback, Executor, Register!Next

\* The channel implements the register that a store and a read act on atomically.
THEOREM ChannelImplementsRegister == Spec => ImplementsRegister
BY InitRegister, NextRegister, ChannelInvariance, PTL DEF Spec, ImplementsRegister
=============================================================================
