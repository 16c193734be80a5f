---------------------------- MODULE UlockProofs ----------------------------
(***************************************************************************)
(* Proofs about Ulock for any threads, addresses, words and calls: the     *)
(* mutex discipline, that no wake-up is missed, and that the emulation     *)
(* implements the abstract compare-and-wait of module Futex.               *)
(***************************************************************************)
EXTENDS Ulock, TLAPS

\* A thread has wait arguments exactly while it is inside __ulock_wait2, and
\* only a wait whose deadline has passed can be on its way to returning ETIMEDOUT.
WaitArgs  == \A t \in Threads : (pc[t] \in Waiting) <=> (wait[t] # NoWait)
LateDue   == \A t \in Threads : pc[t] \in {"late", "timedout"} => t \in due

IInv == TypeOK /\ MutexHeld /\ WaitArgs /\ LateDue /\ NoMissedWake

\* The initial states of __ulock emulation satisfy the inductive invariant.
LEMMA InitIInv == Init => IInv
<1> SUFFICES ASSUME Init PROVE IInv
  OBVIOUS
<1>1. TypeOK
  BY UlockConstants DEF Init, F!FutexInit, TypeOK, F!Word, F!Answer, Stage
<1>2. MutexHeld
  BY UlockConstants DEF Init, MutexHeld, Holding
<1>3. WaitArgs /\ LateDue
  BY DEF Init, F!FutexInit, WaitArgs, LateDue, Waiting
<1>4. NoMissedWake
  BY DEF Init, NoMissedWake
<1> QED
  BY <1>1, <1>2, <1>3, <1>4 DEF IInv

\* Every step keeps the variables within their types.
LEMMA TypeStep == TypeOK /\ [Next]_vars => TypeOK'
<1> SUFFICES ASSUME TypeOK, [Next]_vars PROVE TypeOK'
  OBVIOUS
<1> USE UlockConstants DEF TypeOK, Stage, F!Answer, Waiting, Waking, Goto, Return, Lock, Unlock
<1>1. ASSUME NEW t \in Threads, Call(t) PROVE TypeOK'
  BY <1>1 DEF Call
<1>2. ASSUME NEW t \in Threads, Store(t) PROVE TypeOK'
  BY <1>2 DEF Store
<1>3. ASSUME NEW t \in Threads, TakeLock(t) PROVE TypeOK'
  BY <1>3 DEF TakeLock, WaitLock, LateLock, WakeLock
<1>4. ASSUME NEW t \in Threads, Proceed(t) PROVE TypeOK'
  <2>1. CASE Fast(t)
    BY <2>1 DEF Fast
  <2>2. CASE Check(t)
    BY <2>2 DEF Check
  <2>3. CASE Sleep(t) \/ TimedOut(t)
    BY <2>3 DEF Sleep, TimedOut
  <2>4. CASE Broadcast(t)
    BY <2>4 DEF Broadcast
  <2> QED
    BY <1>4, <2>1, <2>2, <2>3, <2>4 DEF Proceed
<1>5. ASSUME NEW t \in Threads, Spurious(t) \/ Deadline(t) \/ Expire(t) PROVE TypeOK'
  BY <1>5 DEF Spurious, Deadline, Expire
<1>6. CASE UNCHANGED vars
  BY <1>6 DEF vars
<1> QED
  BY <1>1, <1>2, <1>3, <1>4, <1>5, <1>6 DEF Next

\* Every step keeps the mutex with the thread whose stage holds it, and the
\* wait arguments with the threads inside the call.
LEMMA LockStep == IInv /\ [Next]_vars => MutexHeld' /\ WaitArgs' /\ LateDue'
<1> SUFFICES ASSUME IInv, [Next]_vars PROVE MutexHeld' /\ WaitArgs' /\ LateDue'
  OBVIOUS
<1> USE UlockConstants DEF IInv, TypeOK, MutexHeld, WaitArgs, LateDue, Holding, Waiting, Waking,
                           Stage, Goto, Return, Lock, Unlock
<1>1. ASSUME NEW t \in Threads, Call(t) PROVE MutexHeld' /\ WaitArgs' /\ LateDue'
  BY <1>1 DEF Call
<1>2. ASSUME NEW t \in Threads, Store(t) PROVE MutexHeld' /\ WaitArgs' /\ LateDue'
  BY <1>2 DEF Store
<1>3. ASSUME NEW t \in Threads, TakeLock(t) PROVE MutexHeld' /\ WaitArgs' /\ LateDue'
  BY <1>3 DEF TakeLock, WaitLock, LateLock, WakeLock
<1>4. ASSUME NEW t \in Threads, Proceed(t) PROVE MutexHeld' /\ WaitArgs' /\ LateDue'
  <2>1. CASE Fast(t)
    BY <2>1 DEF Fast
  <2>2. CASE Check(t)
    BY <2>2 DEF Check
  <2>3. CASE Sleep(t) \/ TimedOut(t)
    BY <2>3 DEF Sleep, TimedOut
  <2>4. CASE Broadcast(t)
    BY <2>4 DEF Broadcast
  <2> QED
    BY <1>4, <2>1, <2>2, <2>3, <2>4 DEF Proceed
<1>5. ASSUME NEW t \in Threads, Spurious(t) \/ Deadline(t) \/ Expire(t) PROVE MutexHeld' /\ WaitArgs' /\ LateDue'
  BY <1>5 DEF Spurious, Deadline, Expire
<1>6. CASE UNCHANGED vars
  BY <1>6 DEF vars
<1> QED
  BY <1>1, <1>2, <1>3, <1>4, <1>5, <1>6 DEF Next

\* Every step keeps a broadcast in prospect for a sleeper whose word differs:
\* a store announces one, and a broadcast finds nobody between test and sleep.
LEMMA WakeStep == IInv /\ [Next]_vars => NoMissedWake'
<1> SUFFICES ASSUME IInv, [Next]_vars,
                    NEW s \in Threads, (pc[s] \in {"sleep", "cond"})',
                    F!Differs(wait[s])'
             PROVE  (\E u \in Threads : pc[u] \in Waking)'
  BY DEF NoMissedWake
<1> USE DEF IInv, TypeOK, Waking, Goto
<1>1. ASSUME NEW t \in Threads, Call(t) PROVE \E u \in Threads : pc'[u] \in Waking
  <2>1. s # t /\ pc'[s] = pc[s] /\ wait'[s] = wait[s] /\ word' = word
    BY <1>1 DEF Call
  <2>2. PICK u \in Threads : pc[u] \in Waking
    BY <2>1 DEF NoMissedWake, F!Differs, F!Cur
  <2> QED
    BY <1>1, <2>2 DEF Call
<1>2. ASSUME NEW t \in Threads, Store(t) PROVE \E u \in Threads : pc'[u] \in Waking
  BY <1>2 DEF Store
<1>3. ASSUME NEW t \in Threads, TakeLock(t) PROVE \E u \in Threads : pc'[u] \in Waking
  <2>1. s # t /\ pc'[s] = pc[s] /\ wait' = wait /\ word' = word
    BY <1>3 DEF TakeLock, WaitLock, LateLock, WakeLock
  <2>2. PICK u \in Threads : pc[u] \in Waking
    BY <2>1 DEF NoMissedWake, F!Differs, F!Cur
  <2> QED
    BY <1>3, <2>2 DEF TakeLock, WaitLock, LateLock, WakeLock
<1>4. ASSUME NEW t \in Threads, Fast(t) \/ TimedOut(t)
      PROVE  \E u \in Threads : pc'[u] \in Waking
  <2>1. s # t /\ pc'[s] = pc[s] /\ wait'[s] = wait[s] /\ word' = word
    BY <1>4 DEF Fast, TimedOut, Return
  <2>2. PICK u \in Threads : pc[u] \in Waking
    BY <2>1 DEF NoMissedWake, F!Differs, F!Cur
  <2> QED
    BY <1>4, <2>2 DEF Fast, TimedOut, Return
<1>5. ASSUME NEW t \in Threads, Check(t) PROVE \E u \in Threads : pc'[u] \in Waking
  <2>1. s # t
    BY <1>5 DEF Check, Return, F!Differs, F!Cur
  <2>2. pc'[s] = pc[s] /\ wait'[s] = wait[s] /\ word' = word
    BY <1>5, <2>1 DEF Check, Return
  <2>3. PICK u \in Threads : pc[u] \in Waking
    BY <2>2 DEF NoMissedWake, F!Differs, F!Cur
  <2> QED
    BY <1>5, <2>3 DEF Check, Return
<1>6. ASSUME NEW t \in Threads, Sleep(t) \/ Spurious(t) \/ Deadline(t) \/ Expire(t)
      PROVE  \E u \in Threads : pc'[u] \in Waking
  <2>1. pc[s] \in {"sleep", "cond"} /\ wait' = wait /\ word' = word
    BY <1>6 DEF Sleep, Spurious, Deadline, Expire
  <2>2. PICK u \in Threads : pc[u] \in Waking
    BY <2>1 DEF NoMissedWake, F!Differs, F!Cur
  <2> QED
    BY <1>6, <2>2 DEF Sleep, Spurious, Deadline, Expire
<1>7. ASSUME NEW t \in Threads, Broadcast(t) PROVE \E u \in Threads : pc'[u] \in Waking
  <2>1. pc[s] = "sleep" /\ s # t
    BY <1>7 DEF Broadcast
  <2>2. mu = s /\ mu = t
    BY <1>7, <2>1 DEF Broadcast, MutexHeld, Holding
  <2> QED
    BY <2>1, <2>2
<1>8. CASE UNCHANGED vars
  BY <1>8 DEF vars, NoMissedWake, F!Differs, F!Cur
<1> QED
  BY <1>1, <1>2, <1>3, <1>4, <1>5, <1>6, <1>7, <1>8 DEF Next, Proceed

\* The conjunction is an invariant of the specification.
LEMMA InductiveInvariant == Spec => []IInv
<1>1. IInv /\ [Next]_vars => IInv'
  BY TypeStep, LockStep, WakeStep DEF IInv
<1> QED
  BY InitIInv, <1>1, PTL DEF Spec

\* Type correctness of the ulock emulation.
THEOREM TypeCorrect == Spec => []TypeOK
<1>1. IInv => TypeOK
  BY DEF IInv
<1> QED
  BY InductiveInvariant, <1>1, PTL

\* g_ulock_mu is held by the one thread whose stage says so.
THEOREM MutexCorrect == Spec => []MutexHeld
<1>1. IInv => MutexHeld
  BY DEF IInv
<1> QED
  BY InductiveInvariant, <1>1, PTL

\* No thread sleeps on a changed word unless a broadcast is still to come.
THEOREM NoWakeMissed == Spec => []NoMissedWake
<1>1. IInv => NoMissedWake
  BY DEF IInv
<1> QED
  BY InductiveInvariant, <1>1, PTL

\* The emulation implements the compare-and-wait of module Futex: each step of
\* the mutex and the condition variable is a step of the call or none at all.
THEOREM Refinement == Spec => ImplementsFutex
<1>1. Init => F!FutexInit
  BY DEF Init
<1>2. IInv /\ [Next]_vars => [F!FutexNext]_F!futexVars
  <2> SUFFICES ASSUME IInv, [Next]_vars PROVE [F!FutexNext]_F!futexVars
    OBVIOUS
  <2>0. \A t \in Threads : /\ pc[t] = "idle" => wait[t] = NoWait
                           /\ pc[t] \in Waiting => wait[t] # NoWait
    BY DEF IInv, WaitArgs, Waiting
  <2>1. ASSUME NEW t \in Threads, Call(t) PROVE F!Enter(t)
    <3>1. PICK w \in Calls : wait' = [wait EXCEPT ![t] = w]
      BY <2>1 DEF Call
    <3>2. w \in F!Wait
      BY UlockConstants
    <3>3. /\ pc[t] = "idle" /\ UNCHANGED <<word, due>>
          /\ answer' = [answer EXCEPT ![t] = "none"]
      BY <2>1 DEF Call
    <3>4. wait[t] = NoWait
      BY <2>0, <3>3
    <3> QED
      BY <3>1, <3>2, <3>3, <3>4, Zenon DEF F!Enter
  <2>2. ASSUME NEW t \in Threads, Store(t) PROVE F!SetWord(t)
    <3>1. PICK a \in Addrs, v \in Values : word' = [word EXCEPT ![a] = v]
      BY <2>2 DEF Store
    <3>2. v \in F!Word
      BY UlockConstants
    <3>3. pc[t] = "idle" /\ UNCHANGED <<wait, due, answer>>
      BY <2>2 DEF Store
    <3>4. wait[t] = NoWait
      BY <2>0, <3>3
    <3> QED
      BY <3>1, <3>2, <3>3, <3>4, Zenon DEF F!SetWord
  <2>3. ASSUME NEW t \in Threads, Fast(t) \/ Check(t)
        PROVE  F!LeaveChanged(t) \/ UNCHANGED F!futexVars
    BY <2>0, <2>3 DEF Fast, Check, Return, Waiting, F!LeaveChanged, F!Leave, F!futexVars
  <2>4. ASSUME NEW t \in Threads, TimedOut(t) PROVE F!LeaveTimedOut(t)
    BY <2>0, <2>4 DEF TimedOut, Return, Waiting, IInv, LateDue, F!LeaveTimedOut, F!Leave
  <2>5. ASSUME NEW t \in Threads,
               TakeLock(t) \/ Sleep(t) \/ Broadcast(t) \/ Spurious(t) \/ Expire(t)
        PROVE  UNCHANGED F!futexVars
    BY <2>5 DEF TakeLock, WaitLock, LateLock, WakeLock, Sleep, Broadcast, Spurious,
                Expire, F!futexVars
  <2>6. ASSUME NEW t \in Threads, Deadline(t) PROVE F!Deadline(t)
    BY <2>0, <2>6 DEF Deadline, Waiting, F!Deadline
  <2>7. CASE UNCHANGED vars
    BY <2>7 DEF vars, F!futexVars
  <2> QED
    BY <2>1, <2>2, <2>3, <2>4, <2>5, <2>6, <2>7 DEF Next, Proceed, F!FutexNext
<1> QED
  BY InductiveInvariant, <1>1, <1>2, PTL DEF Spec, ImplementsFutex, F!FutexSpec
=============================================================================
