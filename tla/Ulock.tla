------------------------------- MODULE Ulock -------------------------------
(***************************************************************************)
(* mavericks-legacy-support/src/ulock.c: __ulock_wait2 and __ulock_wake    *)
(* emulated with one global mutex and condition variable.                  *)
(*                                                                         *)
(* The word is the callers': they read and write it without the mutex.  A  *)
(* thread that changes it calls __ulock_wake afterwards, which is the      *)
(* protocol of every futex.  The mutex and the condition variable are      *)
(* pthread's (external); a condition variable may wake spuriously.         *)
(***************************************************************************)
EXTENDS Integers

CONSTANTS
    Threads, Addrs, Half, NoWait,   \* as in Futex
    Calls,      \* the waits threads make
    Values,     \* the values threads store
    Nobody

VARIABLES
    word,       \* external: the words waited on
    wait,       \* arguments of each thread's __ulock_wait2
    due,        \* threads whose wait's deadline has passed
    answer,     \* what each thread's last __ulock_wait2 returned
    pc,         \* stage of each thread
    mu          \* holder of g_ulock_mu, or Nobody

vars == <<word, wait, due, answer, pc, mu>>

F == INSTANCE Futex

ASSUME UlockConstants ==
    /\ Half \subseteq Nat /\ 0 \in Half
    /\ NoWait \notin F!Wait
    /\ Calls \subseteq F!Wait
    /\ Values \subseteq F!Word
    /\ Nobody \notin Threads

\* Stages that hold the mutex, stages inside __ulock_wait2, and those where a
\* thread has changed a word and not yet broadcast.
Holding  == {"check", "sleep", "timedout", "broadcast"}
Waiting  == {"fast", "lock", "check", "sleep", "cond", "relock", "late", "timedout"}
Waking   == {"wake", "broadcast"}
Stage    == {"idle"} \cup Waiting \cup Waking

TypeOK ==
    /\ word \in [Addrs -> F!Word]
    /\ wait \in [Threads -> F!Wait \cup {NoWait}]
    /\ due \subseteq Threads
    /\ answer \in [Threads -> F!Answer]
    /\ pc \in [Threads -> Stage]
    /\ mu \in Threads \cup {Nobody}

Init ==
    /\ F!FutexInit
    /\ pc = [t \in Threads |-> "idle"]
    /\ mu = Nobody

Goto(t, stage) == pc' = [pc EXCEPT ![t] = stage]

\* Return from the call with an answer: 0 or -ETIMEDOUT.
Return(t, a) == /\ Goto(t, "idle")
                /\ wait' = [wait EXCEPT ![t] = NoWait]
                /\ due' = due \ {t}
                /\ answer' = [answer EXCEPT ![t] = a]

Lock(t)   == mu = Nobody /\ mu' = t
Unlock    == mu' = Nobody

-----------------------------------------------------------------------------
(* __ulock_wait2 *)

Call(t) ==
    /\ pc[t] = "idle"
    /\ \E w \in Calls : wait' = [wait EXCEPT ![t] = w]
    /\ answer' = [answer EXCEPT ![t] = "none"]
    /\ Goto(t, "fast")
    /\ UNCHANGED <<word, due, mu>>

\* Fast path: the word is read without the mutex.
Fast(t) ==
    /\ pc[t] = "fast"
    /\ IF F!Differs(wait[t]) THEN Return(t, "0")
       ELSE Goto(t, "lock") /\ UNCHANGED <<wait, due, answer>>
    /\ UNCHANGED <<word, mu>>

\* pthread_mutex_lock, at first and on the way out of the condition variable.
WaitLock(t) ==
    /\ pc[t] \in {"lock", "relock"}
    /\ Lock(t)
    /\ Goto(t, "check")
    /\ UNCHANGED <<word, wait, due, answer>>

\* The loop's test, under the mutex.
Check(t) ==
    /\ pc[t] = "check"
    /\ IF F!Differs(wait[t])
       THEN Return(t, "0") /\ Unlock
       ELSE Goto(t, "sleep") /\ UNCHANGED <<wait, due, answer, mu>>
    /\ UNCHANGED word

\* pthread_cond_wait and _timedwait give up the mutex and join the condition
\* variable in one step.
Sleep(t) ==
    /\ pc[t] = "sleep"
    /\ Unlock
    /\ Goto(t, "cond")
    /\ UNCHANGED <<word, wait, due, answer>>

\* Mutation of Spurious: a timed wait takes any wake-up for the awaited change.
SpuriousReturn(t) ==
    /\ pc[t] = "cond" /\ wait[t].timed
    /\ Return(t, "0")
    /\ UNCHANGED <<word, mu>>

Spurious(t) ==
    /\ pc[t] = "cond"
    /\ Goto(t, "relock")
    /\ UNCHANGED <<word, wait, due, answer, mu>>

\* The absolute deadline, worked out after the fast path, passes: at any moment
\* from then on, also before the wait sleeps.
Deadline(t) ==
    /\ pc[t] \in Waiting \ {"fast"} /\ wait[t].timed
    /\ t \notin due /\ due' = due \cup {t}
    /\ UNCHANGED <<word, wait, answer, pc, mu>>

\* _timedwait finds the deadline passed; the wait still takes the mutex before
\* it returns ETIMEDOUT, and the word is not looked at again.
Expire(t) ==
    /\ pc[t] = "cond" /\ wait[t].timed /\ t \in due
    /\ Goto(t, "late")
    /\ UNCHANGED <<word, wait, due, answer, mu>>

\* Mutation of LateLock: the loop ignores ETIMEDOUT.
LateLockLoop(t) ==
    /\ pc[t] = "late"
    /\ Lock(t)
    /\ Goto(t, "check")
    /\ UNCHANGED <<word, wait, due, answer>>

LateLock(t) ==
    /\ pc[t] = "late"
    /\ Lock(t)
    /\ Goto(t, "timedout")
    /\ UNCHANGED <<word, wait, due, answer>>

TimedOut(t) ==
    /\ pc[t] = "timedout"
    /\ Return(t, "ETIMEDOUT") /\ Unlock
    /\ UNCHANGED word

-----------------------------------------------------------------------------
(* The callers' store, and __ulock_wake *)

Store(t) ==
    /\ pc[t] = "idle"
    /\ \E a \in Addrs, v \in Values : word' = [word EXCEPT ![a] = v]
    /\ Goto(t, "wake")
    /\ UNCHANGED <<wait, due, answer, mu>>

\* Mutation of WakeLock: the broadcast is made without the mutex.
WakeUnlocked(t) ==
    /\ pc[t] = "wake"
    /\ Goto(t, "broadcast")
    /\ UNCHANGED <<word, wait, due, answer, mu>>

WakeLock(t) ==
    /\ pc[t] = "wake"
    /\ Lock(t)
    /\ Goto(t, "broadcast")
    /\ UNCHANGED <<word, wait, due, answer>>

\* Mutation of Broadcast: pthread_cond_signal.
SignalOne(t) ==
    /\ pc[t] = "broadcast"
    /\ LET asleep == {u \in Threads : pc[u] = "cond"} IN
         IF asleep = {} THEN Goto(t, "idle")
         ELSE \E u \in asleep : pc' = [pc EXCEPT ![t] = "idle", ![u] = "relock"]
    /\ Unlock
    /\ UNCHANGED <<word, wait, due, answer>>

\* pthread_cond_broadcast, whatever address was woken, and the unlock.
Broadcast(t) ==
    /\ pc[t] = "broadcast"
    /\ pc' = [u \in Threads |-> IF u = t THEN "idle"
                                ELSE IF pc[u] = "cond" THEN "relock" ELSE pc[u]]
    /\ Unlock
    /\ UNCHANGED <<word, wait, due, answer>>

-----------------------------------------------------------------------------
TakeLock(t) == WaitLock(t) \/ LateLock(t) \/ WakeLock(t)
Proceed(t)  == Fast(t) \/ Check(t) \/ Sleep(t) \/ TimedOut(t) \/ Broadcast(t)

Next == \E t \in Threads :
            \/ Call(t) \/ Store(t) \/ TakeLock(t) \/ Proceed(t)
            \/ Spurious(t) \/ Deadline(t) \/ Expire(t)

\* Threads run, the mutex starves nobody, and a deadline passes for good (it is
\* absolute: a wait that starts over finds it passed).  Nobody is obliged to
\* call, to store, or to wake spuriously.
Spec     == Init /\ [][Next]_vars
FairSpec == Spec /\ \A t \in Threads : /\ WF_vars(Proceed(t)) /\ SF_vars(TakeLock(t))
                                       /\ WF_vars(Deadline(t)) /\ SF_vars(Expire(t))

-----------------------------------------------------------------------------
(* Properties *)

\* The mutex has one holder, the thread whose stage says so.
MutexHeld == \A t \in Threads : pc[t] \in Holding <=> mu = t

\* No wake-up is missed: a thread that is about to sleep or asleep although its
\* word differs will be reached by a broadcast that is still to come.  The
\* store takes no lock, so it may fall between the test and the sleep.
NoMissedWake ==
    \A t \in Threads : pc[t] \in {"sleep", "cond"} /\ F!Differs(wait[t]) =>
        \E u \in Threads : pc[u] \in Waking

\* A wait whose word differs returns, unless the word is changed back.
WaitReturns ==
    \A t \in Threads :
        (pc[t] \in Waiting /\ F!Differs(wait[t])) ~>
            (pc[t] \notin Waiting \/ ~F!Differs(wait[t]))

\* A timed wait ends, whatever happens to its word.
TimedWaitEnds ==
    \A t \in Threads : (pc[t] \in Waiting /\ wait[t].timed) ~> pc[t] \notin Waiting

\* The emulation answers as the kernel call would: 0 only at a moment when the
\* word differs, also to a timed wait, ETIMEDOUT only when the deadline its
\* caller gave has passed, and a waiter writes nothing.
ImplementsFutex == F!FutexSpec
=============================================================================
