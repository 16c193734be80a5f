------------------------------- MODULE Futex -------------------------------
(***************************************************************************)
(* What the callers of mavericks-legacy-support/src/ulock.c rely on: a     *)
(* compare-and-wait on a word, as 10.12's kernel provides it.  A call      *)
(* answers 0 at a moment when the word differs from the caller's value,    *)
(* and -ETIMEDOUT only when a deadline its caller gave has passed.         *)
(***************************************************************************)
EXTENDS Integers

CONSTANTS
    Threads,
    Addrs,      \* addresses that are waited on
    Half,       \* values of one 32-bit half of a word, 0 among them
    NoWait      \* the arguments of a thread that is not waiting, not a Wait

VARIABLES
    word,       \* the callers' 64-bit words
    wait,       \* the arguments of each thread's wait
    due,        \* the threads whose wait's deadline has passed
    answer      \* what each thread's last wait returned, "none" while it waits

futexVars == <<word, wait, due, answer>>

Answer == {"none", "0", "ETIMEDOUT"}

Word == [hi : Half, lo : Half]
Wait == [addr : Addrs, value : Word, is64 : BOOLEAN, timed : BOOLEAN]

\* The value a wait compares: a 32-bit wait reads the low half.
Cur(w) == IF w.is64 THEN word[w.addr] ELSE [hi |-> 0, lo |-> word[w.addr].lo]
Differs(w) == Cur(w) # w.value

FutexInit ==
    /\ word = [a \in Addrs |-> [hi |-> 0, lo |-> 0]]
    /\ wait = [t \in Threads |-> NoWait]
    /\ due = {}
    /\ answer = [t \in Threads |-> "none"]

Enter(t) ==
    /\ wait[t] = NoWait
    /\ \E w \in Wait : wait' = [wait EXCEPT ![t] = w]
    /\ answer' = [answer EXCEPT ![t] = "none"]
    /\ UNCHANGED <<word, due>>

Deadline(t) ==
    /\ wait[t] # NoWait /\ wait[t].timed
    /\ due' = due \cup {t}
    /\ UNCHANGED <<word, wait, answer>>

Leave(t, a) ==
    /\ wait' = [wait EXCEPT ![t] = NoWait]
    /\ due' = due \ {t}
    /\ answer' = [answer EXCEPT ![t] = a]
    /\ UNCHANGED word

LeaveChanged(t)  == wait[t] # NoWait /\ Differs(wait[t]) /\ Leave(t, "0")
LeaveTimedOut(t) == wait[t] # NoWait /\ t \in due /\ Leave(t, "ETIMEDOUT")

SetWord(t) ==
    /\ wait[t] = NoWait
    /\ \E a \in Addrs, v \in Word : word' = [word EXCEPT ![a] = v]
    /\ UNCHANGED <<wait, due, answer>>

FutexNext == \E t \in Threads : \/ Enter(t) \/ Deadline(t) \/ LeaveChanged(t)
                                \/ LeaveTimedOut(t) \/ SetWord(t)

FutexSpec == FutexInit /\ [][FutexNext]_futexVars
=============================================================================
