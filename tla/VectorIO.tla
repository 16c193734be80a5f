------------------------------ MODULE VectorIO ------------------------------
(***************************************************************************)
(* Calls made of many system calls: preadv and pwritev (dotnet_polyfills.c, *)
(* preadv_pwritev_nocancel.c), recvmsg_x and sendmsg_x (msg_x.c), the      *)
(* write that completes a terminal's sequences (write_underline.c) and     *)
(* getentropy.  A system call (external) is a step, takes part of what it  *)
(* is given, none of it, or fails.                                         *)
(*                                                                         *)
(* `Uses` names what the system may do beyond what the code stands:        *)
(*   "stream"  a message is sent in part, as on a stream socket            *)
(*   "again"   a write fails, or takes nothing, after a part was written   *)
(***************************************************************************)
EXTENDS Integers, Sequences, SequencesExt

CONSTANTS Lengths,          \* of the buffers of a vector, or of messages
          Written,          \* the texts that are written
          Needle, Inject,   \* a sequence and what ends it
          LIMIT, STACK,     \* the longest text looked at; one that needs no malloc
          MOST,             \* the most getentropy gives
          Uses

IOConstants == /\ Lengths \subseteq Seq(Nat) /\ Written \subseteq Seq(Nat)
               /\ Uses \subseteq {"stream", "again"}

VARIABLES op, arg,      \* the call and what it is given
          i,            \* the buffer or message it is at
          total, moved, ret

vars == <<op, arg, i, total, moved, ret>>

Running == -2
Failed == -1

Vectors == {"preadv", "pwritev"}
Batches == {"recvmsg_x", "sendmsg_x"}

\* Where the caller's text holds the needle, a sequence that ends it is added.
Injected(text) ==
    LET n == Len(Needle)
        Ends(k) == k >= n /\ SubSeq(text, k - n + 1, k) = Needle
    IN  FlattenSeq([k \in DOMAIN text |->
            IF Ends(k) THEN <<text[k]>> \o Inject ELSE <<text[k]>>])

\* The wrapper leaves a long text, and one that holds no needle, to write, and
\* one for which malloc fails.
Completed(text) == Len(text) <= LIMIT /\ Injected(text) # text
Real(text) == ~Completed(text) \/ Len(Injected(text)) > STACK

\* Byte k of a buffer goes with byte `offset` + k of the file.
Bytes(b, n, offset) == [k \in 1..n |-> <<b, k, offset + k>>]

\* All that the call is asked to move, in order.
Want ==
    CASE op \in Vectors ->
            LET all == FlattenSeq([b \in DOMAIN arg |-> Bytes(b, arg[b], 0)])
            IN  [p \in DOMAIN all |-> <<all[p][1], all[p][2], p>>]
      [] op \in Batches -> [m \in DOMAIN arg |-> <<m, arg[m]>>]
      [] op = "write" -> Injected(arg)
      [] op = "real write" -> arg
      [] op = "getentropy" -> Bytes(1, arg[1], 0)

Init == /\ \/ op \in Vectors \cup Batches /\ arg \in Lengths
           \/ op = "getentropy" /\ arg \in Lengths /\ Len(arg) = 1
           \/ op = "write" /\ arg \in Written /\ Completed(arg)
           \/ op = "real write" /\ arg \in Written /\ Real(arg)
        /\ i = 1
        /\ total = 0
        /\ moved = <<>>
        /\ ret = Running

Return(r) == ret' = r /\ UNCHANGED <<op, arg, i, total, moved>>

\* What is heard of a call that fails at its first step, or after it.
OrFailed == Return(IF total > 0 THEN total ELSE Failed)

\* pread and pwrite of one buffer after another, until one is not filled.
Vector ==
    /\ op \in Vectors /\ ret = Running
    /\ IF i > Len(arg) THEN Return(total)
       ELSE \/ OrFailed
            \/ \E n \in 0..arg[i] :
                  /\ moved' = moved \o Bytes(i, n, total)
                  /\ total' = total + n
                  /\ IF n < arg[i] THEN ret' = total' /\ UNCHANGED i
                                   ELSE i' = i + 1 /\ UNCHANGED ret
                  /\ UNCHANGED <<op, arg>>

\* recvmsg and sendmsg of one message after another; one of no bytes is the last
\* that is received, as the end of a stream is.
Batch ==
    /\ op \in Batches /\ ret = Running
    /\ IF i > Len(arg) THEN Return(total)
       ELSE \/ OrFailed
            \/ \E n \in 0..arg[i] :
                  /\ n < arg[i] => "stream" \in Uses
                  /\ moved' = Append(moved, <<i, n>>)
                  /\ total' = total + 1
                  /\ IF op = "recvmsg_x" /\ n = 0 THEN ret' = total' /\ UNCHANGED i
                                                  ELSE i' = i + 1 /\ UNCHANGED ret
                  /\ UNCHANGED <<op, arg>>

RealWrite ==
    /\ op = "real write" /\ ret = Running
    /\ \/ Return(Failed)
       \/ \E n \in 0..Len(arg) :
             /\ moved' = SubSeq(arg, 1, n)
             /\ total' = n /\ ret' = n
             /\ UNCHANGED <<op, arg, i>>

\* The caller hears of its own bytes, about as many as were written.
Heard(written) == (written * Len(arg)) \div Len(Injected(arg))

\* The whole text is written with what was added; EINTR is tried again.
Write ==
    LET left == Len(Injected(arg)) - total IN
    /\ op = "write" /\ ret = Running
    /\ \/ \E n \in 1..left :
             /\ total' = total + n
             /\ moved' = SubSeq(Injected(arg), 1, total')
             /\ UNCHANGED <<op, arg, i, ret>>
       \/ left = 0 /\ Return(Len(arg))
       \/ /\ left > 0 /\ (total > 0 => "again" \in Uses)
          /\ \/ total = 0 /\ Return(Failed)
             \/ Return(Heard(total))

\* Reads until all is there; any error but EINTR ends the program.
getentropy ==
    LET left == arg[1] - total IN
    /\ op = "getentropy" /\ ret = Running
    /\ IF arg[1] > MOST THEN Return(Failed)
       ELSE IF left = 0 THEN Return(0)
       ELSE \E n \in 1..left :
               /\ moved' = moved \o SubSeq(Want, total + 1, total + n)
               /\ total' = total + n
               /\ UNCHANGED <<op, arg, i, ret>>

Next == Vector \/ Batch \/ RealWrite \/ Write \/ getentropy

Spec == Init /\ [][Next]_vars

(***************************************************************************)
(* Properties                                                              *)
(***************************************************************************)
\* write speaks of the caller's bytes, and getentropy of all or nothing.
Count == IF \/ op = "write" /\ ret = Len(arg)
            \/ op = "getentropy" /\ ret = 0 THEN Len(Want) ELSE ret

T == INSTANCE Transfer WITH want <- Want, ret <- Count

\* A call cut short by an error or by a short count has moved the first of its
\* pieces, each to its place, and its caller learns how many: none is lost or
\* moved twice by a caller that goes on from there.
ImplementsTransfer == T!Spec
=============================================================================
