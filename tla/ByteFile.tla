------------------------------ MODULE ByteFile ------------------------------
(***************************************************************************)
(* What a stream over memory promises: a file of bytes with a position,    *)
(* which each call reads, writes or moves as its arguments ask and says so. *)
(***************************************************************************)
EXTENDS Integers, Sequences

CONSTANTS Bytes, Texts,   \* what can be written
          MaxLen,
          ZeroFill        \* whether a seek past the end lengthens it, with zeros

VARIABLES data, pos,
          room,           \* as long as it can be
          append,         \* whether it is written at its end only
          closed,
          op, arg, ret    \* the last call, with what it was given and returned

fvars == <<op, arg, ret, data, pos, room, append, closed>>

Shorter(m, n) == IF m < n THEN m ELSE n
Longer(m, n) == IF m > n THEN m ELSE n
Refused == -1

Init == /\ data \in UNION {[1..n -> Bytes] : n \in 0..MaxLen}
        /\ room \in Len(data)..MaxLen
        /\ pos \in 0..Len(data)
        /\ append \in BOOLEAN
        /\ closed = FALSE
        /\ op = "open"

\* At most n bytes from the position on; none at the end of the data.
Read(n) == /\ op' = "read" /\ arg' = n
           /\ ret' = SubSeq(data, pos + 1, Shorter(pos + n, Len(data)))
           /\ pos' = pos + Len(ret')
           /\ UNCHANGED <<data, room, append, closed>>

\* As many of the bytes as there is room for are written, at the position or at the
\* end of what is appended to; the rest of the data is as it was, and what lies
\* between it and the position is not said.
Write(bytes) ==
    LET p     == IF append THEN Len(data) ELSE pos
        n     == Shorter(Len(bytes), room - p)
        there == p + 1 .. p + n
    IN
    /\ op' = "write" /\ arg' = bytes /\ ret' = n
    /\ pos' = p + n
    /\ Len(data') = IF n = 0 THEN Len(data) ELSE Longer(Len(data), p + n)
    /\ \A i \in DOMAIN data' : /\ i \in there => data'[i] = bytes[i - p]
                               /\ i \in DOMAIN data \ there => data'[i] = data[i]
    /\ UNCHANGED <<room, append, closed>>

\* The position asked for, or none that is not within the data is refused.
Seek(offset, whence) ==
    LET to == offset + CASE whence = "set" -> 0
                         [] whence = "cur" -> pos
                         [] whence = "end" -> Len(data)
    IN
    /\ op' = "seek" /\ arg' = <<offset, whence>>
    /\ \/ /\ to \in 0..room
          /\ ret' = to /\ pos' = to
          /\ data' = IF ZeroFill THEN [i \in 1..Longer(Len(data), to) |->
                                          IF i \in DOMAIN data THEN data[i] ELSE 0]
                     ELSE data
       \/ /\ to \notin 0..Len(data)
          /\ ret' = Refused /\ UNCHANGED <<pos, data>>
    /\ UNCHANGED <<room, append, closed>>

\* It is cut off at the position.
Close == /\ op' = "close" /\ ret' = 0
         /\ closed' = TRUE
         /\ data' = SubSeq(data, 1, Shorter(pos, Len(data)))
         /\ UNCHANGED <<pos, room, append>>

Next == /\ ~closed
        /\ op' # "open"
        /\ \/ \E n \in 1..MaxLen + 1 : Read(n)
           \/ \E bytes \in Texts : Write(bytes)
           \/ \E offset \in -MaxLen - 1 .. MaxLen + 1,
                 whence \in {"set", "cur", "end"} : Seek(offset, whence)
           \/ Close

Spec == Init /\ [][Next]_fvars
=============================================================================
