--------------------------- MODULE OpenMemStream ---------------------------
(***************************************************************************)
(* A stream over a buffer that grows (memstream.c): what stdio (external)  *)
(* asks of the functions open_memstream gives it, and what the caller sees *)
(* through the two pointers it passed.                                     *)
(*                                                                         *)
(* `Uses` names what may happen beyond what the code stands:               *)
(*   "read"      read from a position other than the start                 *)
(*   "negative"  seek to before the start                                  *)
(*   "nomem"     realloc fails                                             *)
(***************************************************************************)
EXTENDS Integers, Sequences

CONSTANTS Capacity,      \* the first capacity, 4096
          Bytes, MaxLen, Uses

MemStreamConstants ==
    /\ Capacity \in Nat \ {0} /\ MaxLen \in Nat
    /\ Uses \subseteq {"read", "negative", "nomem"}

VARIABLES contents,    \* the buffer, from 0; <<>> when there is none
          block,       \* which allocation it is
          position, size,
          ptr,         \* the allocation the caller has been told of
          sizeloc,     \* the size the caller has been told of
          open,
          call         \* the last call: its arguments and what it returned

vars == <<contents, block, position, size, ptr, sizeloc, open, call>>
Returns(op, arg, ret) == call' = [op |-> op, arg |-> arg, ret |-> ret]

Init == /\ contents = [i \in 1..Capacity |-> 0]
        /\ block = 1
        /\ position = 0 /\ size = 0
        /\ ptr = 1 /\ sizeloc = 0
        /\ open = TRUE
        /\ call = [op |-> "open", arg |-> 0, ret |-> 0]

Least(S) == CHOOSE n \in S : \A m \in S : n <= m

\* The capacity is doubled until it exceeds minsize.
Doubled(minsize) ==
    Least({c \in {Len(contents) * 2^k : k \in 1..MaxLen} : c > minsize})

\* memstream_grow, if the buffer does not reach to `need`; a failure loses it.
Grow(need, fails) ==
    IF need < Len(contents) THEN UNCHANGED <<block, ptr>>
    ELSE IF fails THEN block' = 0 /\ UNCHANGED ptr
    ELSE block' = block + 1 /\ ptr' = block'

Grown(need) ==
    IF need < Len(contents) THEN contents
    ELSE [i \in 1..Doubled(need) |-> IF i <= Len(contents) THEN contents[i] ELSE 0]
Fails == IF "nomem" \in Uses THEN BOOLEAN ELSE {FALSE}
Alive == open /\ contents # <<>>

\* Copied from the start of the buffer, whatever the position.
memstream_read(count) ==
    LET left == size - position
        n    == IF left < count THEN left ELSE count
        got  == IF n < 1 THEN <<>> ELSE SubSeq(contents, 1, n)
    IN
    /\ Alive
    /\ position # 0 => "read" \in Uses
    /\ Returns("read", count, got)
    /\ position' = position + Len(got)
    /\ UNCHANGED <<contents, block, size, ptr, sizeloc, open>>

memstream_write(bytes) ==
    LET end == position + Len(bytes) IN
    /\ Alive /\ end <= MaxLen
    /\ UNCHANGED open
    /\ \E fails \in Fails :
          /\ Grow(end, fails)
          /\ IF fails /\ end >= Len(contents)
             THEN /\ contents' = <<>> /\ Returns("write", bytes, -1)
                  /\ UNCHANGED <<position, size, sizeloc>>
             ELSE /\ Returns("write", bytes, Len(bytes))
                  /\ contents' = [i \in DOMAIN Grown(end) |->
                         IF i \in position + 1 .. end THEN bytes[i - position]
                         ELSE Grown(end)[i]]
                  /\ position' = end
                  /\ size' = IF size < end THEN end ELSE size
                  /\ sizeloc' = IF size < end THEN end ELSE sizeloc

\* A position past the end is the new end; a failure to grow goes unnoticed.
memstream_seek(offset, whence) ==
    LET pos == CASE whence = "set" -> offset
                 [] whence = "cur" -> position + offset
                 [] whence = "end" -> size + offset
    IN
    /\ Alive /\ pos <= MaxLen
    /\ pos < 0 => "negative" \in Uses
    /\ position' = pos
    /\ size' = IF size < pos THEN pos ELSE size
    /\ sizeloc' = IF size < pos THEN pos ELSE sizeloc
    /\ Returns("seek", <<offset, whence>>, pos)
    /\ \E fails \in Fails :
          /\ Grow(pos, fails)
          /\ contents' = IF fails /\ pos >= Len(contents) THEN <<>> ELSE Grown(pos)
    /\ UNCHANGED open

memstream_close ==
    /\ open
    /\ open' = FALSE
    /\ Returns("close", 0, IF contents = <<>> THEN -1 ELSE 0)
    /\ IF contents = <<>> THEN UNCHANGED <<contents, size, ptr, sizeloc>>
       ELSE /\ size' = IF size < position THEN size ELSE position
            /\ ptr' = block
            /\ sizeloc' = size'
            /\ contents' = [contents EXCEPT ![size' + 1] = 0]
    /\ UNCHANGED <<block, position>>

Texts == {<<b>> : b \in Bytes} \cup {<<b, c>> : b, c \in Bytes}
Next == \/ \E n \in 1..MaxLen : memstream_read(n)
        \/ \E s \in Texts : memstream_write(s)
        \/ \E offset \in -MaxLen..MaxLen, whence \in {"set", "cur", "end"} :
              memstream_seek(offset, whence)
        \/ memstream_close

Spec == Init /\ [][Next]_vars

\* What the caller has been told, a pointer and a size, gives it the whole of a file
\* that holds what was written where it was, with a NUL after it, "a null byte is
\* maintained at the end of the buffer" (the manual page in memstream.c), through
\* every reallocation; a seek goes where it is asked to and fills what it skips with
\* zeros, and the file is cut off at the position when the stream is closed.
Lost == <<-1>>
Told == IF contents = <<>> THEN <<>>
        ELSE IF ptr = block /\ sizeloc < Len(contents) /\ contents[sizeloc + 1] = 0
        THEN SubSeq(contents, 1, sizeloc) ELSE Lost
File == INSTANCE ByteFile WITH data <- Told, pos <- position, room <- MaxLen,
                               append <- FALSE, closed <- ~open,
                               op <- call.op, arg <- call.arg, ret <- call.ret,
                               ZeroFill <- TRUE
ImplementsStream == File!Spec
=============================================================================
