------------------------------ MODULE FMemOpen ------------------------------
(***************************************************************************)
(* A stream over a buffer of fixed size (fmemopen.c): what stdio (external) *)
(* asks of the functions fmemopen gives it.  Lengths are size_t: the width *)
(* of one is 2^64 in the program and WORD here, larger than any sum.       *)
(*                                                                         *)
(* `Uses` names what the callers may do beyond what the code stands:       *)
(*   "beyond"  read after a seek past the data                             *)
(*   "middle"  write text before the end of the data                       *)
(***************************************************************************)
EXTENDS Integers, Sequences

CONSTANTS WORD, Bytes, MaxSize, Uses

FMemConstants ==
    /\ MaxSize \in Nat /\ WORD \in Nat /\ 4 * MaxSize < WORD
    /\ Uses \subseteq {"beyond", "middle"}

VARIABLES buf,      \* the buffer, from 0
          len, off,
          mode,     \* the mode argument
          call      \* the last call: its arguments and what it returned

vars == <<buf, len, off, mode, call>>
Returns(op, arg, ret) == call' = [op |-> op, arg |-> arg, ret |-> ret]

Size == Len(buf)
U(n) == n % WORD
FirstOf(S, else) == IF S = {} THEN else ELSE CHOOSE x \in S : \A y \in S : x <= y

\* strnlen(buf, size)
StrLen(b) == FirstOf({i \in DOMAIN b : b[i] = 0}, Len(b) + 1) - 1

Modes == [kind : {"r", "w", "a"}, plus : BOOLEAN, bin : BOOLEAN]

\* fmemopen of the caller's buffer, or of one it allocates; a 'w' empties it.
Init ==
    /\ mode \in Modes
    /\ \E size \in 1..MaxSize, own \in BOOLEAN :
          \E b \in [1..size -> Bytes] :
             /\ own => mode.plus
             /\ buf = IF own \/ mode.kind = "w" THEN [b EXCEPT ![1] = 0] ELSE b
    /\ len = CASE mode.kind = "a" -> StrLen(buf)
               [] mode.kind = "r" -> Size
               [] mode.kind = "w" -> 0
    /\ off = IF mode.kind = "a" THEN len ELSE 0
    /\ call = [op |-> "open", arg |-> 0, ret |-> 0]

\* What stdio allows: funopen is given no read function for a stream that is
\* write-only, but a write function always, for `flags & O_RDONLY` is 0.
Readable == mode.plus \/ mode.kind = "r"

Outside == -1
ByteAt(i) == IF i \in DOMAIN buf THEN buf[i] ELSE Outside

fmemopen_read(nbytes) ==
    LET n == IF nbytes > U(len - off) THEN U(len - off) ELSE nbytes IN
    /\ Readable
    /\ off > len => "beyond" \in Uses
    /\ Returns("read", nbytes, [i \in 1..n |-> ByteAt(off + i)])
    /\ off' = off + n
    /\ UNCHANGED <<buf, len, mode>>

\* A stream opened to append is put at its end first, by stdio (__SAPP).
Start == IF mode.kind = "a" THEN len ELSE off

\* What fits; in text a NUL after it, if it does not end in one.
fmemopen_write(bytes) ==
    LET n    == IF Len(bytes) > U(Size - Start) THEN U(Size - Start) ELSE Len(bytes)
        end  == Start + n
        over == [i \in DOMAIN buf |-> IF i \in Start + 1 .. end THEN bytes[i - Start]
                                                                ELSE buf[i]]
    IN
    /\ ~mode.bin /\ end < len => "middle" \in Uses
    /\ off' = end
    /\ len' = IF n > 0 /\ end > len THEN end ELSE len
    /\ buf' = IF n > 0 /\ ~mode.bin /\ end < Size /\ bytes[n] # 0
              THEN [over EXCEPT ![end + 1] = 0] ELSE over
    /\ Returns("write", bytes, n)
    /\ UNCHANGED mode

Base(whence) == CASE whence = "set" -> 0 [] whence = "cur" -> off [] whence = "end" -> len

\* Mutation of fmemopen_seek: a move from the position is not compared with the size.
fmemopen_seek_anywhere(offset, whence) ==
    LET to == U(Base(whence) + offset)
        refused == CASE whence = "set" -> to > Size
                     [] whence = "cur" -> FALSE
                     [] whence = "end" -> offset > 0 \/ -offset > len
    IN
    /\ off' = IF refused THEN off ELSE to
    /\ Returns("seek", <<offset, whence>>, IF refused THEN -1 ELSE to)
    /\ UNCHANGED <<buf, len, mode>>

fmemopen_seek(offset, whence) ==
    LET to == U(Base(whence) + offset)
        refused == CASE whence = "set" -> to > Size
                     [] whence = "cur" -> to > Size
                     [] whence = "end" -> offset > 0 \/ -offset > len
    IN
    /\ off' = IF refused THEN off ELSE to
    /\ Returns("seek", <<offset, whence>>, IF refused THEN -1 ELSE to)
    /\ UNCHANGED <<buf, len, mode>>

Texts == {<<b>> : b \in Bytes} \cup {<<b, c>> : b, c \in Bytes}
Next == \/ \E n \in 1..MaxSize + 1 : fmemopen_read(n)
        \/ \E s \in Texts : fmemopen_write(s)
        \/ \E offset \in -MaxSize - 1 .. MaxSize + 1, whence \in {"set", "cur", "end"} :
              fmemopen_seek(offset, whence)

Spec == Init /\ [][Next]_vars

\* The buffer read and written through the stream is the first `len` bytes of it, a
\* file: as many of the caller's bytes are put at its position, or at its end, as the
\* call says and the buffer has room for; what is read are the bytes there; and a
\* seek goes where it is asked to, or is refused (fmemopen.c's read, write and seek,
\* whose bounds are differences of unsigned lengths).
File == INSTANCE ByteFile WITH data <- SubSeq(buf, 1, len), pos <- off, room <- Size,
                               append <- (mode.kind = "a"), closed <- FALSE,
                               op <- call.op, arg <- call.arg, ret <- call.ret,
                               MaxLen <- MaxSize, ZeroFill <- FALSE
ImplementsFile == File!Spec
=============================================================================
