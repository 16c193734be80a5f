----------------------------- MODULE MachOGrow -----------------------------
(***************************************************************************)
(* macho_grow.h: more room for load commands, by inserting pages behind    *)
(* them and lowering the image base by as much.                            *)
(***************************************************************************)
EXTENDS MachO

CONSTANT MaxOffset   \* UINT32_MAX

Bump(off, insert, grow) == IF off >= insert THEN off + grow ELSE off

\* The first delta is re-encoded in the bytes it has.
StartsAbsorb(img, grow) ==
    img.field["starts"] = 0 \/ UlebLen(img.starts.delta + grow, 128) <= img.starts.width
InitsAbsorb(img, grow) == \A e \in img.inits : e <= MaxOffset - grow
TrieIsSafe(img) == img.exports \subseteq {0}

CanGrow(img, grow) ==
    /\ img.execute /\ img.pie
    /\ img.first >= End(img)
    /\ img.zero >= grow
    /\ StartsAbsorb(img, grow)
    /\ InitsAbsorb(img, grow)
    /\ TrieIsSafe(img)

\* Mutation of Grown: forget the constructors' offsets.
GrownInitsLow(img, grow) ==
    [img EXCEPT !.first = Bump(@, img.first, grow),
                !.base = @ - grow, !.zero = @ - grow,
                !.at = [i \in DOMAIN @ |-> Bump(@[i], img.first, grow)],
                !.field = [i \in DOMAIN @ |-> Bump(@[i], img.first, grow)],
                !.starts.delta = @ + grow,
                !.size = @ + grow, !.linkedit = @ + grow]

\* File data moves up, the header's address moves down, every address of
\* anything else stays, and what counts from the header gains the difference, if
\* it is one of "the rest": __unwind_info and LC_DATA_IN_CODE are not looked into.
Grown(img, grow) ==
    [img EXCEPT !.first = Bump(@, img.first, grow),
                !.base = @ - grow, !.zero = @ - grow,
                !.at = [i \in DOMAIN @ |-> Bump(@[i], img.first, grow)],
                !.field = [i \in DOMAIN @ |-> Bump(@[i], img.first, grow)],
                !.inits = {e + grow : e \in @},
                !.starts.delta = @ + grow,
                !.size = @ + grow, !.linkedit = @ + grow]

GrowHeader(img, req) ==
    LET grow == RoundUp(req, Page)
    IN  IF CanGrow(img, grow) THEN Done(Grown(img, grow)) ELSE Refused
=============================================================================
