---------------------------- MODULE ManualFrames ----------------------------
(***************************************************************************)
(* A view's frame that the layout engine has no opinion about              *)
(* (framework-stubs/AppKitWrapper.m): what is set is remembered, and given *)
(* back after a layout that has collapsed the view.  Setters, constraints  *)
(* and the engine (external: it sets the frame by setFrame:, as the file's *)
(* trace shows) act on one view of a superview.                            *)
(*                                                                         *)
(* `Uses` names what the program may do beyond what the code stands:       *)
(*   "half"  constraints determine a part of the frame, or all of it       *)
(*   "zero"  the program itself collapses the view                         *)
(***************************************************************************)
EXTENDS Naturals

CONSTANTS Places, Sizes,   \* 0 is the origin, and nothing
          None, Uses

FrameConstants == /\ 0 \in Places \cap Sizes /\ Places \cup Sizes \subseteq Nat
                  /\ Uses \subseteq {"half", "zero"}

VARIABLES frame,
          translates,   \* translatesAutoresizingMaskIntoConstraints
          stored,       \* kEHManualFrame
          determined,   \* the parts of the frame that constraints determine
          asked,        \* the frame the program last asked for, once it counts
          laid          \* since it asked, a layout has been made

vars == <<frame, translates, stored, determined, asked, laid>>

Frames == [place : Places, size : Sizes]
Collapsed == [place |-> 0, size |-> 0]

Init == /\ frame = Collapsed
        /\ translates = TRUE
        /\ stored = None
        /\ determined \in IF "half" \in Uses THEN SUBSET {"place", "size"} ELSE {{}}
        /\ asked = None
        /\ laid = FALSE

\* EHRememberManualFrame, of what is neither placed nor sized.
Remembered(old, f) == IF translates \/ f = Collapsed THEN old ELSE f

\* setFrame:, setFrameOrigin: and setFrameSize: of the program.
Set(f) ==
    /\ f # Collapsed \/ translates \/ "zero" \in Uses
    /\ frame' = f
    /\ stored' = Remembered(stored, f)
    /\ asked' = IF translates THEN asked ELSE f
    /\ laid' = FALSE
    /\ UNCHANGED <<translates, determined>>
SetFrame(f) == Set(f)
SetFrameOrigin(place) == Set([frame EXCEPT !.place = place])
SetFrameSize(size) == Set([frame EXCEPT !.size = size])

Translate(on) ==
    /\ on # translates
    /\ translates' = on
    /\ asked' = None
    /\ UNCHANGED <<frame, stored, determined, laid>>

\* The engine's frame: what no constraint determines collapses.
Engine(f) ==
    \/ translates /\ f = frame
    \/ /\ ~translates
       /\ "place" \notin determined => f.place = 0
       /\ "size" \notin determined => f.size = 0

\* EHViewLayout: what has collapsed and is ambiguous gets back what is
\* remembered, unless that is degenerate too; the restored frame is not remembered.
Restored(f, wanted) ==
    IF translates \/ wanted = None \/ determined = {"place", "size"} THEN f
    ELSE [place |-> IF f.place = 0 THEN wanted.place ELSE f.place,
          size |-> IF f.size = 0 THEN wanted.size ELSE f.size]

Layout ==
    \E f \in Frames :
        /\ Engine(f)
        /\ stored' = Remembered(stored, f)
        /\ frame' = Restored(f, stored')
        /\ laid' = TRUE
        /\ UNCHANGED <<translates, determined, asked>>

Next == \/ \E f \in Frames : SetFrame(f)
        \/ \E place \in Places : SetFrameOrigin(place)
        \/ \E size \in Sizes : SetFrameSize(size)
        \/ \E on \in BOOLEAN : Translate(on)
        \/ Layout

Spec == Init /\ [][Next]_vars

(***************************************************************************)
(* Properties                                                              *)
(***************************************************************************)
\* "The frame the application asked for is remembered, and restored after layout
\* only where the engine has collapsed a view it cannot place or size" (the
\* file's words): after a layout, what no constraint determines is as asked.
FrameKept ==
    laid /\ asked # None /\ ~translates =>
        /\ "place" \notin determined => frame.place = asked.place
        /\ "size" \notin determined => frame.size = asked.size
=============================================================================
