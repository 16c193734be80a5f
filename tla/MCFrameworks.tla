---------------------------- MODULE MCFrameworks ----------------------------
(* What Cocoa programs rest on, for TLC: weak references (WeakSlots), and the *)
(* wrappers of AppKit and QuartzCore.  The parts share nothing and do not     *)
(* call one another: each behaviour is one of them, with the others at rest   *)
(* in an initial state.                                                       *)
EXTENDS WeakSlots, TLC

CONSTANTS Parts,
          Layers, Owners, MaxCalls, MaxDepth,   \* LayerDelegates
          Controllers, MaxTodo,          \* ViewControllers
          Views, Gravities,              \* StackViews
          Places, Sizes,                 \* ManualFrames
          Allowed                        \* what the wrappers' programs use

VARIABLES part,
          delegate, made, lives, links, stale, linking, super, keeper, change, asked,
          alive, loaded, appeared, place, children, parent, heard, todo,
          lists, sized, equally, builtFor, equal, index,
          frame, translates, stored, determined, wanted, laid

layers == <<delegate, made, lives, links, stale, linking, super, keeper, change, asked>>
controllers == <<alive, loaded, appeared, place, children, parent, heard, todo>>
stacks == <<lists, sized, equally, builtFor, equal, index>>
frames == <<frame, translates, stored, determined, wanted, laid>>
frameworks == <<part, vars, layers, controllers, stacks, frames>>

L == INSTANCE LayerDelegates WITH given <- made, life <- lives, Nobody <- Nil,
        Uses <- Allowed \cap {"dying", "race", "direct", "deep"}
C == INSTANCE ViewControllers WITH Nobody <- Nil,
        Uses <- Allowed \cap {"nested", "early", "reparent", "loadview"}
S == INSTANCE StackViews WITH None <- Nil, Uses <- Allowed \cap {"first", "again"}
M == INSTANCE ManualFrames WITH asked <- wanted, None <- Nil,
        Uses <- Allowed \cap {"half", "zero"}

ASSUME FrameworkConstants ==
    L!LayerConstants /\ C!ControllerConstants /\ S!StackConstants /\ M!FrameConstants

\* The others rest at what their initial states allow.
MCInit == /\ part \in Parts
          /\ part # "layers" => keeper = [d \in Owners |-> Nil]
          /\ part # "stacks" => sized = {}
          /\ part # "frames" => determined = {}
          /\ Init /\ L!Init /\ C!Init /\ S!Init /\ M!Init

MCNext ==
    \/ part = "weak" /\ Next /\ UNCHANGED <<part, layers, controllers, stacks, frames>>
    \/ part = "layers" /\ L!Next /\ UNCHANGED <<part, vars, controllers, stacks, frames>>
    \/ part = "controllers" /\ C!Next /\ UNCHANGED <<part, vars, layers, stacks, frames>>
    \/ part = "stacks" /\ S!Next /\ UNCHANGED <<part, vars, layers, controllers, frames>>
    \/ part = "frames" /\ M!Next /\ UNCHANGED <<part, vars, layers, controllers, stacks>>

MCSpec == MCInit /\ [][MCNext]_frameworks

Symmetric == Permutations(Threads) \cup Permutations(Slots)
             \cup Permutations(Owners) \cup Permutations(Layers)
             \cup Permutations(Controllers)

\* A layer's delegate is a zeroing weak reference, and none is sent a message
\* once its destruction has begun (EHLayerSetDelegate, EHCollectDelegates); not so
\* with a layer deeper than the collection goes ("deep"), nor with the others of
\* LayerDelegates' Uses.
DelegatesSafe == L!Zeroing /\ L!OnlyLiveAsked

\* A controller is told what happens to its view in order, and in full
\* (EHViewControllerView, EHViewDidMoveToWindow); not so if its loadView asks for
\* the view it has set ("loadview"): then it is told twice that it was loaded.
CallbacksInOrder == C!CallbacksInOrder

\* A view keeps the frame that no constraint determines (EHRememberManualFrame,
\* EHViewLayout).
FrameKept == M!FrameKept

\* Views share a stack equally, each is in it once and put within it
\* (eh_applyDistribution, EHStackInsertViewAtIndexInGravity), and keep their frames.
LayoutKept == S!SharedEqually /\ S!Insertable /\ FrameKept
=============================================================================
