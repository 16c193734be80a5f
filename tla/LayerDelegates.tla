--------------------------- MODULE LayerDelegates ---------------------------
(***************************************************************************)
(* The delegates of layers (framework-stubs/QuartzCoreWrapper.m).  The     *)
(* system's layer keeps a plain pointer to its delegate; setDelegate: now  *)
(* gives the delegate an associated object, the backlinks, that clears the *)
(* pointers when the delegate is destroyed.  A change of the layers' tree  *)
(* is made without animations and with the delegates concerned held.       *)
(* Layers, their tree and the references to delegates are the system's     *)
(* and the program's (external).                                           *)
(*                                                                         *)
(* `Uses` names what the program may do beyond what the code stands:       *)
(*   "dying"   a delegate whose destruction has begun is asked for an      *)
(*             animation, or has a layer removed near its own              *)
(*   "race"    a layer gets a delegate while another thread destroys the   *)
(*             one it had                                                  *)
(*   "direct"  a delegate is given to a layer without setDelegate:         *)
(*   "deep"    a layer more than MaxDepth layers under a layer that is      *)
(*             changed: its delegate is not held                           *)
(***************************************************************************)
EXTENDS Naturals, FiniteSets

CONSTANTS Layers, Owners,   \* the objects that can be a delegate
          MaxCalls,         \* of setDelegate:, at once
          MaxDepth,         \* as far as delegates are collected: 32 in the code
          Nobody, Uses

LayerConstants == /\ MaxCalls \in Nat /\ MaxDepth \in Nat
                  /\ Nobody \notin Layers \cup Owners
                  /\ Uses \subseteq {"dying", "race", "direct", "deep"}

VARIABLES delegate,  \* the pointer in each layer
          given,     \* what the program last made each layer's delegate
          life,      \* of each owner: "live", "dying", "freed"
          links,     \* the layers in its backlinks
          stale,     \* those it found to point to it when it was destroyed
          linking,   \* the calls of setDelegate: that have set the pointer
          super,     \* the layer each layer is in
          keeper,    \* the layer that keeps each owner alive, if none but it does
          change,    \* the change of the tree under way
          asked      \* the owners the last step sent a message to

vars == <<delegate, given, life, links, stale, linking, super, keeper, change, asked>>
pointers == <<delegate, given, links, stale, linking>>

\* Sublayers that go, and those that come into a layer; the delegates the system
\* works with, those held, and those that end when they are let go.
NoChange == [at |-> "none", gone |-> {}, new |-> {}, into |-> Nobody,
             seen |-> {}, held |-> {}, due |-> {}]

Init == /\ delegate = [l \in Layers |-> Nobody]
        /\ given = delegate
        /\ life = [d \in Owners |-> "live"]
        /\ links = [d \in Owners |-> {}]
        /\ stale = links
        /\ linking = {}
        /\ super = [l \in Layers |-> Nobody]
        /\ keeper \in [Owners -> Layers \cup {Nobody}]
        /\ change = NoChange
        /\ asked = {}

\* The layers among those named and under them.
Under(above) ==
    LET height == Cardinality(Layers)
        up[n \in 0 .. height] == IF n = 0 THEN [m \in Layers |-> m]
                                ELSE [m \in Layers |-> IF up[n - 1][m] \in Layers
                                                      THEN super[up[n - 1][m]] ELSE Nobody]
    IN  {m \in Layers : \E n \in 0 .. height : up[n][m] \in above}

Quiet == asked' = {}
\* Only what is on its way out may not be asked.
Asks(owners) ==
    /\ \A d \in owners : life[d] \in {"live", "freed"} \/ "dying" \in Uses
    /\ asked' = owners

(***************************************************************************)
(* setDelegate:                                                            *)
(***************************************************************************)
\* The system's setDelegate:; of no delegate that is all.
SetDelegate(l, d) ==
    /\ d # Nobody => /\ life[d] = "live" /\ d \notin change.due
                     /\ Cardinality(linking) < MaxCalls
    /\ (\E e \in Owners : l \in stale[e]) => "race" \in Uses
    /\ delegate' = [delegate EXCEPT ![l] = d]
    /\ given' = [given EXCEPT ![l] = d]
    /\ linking' = IF d = Nobody THEN linking ELSE linking \cup {<<l, d>>}
    /\ Quiet /\ UNCHANGED <<life, links, stale, super, keeper, change>>

\* addLayer: under the delegate's lock, while the caller still has the delegate.
AddLayer(l, d) ==
    /\ <<l, d>> \in linking
    /\ linking' = linking \ {<<l, d>>}
    /\ \E linked \in IF "direct" \in Uses THEN {{}, {l}} ELSE {{l}} :
          links' = [links EXCEPT ![d] = @ \cup linked]
    /\ Quiet /\ UNCHANGED <<delegate, given, life, stale, super, keeper, change>>

(***************************************************************************)
(* The end of a delegate                                                   *)
(***************************************************************************)
\* The program's last reference goes: the destruction runs up to the associations.
Release(d) ==
    /\ life[d] = "live" /\ keeper[d] = Nobody
    /\ d \notin change.held /\ \A l \in Layers : <<l, d>> \notin linking
    /\ life' = [life EXCEPT ![d] = "dying"]
    /\ Quiet /\ UNCHANGED <<pointers, super, keeper, change>>

\* Mutation of Aimed: the pointers are not compared.
Linked(d) == links[d]

\* The layers still aimed at d.
Aimed(d) == {l \in links[d] : delegate[l] = d}

\* The backlinks' dealloc: each pointer is compared ...
Compare(d) ==
    /\ life[d] = "dying"
    /\ life' = [life EXCEPT ![d] = "compared"]
    /\ stale' = [stale EXCEPT ![d] = Aimed(d)]
    /\ Quiet /\ UNCHANGED <<delegate, given, links, linking, super, keeper, change>>

\* ... and cleared, which asks nothing of d, for actions are disabled.
Clear(d) ==
    /\ life[d] = "compared"
    /\ delegate' = [l \in Layers |-> IF l \in stale[d] THEN Nobody ELSE delegate[l]]
    /\ life' = [life EXCEPT ![d] = "freed"]
    /\ links' = [links EXCEPT ![d] = {}]
    /\ stale' = [stale EXCEPT ![d] = {}]
    /\ Quiet /\ UNCHANGED <<given, linking, super, keeper, change>>

(***************************************************************************)
(* The system's own steps and the layers' tree                             *)
(***************************************************************************)
\* A property of a layer changes: its delegate is asked for an animation.
Animate(l) ==
    /\ delegate[l] # Nobody /\ Asks({delegate[l]})
    /\ UNCHANGED <<pointers, life, super, keeper, change>>

\* EHCollectDelegates, which turns back MaxDepth layers under the one it began
\* with: a layer's depth there is the number of layers it is in, of those under l.
Collected(l) ==
    {m \in Under({l}) : Cardinality({k \in Under({l}) \ {m} : m \in Under({k})}) <= MaxDepth}
Delegates(some) == {delegate[m] : m \in some} \ {Nobody}

\* EHDelegatesInvolvedIn, of the layers a change begins at; the system works with
\* the delegates of all that is under them.
Involved(tops) == Delegates(UNION {Collected(l) : l \in tops})
Collect(gone, new, into, tops) ==
    /\ change = NoChange /\ Asks(Involved(tops))
    /\ Under(tops) \subseteq UNION {Collected(l) : l \in tops} \/ "deep" \in Uses
    /\ change' = [NoChange EXCEPT !.at = "collected", !.gone = gone, !.new = new, !.into = into,
                                  !.seen = Delegates(Under(tops)), !.held = Involved(tops)]
    /\ UNCHANGED <<pointers, life, super, keeper>>

RemoveFromSuperlayer(l) == Collect({l}, {}, Nobody, {l, super[l]} \ {Nobody})

SetSublayers(l, new) ==
    /\ \A m \in new : super[m] \in {l, Nobody} /\ l \notin Under({m})
    /\ Collect({m \in Layers : super[m] = l} \ new, new, l, {l})

\* The system's call; a layer that goes away takes with it the owners that only
\* it keeps alive, unless a backlinks object keeps the layer.  The call ends with
\* the delegates it began with ...
Change(ended) ==
    LET gone == Under(change.gone)
        kept(l) == \E d \in Owners : l \in links[d] /\ life[d] # "freed"
    IN
    /\ change.at = "collected"
    /\ \A d \in ended : /\ life[d] = "live" /\ keeper[d] \in gone /\ ~kept(keeper[d])
                        /\ \A l \in Layers : <<l, d>> \notin linking
    /\ super' = [l \in Layers |-> IF l \in change.new THEN change.into
                                  ELSE IF l \in change.gone THEN Nobody ELSE super[l]]
    /\ keeper' = [d \in Owners |-> IF d \in ended THEN Nobody ELSE keeper[d]]
    /\ life' = [d \in Owners |-> IF d \in ended \ change.held THEN "dying" ELSE life[d]]
    /\ change' = [NoChange EXCEPT !.at = "changed", !.held = change.held,
                                  !.due = ended \cap change.held]
    /\ asked' = change.seen
    /\ UNCHANGED pointers

\* ... and the wrapper lets them go.
LetGo ==
    /\ change.at = "changed"
    /\ life' = [d \in Owners |-> IF d \in change.due THEN "dying" ELSE life[d]]
    /\ change' = NoChange
    /\ Quiet /\ UNCHANGED <<pointers, super, keeper>>

Next == \/ \E l \in Layers, d \in Owners \cup {Nobody} : SetDelegate(l, d)
        \/ \E l \in Layers, d \in Owners : AddLayer(l, d)
        \/ \E d \in Owners : Release(d) \/ Compare(d) \/ Clear(d)
        \/ \E l \in Layers : Animate(l) \/ RemoveFromSuperlayer(l)
        \/ \E l \in Layers, new \in SUBSET Layers : SetSublayers(l, new)
        \/ \E ended \in SUBSET Owners : Change(ended)
        \/ LetGo

Spec == Init /\ [][Next]_vars

(***************************************************************************)
(* Properties                                                              *)
(***************************************************************************)
\* Each layer's delegate is a zeroing weak reference: it is what the program last
\* made it, and none once that is gone.
Zeroing ==
    \A l \in Layers :
        delegate[l] = IF given[l] # Nobody /\ life[given[l]] = "freed"
                      THEN Nobody ELSE given[l]

\* No owner is sent a message once its destruction has begun.
OnlyLiveAsked == \A d \in asked : life[d] = "live"
=============================================================================
