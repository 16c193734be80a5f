----------------------------- MODULE StackViews -----------------------------
(***************************************************************************)
(* A stack view's arranged subviews (framework-stubs/AppKitWrapper.m): the *)
(* 10.11 calls made of 10.9's gravities, moves of a view already arranged, *)
(* and the constraints that share the run equally.  10.9's addView:,       *)
(* insertView: and removeView: (external) work on the lists of views; a    *)
(* view that leaves the stack loses the constraints on it.                 *)
(*                                                                         *)
(* `Uses` names what the program may do beyond what the code stands:       *)
(*   "first"   the first view is removed, and nothing done after it        *)
(*   "again"   a view is put back where it was before it was removed       *)
(***************************************************************************)
EXTENDS Naturals, Sequences, SequencesExt

CONSTANTS Views, Gravities,   \* the first is EH_STACK_GRAVITY_FIRST
          None, Uses

StackConstants == /\ Gravities \in Nat \ {0}
                  /\ Uses \subseteq {"first", "again"}

VARIABLES lists,      \* the views of each gravity
          sized,      \* the views that say how large they are
          equally,    \* the distribution is FillEqually
          builtFor,   \* the views the constraints were built for
          equal,      \* the constraints: which view is as large as which
          index       \* where the last insertion was made, and of how many

vars == <<lists, sized, equally, builtFor, equal, index>>

Init == /\ lists = [g \in 1..Gravities |-> <<>>]
        /\ sized \in SUBSET Views
        /\ equally = FALSE
        /\ builtFor = None
        /\ equal = {}
        /\ index = <<0, 0>>

Arranged(in) == FlattenSeq(in)
Within(view, in) == view \in Range(Arranged(in))

\* Mutation of Shared: each view is made as large as the one before it.
SharedWithLast(views, all) ==
    IF Len(views) < 2 \/ ~(all \/ Range(views) \cap sized = {}) THEN {}
    ELSE {<<views[i], views[i - 1]>> : i \in 2..Len(views)}

\* The views as large as the first, if the run is to be shared, or if none of
\* them says how large it is.
Shared(views, all) ==
    IF Len(views) < 2 \/ ~(all \/ Range(views) \cap sized = {}) THEN {}
    ELSE {<<views[i], views[1]>> : i \in 2..Len(views)}

\* eh_applyDistribution, of what was built before and is left of it.
Apply(in, before, left, all) ==
    /\ builtFor' = Arranged(in)
    /\ equal' = IF before = Arranged(in) THEN left ELSE Shared(Arranged(in), all)
    /\ before # Arranged(in) \/ "again" \in Uses

Without(view) == [g \in DOMAIN lists |-> RemoveFirst(lists[g], view)]
Unlinked(view) == {c \in equal : view \notin {c[1], c[2]}}

\* An index that has become too large, for the view came from the same gravity.
Place(in, gravity, i) == IF i > Len(in[gravity]) THEN Len(in[gravity]) ELSE i

\* EHStackAddViewInGravity and EHStackInsertViewAtIndexInGravity, which take a
\* view that is arranged out first; arranged subviews are of the first gravity.
Put(view, gravity, i) ==
    LET in == Without(view)
        at == IF Within(view, lists) THEN Place(in, gravity, i) ELSE i
    IN  /\ i <= Len(lists[gravity])
        /\ lists' = [in EXCEPT ![gravity] = SubSeq(@, 1, at) \o <<view>>
                                            \o SubSeq(@, at + 1, Len(@))]
        /\ index' = <<at, Len(in[gravity])>>
        /\ Apply(lists', builtFor, Unlinked(view), equally)
        /\ UNCHANGED <<sized, equally>>
AddView(view, gravity) == Put(view, gravity, Len(Without(view)[gravity]))
InsertView(view, gravity, i) == Put(view, gravity, i)

RemoveArrangedSubview(view) ==
    /\ Within(view, lists)
    /\ view = Head(Arranged(lists)) /\ Len(Arranged(lists)) > 2 => "first" \in Uses
    /\ lists' = Without(view)
    /\ equal' = Unlinked(view)
    /\ UNCHANGED <<sized, equally, builtFor, index>>

\* What was built is forgotten before the distribution is applied.
SetDistribution(fill) ==
    /\ equally' = fill
    /\ Apply(lists, None, {}, fill)
    /\ UNCHANGED <<lists, sized, index>>

\* What a view says of its size is looked at when the constraints are built.
Resize(view) ==
    /\ sized' = IF view \in sized THEN sized \ {view} ELSE sized \cup {view}
    /\ UNCHANGED <<lists, equally, builtFor, equal, index>>

Next == \E view \in Views :
            \/ \E gravity \in 1..Gravities :
                  \/ AddView(view, gravity)
                  \/ \E i \in 0..Len(lists[gravity]) : InsertView(view, gravity, i)
            \/ RemoveArrangedSubview(view)
            \/ \E fill \in BOOLEAN : SetDistribution(fill)
            \/ Resize(view)

Spec == Init /\ [][Next]_vars

(***************************************************************************)
(* Properties                                                              *)
(***************************************************************************)
\* A stack that fills equally has all its views as large as the first, whatever
\* was moved or removed, and no view is held to one that is not the first.
SharedEqually ==
    LET views == Arranged(lists) IN
    /\ equally => equal = Shared(views, TRUE)
    /\ \A c \in equal : Within(c[1], lists) /\ c[2] = Head(views)

\* No view is arranged twice, and none is inserted past the end.
Insertable == IsInjective(Arranged(lists)) /\ index[1] <= index[2]
=============================================================================
