--------------------------- MODULE ViewControllers ---------------------------
(***************************************************************************)
(* The life cycle that view controllers gained after 10.9                  *)
(* (framework-stubs/AppKitWrapper.m): a controller is told that its view   *)
(* was loaded, when the view is first asked for, and that it appears or    *)
(* disappears, when the view moves to a window or out of it.  The program  *)
(* may call back from all that it is told, so `todo` is the stack of what  *)
(* the calls under way have left to do.  Views, windows and references are *)
(* the system's and the program's (external).                              *)
(*                                                                         *)
(* `Uses` names what the program may do beyond what the code stands:       *)
(*   "nested"    a view moves while its controller is told that it will    *)
(*   "early"     a view is in a window before its controller is asked for it *)
(*   "reparent"  a controller gets a second parent while it has one        *)
(*   "loadview"  a controller is asked for its view in its own loadView,    *)
(*               which may already have set it                             *)
(***************************************************************************)
EXTENDS Naturals, Sequences

CONSTANTS Controllers, MaxTodo, Nobody, Uses

ControllerConstants == /\ MaxTodo \in Nat /\ Nobody \notin Controllers
                       /\ Uses \subseteq {"nested", "early", "reparent", "loadview"}

VARIABLES alive,     \* the controllers; their views may outlive them
          loaded,    \* kEHViewLoaded, and with it the view's owner
          appeared,  \* kEHAppeared
          place,     \* of each view: in no superview, in one, in a window's
          children, parent,
          heard,     \* what each controller was last told
          todo       \* calls left to make, and "in" a call to the program

vars == <<alive, loaded, appeared, place, children, parent, heard, todo>>
family == <<children, parent>>

Init == /\ alive = Controllers
        /\ loaded = {}
        /\ appeared = {}
        /\ place = [c \in Controllers |-> "out"]
        /\ children = [c \in Controllers |-> {}]
        /\ parent = [c \in Controllers |-> Nobody]
        /\ heard = [c \in Controllers |-> "nothing"]
        /\ todo = <<>>

Item(do, c, what) == <<do, c, what>>
Tell(c, what) == Item("tell", c, what)
Due(do, c) == \E i \in DOMAIN todo : todo[i][1] = do /\ todo[i][2] = c
Telling(c) == Due("tell", c)
Loading(c) == Due("loaded", c)

Doing(do) == todo # <<>> /\ Head(todo)[1] = do
Rest(items) == todo' = items \o Tail(todo)

\* The program calls from its own code, or from what it is told.
Program == IF todo = <<>> THEN TRUE ELSE Doing("in")
Push(items) == /\ Program /\ Len(todo) < MaxTodo
               /\ todo' = items \o todo

(***************************************************************************)
(* The program                                                             *)
(***************************************************************************)
View(c) == /\ c \in alive
           /\ ~Loading(c) \/ "loadview" \in Uses
           /\ Push(<<Item("load", c, "view")>>)
           /\ UNCHANGED <<alive, loaded, appeared, place, family, heard>>

\* A superview's insertion or removal of c's view.
Move(c, to) ==
    /\ to # place[c]
    /\ c \in loaded \/ "early" \in Uses
    /\ ~Telling(c) \/ "nested" \in Uses
    /\ Push(<<Item("move", c, to)>>)
    /\ UNCHANGED <<alive, loaded, appeared, place, family, heard>>

Transition(from, to) ==
    /\ {from, to} \subseteq alive /\ from # to
    /\ (~Telling(from) /\ ~Telling(to)) \/ "nested" \in Uses
    /\ (~Loading(from) /\ ~Loading(to)) \/ "loadview" \in Uses
    /\ Push(<<Item("load", from, "view"), Item("load", to, "view"), Item("swap", from, to)>>)
    /\ UNCHANGED <<alive, loaded, appeared, place, family, heard>>

Heirs(p, c) == {c} \cup children[p]
AddChild(p, c) ==
    /\ p # c /\ {p, c} \subseteq alive /\ Program
    /\ parent[c] \in {Nobody, p} \/ parent[c] \notin alive \/ "reparent" \in Uses
    /\ children' = [children EXCEPT ![p] = Heirs(p, c)]
    /\ parent' = [parent EXCEPT ![c] = p]
    /\ UNCHANGED <<alive, loaded, appeared, place, heard, todo>>

RemoveFromParent(c) ==
    /\ c \in alive /\ parent[c] \in alive /\ Program
    /\ children' = [children EXCEPT ![parent[c]] = @ \ {c}]
    /\ parent' = [parent EXCEPT ![c] = Nobody]
    /\ UNCHANGED <<alive, loaded, appeared, place, heard, todo>>

\* The program lets go of a controller that no call uses and no parent keeps.
Free(c) ==
    /\ c \in alive /\ \A i \in DOMAIN todo : c \notin {todo[i][2], todo[i][3]}
    /\ \A p \in alive : c \notin children[p]
    /\ alive' = alive \ {c}
    /\ children' = [children EXCEPT ![c] = {}]
    /\ UNCHANGED <<loaded, appeared, place, parent, heard, todo>>

(***************************************************************************)
(* The wrapper                                                             *)
(***************************************************************************)
\* EHViewControllerView: it looks whether the view was loaded before, and asks the
\* system for the view; the controller's loadView makes it, unless there is one.
Load ==
    LET c == Head(todo)[2]
        then == Item("loaded", c, "view")
    IN
    /\ Doing("load")
    /\ \/ c \in loaded /\ Rest(<<>>)
       \/ c \notin loaded /\ Rest(<<then>>)
       \/ c \notin loaded /\ Rest(<<Item("in", c, "loadView"), then>>)
    /\ UNCHANGED <<alive, loaded, appeared, place, family, heard>>

\* Mutation of Loaded: the view counts as loaded once the controller knows.
LoadedLast ==
    LET c == Head(todo)[2] IN
    /\ Doing("loaded")
    /\ loaded' = IF heard[c] # "nothing" THEN loaded \cup {c} ELSE loaded
    /\ Rest(<<Tell(c, "DidLoad")>>)
    /\ UNCHANGED <<alive, appeared, place, family, heard>>

\* What follows from that first look, whatever loadView did.
Loaded ==
    LET c == Head(todo)[2] IN
    /\ Doing("loaded")
    /\ loaded' = loaded \cup {c}
    /\ Rest(<<Tell(c, "DidLoad")>>)
    /\ UNCHANGED <<alive, appeared, place, family, heard>>

\* EHViewDidMoveToWindow, of a view whose owner is there.
DidMove ==
    LET c == Head(todo)[2]
        to == Head(todo)[3]
        known == c \in loaded /\ c \in alive
    IN
    /\ Doing("move")
    /\ place' = [place EXCEPT ![c] = to]
    /\ IF known /\ to = "window" /\ c \notin appeared
       THEN /\ appeared' = appeared \cup {c}
            /\ Rest(<<Tell(c, "WillAppear"), Tell(c, "DidAppear")>>)
       ELSE IF known /\ to # "window" /\ c \in appeared
       THEN /\ appeared' = appeared \ {c}
            /\ Rest(<<Tell(c, "WillDisappear"), Tell(c, "DidDisappear")>>)
       ELSE Rest(<<>>) /\ UNCHANGED appeared
    /\ UNCHANGED <<alive, loaded, family, heard>>

\* The end of transitionFromViewController:..., with both views.
Swap ==
    LET from == Head(todo)[2]
        to == Head(todo)[3]
        add == IF place[from] = "out" THEN <<>> ELSE <<Item("move", to, place[from])>>
    IN  /\ Doing("swap")
        /\ Rest(add \o <<Item("move", from, "out"), Item("in", from, "completion")>>)
        /\ UNCHANGED <<alive, loaded, appeared, place, family, heard>>

\* A controller is told, and its program returns.
Told == /\ Doing("tell")
        /\ heard' = [heard EXCEPT ![Head(todo)[2]] = Head(todo)[3]]
        /\ Rest(<<Item("in", Head(todo)[2], "told")>>)
        /\ UNCHANGED <<alive, loaded, appeared, place, family>>
Return == /\ Doing("in") /\ Rest(<<>>)
          /\ UNCHANGED <<alive, loaded, appeared, place, family, heard>>

Next == \/ \E c \in Controllers :
              View(c) \/ RemoveFromParent(c) \/ Free(c)
        \/ \E c \in Controllers, to \in {"out", "superview", "window"} : Move(c, to)
        \/ \E c, d \in Controllers : Transition(c, d) \/ AddChild(c, d)
        \/ Load \/ Loaded \/ DidMove \/ Swap \/ Told \/ Return

Spec == Init /\ [][Next]_vars

(***************************************************************************)
(* Properties                                                              *)
(***************************************************************************)
\* Between calls each controller knows where its view is, and parents and
\* children know each other; a controller is told nothing twice in a row.
Settled ==
    /\ Doing("tell") => heard[Head(todo)[2]] # Head(todo)[3]
    /\ todo = <<>> => \A c \in alive :
           (place[c] = "window") <=> (heard[c] = "DidAppear")
    /\ \A p, c \in alive : c \in children[p] <=> parent[c] = p

\* A controller is told once that its view was loaded, before anything else, and
\* then in turn that it will appear, did, will disappear and did; and so each
\* step leaves things settled.
CallbacksInOrder ==
    [][/\ \A c \in Controllers :
              heard'[c] # heard[c] =>
                  /\ c \in alive
                  /\ <<heard[c], heard'[c]>> \in
                         {<<"nothing", "DidLoad">>, <<"DidLoad", "WillAppear">>,
                          <<"WillAppear", "DidAppear">>, <<"DidAppear", "WillDisappear">>,
                          <<"WillDisappear", "DidDisappear">>,
                          <<"DidDisappear", "WillAppear">>}
       /\ Settled']_vars
=============================================================================
