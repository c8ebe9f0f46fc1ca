------------------------------ MODULE CreateOnce ------------------------------
(***************************************************************************)
(* What the calls that create objects promise, whatever statements they     *)
(* are made of and whoever else uses the server: a call that reports        *)
(* "created" made the object itself, one that reports "exists" found it,    *)
(* and any number of callers that ask for one object get at most one        *)
(* "created" for each time that the object comes into being.                *)
(***************************************************************************)
EXTENDS Naturals, Sequences

CONSTANTS Clients, Objects
VARIABLES store, added, seen, told

vars == <<store, added, seen, told>>

\* An object is named by its path: <<graph>>, <<graph, schema>>, ...
Below(o) == {x \in Objects : Len(x) >= Len(o) /\ SubSeq(x, 1, Len(o)) = o}
Nothing == [what |-> "nothing", obj |-> <<>>]
NoClaim == [what |-> "no claim", obj |-> <<>>]
Created(o) == [what |-> "created", obj |-> o]
Exists(o) == [what |-> "exists", obj |-> o]

\* The object under another name, with everything below it.
Moved(x, o, n) == IF x \in Below(o) THEN [x EXCEPT ![Len(o)] = n] ELSE x

Init == /\ store \subseteq Objects
        /\ added = [c \in Clients |-> {}]
        /\ seen = [c \in Clients |-> {}]
        /\ told = [c \in Clients |-> Nothing]

Begin(c) == /\ added' = [added EXCEPT ![c] = {}]
            /\ seen' = [seen EXCEPT ![c] = {}]
            /\ told' = [told EXCEPT ![c] = Nothing]
            /\ UNCHANGED store

Look(c) == /\ told[c] = Nothing
           /\ \E o \in store : seen' = [seen EXCEPT ![c] = @ \cup {o}]
           /\ UNCHANGED <<store, added, told>>

\* The object comes into being, and with it the right to report it.
Create(c) == /\ told[c] = Nothing
             /\ \E o \in Objects \ store : /\ store' = store \cup {o}
                                           /\ added' = [added EXCEPT ![c] = @ \cup {o}]
             /\ UNCHANGED <<seen, told>>

Remove(c) == /\ told[c] = Nothing
             /\ \E o \in store : store' = store \ Below(o)
             /\ UNCHANGED <<added, seen, told>>

Rename(c) == /\ told[c] = Nothing
             /\ \E o \in store : \E p \in Objects \ store :
                  /\ Len(p) = Len(o)
                  /\ store' = {Moved(x, o, p[Len(p)]) : x \in store}
             /\ UNCHANGED <<added, seen, told>>

\* A report is truthful; an error, or a response that says neither, claims nothing.
Report(c) == /\ told[c] = Nothing
             /\ \/ told' = [told EXCEPT ![c] = NoClaim]
                \/ \E o \in added[c] : told' = [told EXCEPT ![c] = Created(o)]
                \/ \E o \in seen[c] : told' = [told EXCEPT ![c] = Exists(o)]
             /\ UNCHANGED <<store, added, seen>>

Next == \E c \in Clients : Begin(c) \/ Look(c) \/ Create(c) \/ Remove(c)
                          \/ Rename(c) \/ Report(c)

Spec == Init /\ [][Next]_vars
=============================================================================
