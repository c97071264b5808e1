----------------------------- MODULE Selection -----------------------------
(***************************************************************************)
(* What a table with an is_default column promises: items belong to owners, *)
(* and an owner has at most one chosen item, which is one of its own.       *)
(* Removing the chosen item hands the choice to another item of the owner.  *)
(* Catalog implements it twice: versions chosen by spaces, and vector       *)
(* indexes chosen by versions.                                              *)
(***************************************************************************)
EXTENDS Tables

CONSTANTS
    Items,
    Owners,
    Eager    \* TRUE if the first item an owner without a choice gets is chosen

VARIABLES
    owner,   \* item -> its owner, for the items that exist
    chosen   \* owner -> its chosen item, for the owners that have one

vars == <<owner, chosen>>

ItemsOf(o) == {i \in DOMAIN owner : owner[i] = o}
Chooses(o, i) == o \in DOMAIN chosen /\ chosen[o] = i

Init == owner = Empty /\ chosen = Empty

Add(i, o, pick) ==
    /\ i \notin DOMAIN owner
    /\ owner' = Put(owner, i, o)
    /\ chosen' = IF pick \/ (Eager /\ o \notin DOMAIN chosen)
                 THEN Put(chosen, o, i) ELSE chosen

(* Give an item to an owner, as its chosen item or not. *)
Assign(i, o, pick) ==
    /\ i \in DOMAIN owner
    /\ owner' = [owner EXCEPT ![i] = o]
    /\ LET others == IF Chooses(owner[i], i) THEN Drop(chosen, {owner[i]}) ELSE chosen
       IN  chosen' = IF pick THEN Put(others, o, i) ELSE others

Unchoose(o) == chosen' = Drop(chosen, {o}) /\ UNCHANGED owner

Remove(i) ==
    /\ i \in DOMAIN owner
    /\ owner' = Drop(owner, {i})
    /\ LET o == owner[i]
           others == ItemsOf(o) \ {i}
       IN  \/ /\ ~Chooses(o, i)
              /\ UNCHANGED chosen
           \/ /\ Chooses(o, i) /\ others = {}
              /\ chosen' = Drop(chosen, {o})
           \/ /\ Chooses(o, i)
              /\ \E j \in others : chosen' = Put(chosen, o, j)

RemoveOwners(O) ==
    /\ owner' = Drop(owner, UNION {ItemsOf(o) : o \in O})
    /\ chosen' = Drop(chosen, O)

Next ==
    \/ \E i \in Items, o \in Owners, pick \in BOOLEAN : Add(i, o, pick) \/ Assign(i, o, pick)
    \/ \E o \in Owners : Unchoose(o)
    \/ \E i \in Items : Remove(i)
    \/ \E O \in SUBSET Owners : RemoveOwners(O)

Spec == Init /\ [][Next]_vars

(* The chosen item of an owner exists and belongs to that owner. *)
ChosenIsOwn == \A o \in DOMAIN chosen : chosen[o] \in ItemsOf(o)
=============================================================================
