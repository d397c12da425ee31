---------------------------- MODULE MissionLayers ----------------------------
(****************************************************************************)
(* The layers of one mission as the database keeps them: every row names its *)
(* parent and the sibling it comes after. A request first reads (it looks    *)
(* its layer up and checks where it is to go), then writes and commits; the  *)
(* requests of other clients run between the two, because every query yields *)
(* to the other greenlets of the server and nothing is locked.               *)
(*                                                                           *)
(* A write keeps the values read at the start for the layer it is about, and *)
(* updates the siblings as they are by then. A parent that has gone makes    *)
(* the commit fail on its foreign key, a layer that has gone makes it fail   *)
(* on the row count; a failed request changes nothing.                       *)
(*                                                                           *)
(* Left out: names, types, the items filed in a layer, the recorded change   *)
(* and its notification.                                                     *)
(****************************************************************************)
EXTENDS Integers, Sequences, SequencesExt, FiniteSets

CONSTANTS
    Layers,    \* uids of layers
    Top,       \* no layer: the parent of a root, the predecessor of a first sibling
    Editors,   \* slots for requests under way
    MaxMoved   \* bound: layers named by one reparent request

ASSUME LayersAssumption ==
    Top \notin Layers /\ IsFiniteSet(Layers) /\ MaxMoved \in Nat \ {0}

VARIABLES
    row,   \* the rows: uid -> [parent, after]
    edit   \* Editors -> what the request has read

layerVars == <<row, edit>>

NoEdit == [op |-> "none"]

-----------------------------------------------------------------------------
(* Reading the rows t. *)

Row == [parent: Layers \cup {Top}, after: Layers \cup {Top}]
Exists(t, p) == p = Top \/ p \in DOMAIN t
Siblings(t, p) == {l \in DOMAIN t : t[l].parent = p}

\* _ordered: along the chain of `after`, then whatever is off the chain.
Ordered(t, siblings) ==
    CHOOSE s \in SetToSeqs(siblings) : \E n \in 0..Len(s) :
        /\ \A i \in 1..n : t[s[i]].after = IF i = 1 THEN Top ELSE s[i - 1]
        /\ \A i \in n + 1..Len(s) : t[s[i]].after # IF n = 0 THEN Top ELSE s[n]

\* _last_sibling
LastSibling(t, p, except) ==
    LET order == Ordered(t, Siblings(t, p) \ {except})
    IN  IF order = <<>> THEN Top ELSE order[Len(order)]

\* The layer, its parent, the parent of that, ... (_validate_placement's walk): in
\* every set that has the layer and the parents of its members.
Ancestors(t, l) ==
    {x \in Layers : \A S \in SUBSET Layers :
        l \in S /\ (\A y \in S \cap DOMAIN t : t[y].parent \in S \cup {Top}) => x \in S}

\* delete_mission_layer's subtree: the layer and all below it.
Subtree(t, l) == {x \in DOMAIN t : l \in Ancestors(t, x)}

\* _validate_placement; l is Top for a layer that is being created.
Placeable(t, l, p, a) ==
    /\ Exists(t, p)
    /\ p # Top => l \notin Ancestors(t, p)
    /\ a # Top => a \in Siblings(t, p) \ {l}

-----------------------------------------------------------------------------
(* Writing them. old is the row of the layer as the request read it. *)

\* _unlink: whoever came after the layer now comes after its predecessor.
Unlinked(t, l, old) ==
    [x \in DOMAIN t |-> IF t[x].parent = old.parent /\ t[x].after = l
                        THEN [t[x] EXCEPT !.after = old.after] ELSE t[x]]

\* _link, without the layer's own row: whoever came after a now comes after it.
Parted(t, l, p, a) ==
    [x \in DOMAIN t |-> IF t[x].parent = p /\ t[x].after = a /\ x # l
                        THEN [t[x] EXCEPT !.after = l] ELSE t[x]]

\* The flush writes the columns that differ from what was read.
Stored(t, l, old, p, a) ==
    [t EXCEPT ![l] = [parent |-> IF p = old.parent THEN @.parent ELSE p,
                      after |-> IF a = old.after THEN @.after ELSE a]]

\* What a transaction leaves: the rows it would commit, or none when it fails.
Failed == {}

\* One turn of reparent_mission_layers' loop; the last sibling is looked up
\* when the layer has left its old place.
Reparented(t, l, old, p, a, last) ==
    LET u == Unlinked(t, l, old)
        linked == IF last THEN Stored(u, l, old, p, LastSibling(u, p, l))
                  ELSE Stored(Parted(u, l, p, a), l, old, p, a)
    IN  IF l \in DOMAIN t /\ Exists(t, p) THEN {linked} ELSE Failed

\* The layers after the first are found, checked and moved inside the transaction.
ReparentedNext(t, l, p, a) ==
    IF l \in DOMAIN t /\ Placeable(t, l, p, a) THEN Reparented(t, l, t[l], p, a, FALSE) ELSE Failed

ReparentedAll(t, e) ==
    LET moved[n \in 1..Len(e.ls)] ==
            IF n = 1 THEN Reparented(t, e.ls[1], e.old, e.parent, e.after, e.last)
            ELSE UNION {ReparentedNext(u, e.ls[n], e.parent, e.ls[n - 1]) : u \in moved[n - 1]}
    IN  moved[Len(e.ls)]

-----------------------------------------------------------------------------
LayersInit ==
    /\ row = [l \in {} |-> Top]
    /\ edit = [r \in Editors |-> NoEdit]

Starts(r, e) ==
    /\ edit[r] = NoEdit
    /\ edit' = [edit EXCEPT ![r] = e]
    /\ UNCHANGED row

\* Commits and answers, or fails, changes nothing and answers with an error.
Ends(r, tables) ==
    /\ edit' = [edit EXCEPT ![r] = NoEdit]
    /\ row' \in IF tables = Failed THEN {row} ELSE tables

\* create_mission_layer; without `after` the layer goes last.
StartCreate(r, l, p, a) ==
    /\ l \notin DOMAIN row /\ Placeable(row, Top, p, a)
    /\ Starts(r, [op |-> "create", l |-> l, parent |-> p, last |-> a = Top,
                  after |-> IF a = Top THEN LastSibling(row, p, l) ELSE a])

EndCreate(r) ==
    LET e == edit[r]
        new == [parent |-> e.parent, after |-> e.after]
        others == IF e.last THEN row ELSE Parted(row, e.l, e.parent, e.after)
    IN  /\ e.op = "create"
        /\ Ends(r, IF e.l \notin DOMAIN row /\ Exists(row, e.parent)
                   THEN {[x \in DOMAIN row \cup {e.l} |-> IF x = e.l THEN new ELSE others[x]]}
                   ELSE Failed)

\* move_mission_layer; without `after` the layer goes first.
StartMove(r, l, a) ==
    /\ l \in DOMAIN row /\ Placeable(row, l, row[l].parent, a)
    /\ Starts(r, [op |-> "move", l |-> l, old |-> row[l], after |-> a])

\* Mutant: whoever came after the new predecessor still does.
EndMoveUnparted(r) ==
    LET e == edit[r]
    IN  /\ e.op = "move"
        /\ Ends(r, IF e.l \in DOMAIN row
                   THEN {Stored(Unlinked(row, e.l, e.old), e.l, e.old, e.old.parent, e.after)}
                   ELSE Failed)

EndMove(r) ==
    LET e == edit[r]
    IN  /\ e.op = "move"
        /\ Ends(r, IF e.l \in DOMAIN row
                   THEN {Stored(Parted(Unlinked(row, e.l, e.old), e.l, e.old.parent, e.after),
                                e.l, e.old, e.old.parent, e.after)}
                   ELSE Failed)

\* reparent_mission_layers; without `after` the first layer goes last.
StartReparent(r, ls, p, a) ==
    /\ ls[1] \in DOMAIN row /\ Placeable(row, ls[1], p, a)
    /\ Starts(r, [op |-> "reparent", ls |-> ls, old |-> row[ls[1]], parent |-> p, after |-> a,
                  last |-> a = Top])

EndReparent(r) ==
    /\ edit[r].op = "reparent"
    /\ Ends(r, ReparentedAll(row, edit[r]))

\* delete_mission_layer; deleting rows that have gone is no error.
StartDelete(r, l) ==
    /\ l \in DOMAIN row
    /\ Starts(r, [op |-> "delete", l |-> l, old |-> row[l]])

EndDelete(r) ==
    LET e == edit[r]
        kept == IF e.l \in DOMAIN row THEN DOMAIN row \ Subtree(row, e.l) ELSE DOMAIN row
        left == Unlinked(row, e.l, e.old)
    IN  /\ e.op = "delete"
        /\ Ends(r, {[x \in kept |-> left[x]]})

Lists == UNION {[1..n -> Layers] : n \in 1..MaxMoved}

StartLayer(r) ==
    \/ \E l \in Layers, p, a \in Layers \cup {Top} : StartCreate(r, l, p, a)
    \/ \E l \in Layers, a \in Layers \cup {Top} : StartMove(r, l, a)
    \/ \E ls \in Lists, p, a \in Layers \cup {Top} : StartReparent(r, ls, p, a)
    \/ \E l \in Layers : StartDelete(r, l)

EndLayer(r) == EndCreate(r) \/ EndMove(r) \/ EndReparent(r) \/ EndDelete(r)

-----------------------------------------------------------------------------
LayersTypeOK ==
    /\ \E ls \in SUBSET Layers : row \in [ls -> Row]
    /\ \A r \in Editors : edit[r].op \in {"none", "create", "move", "reparent", "delete"}

\* The layers as the web page and the clients see them (layer_tree).
layer_tree ==
    [p \in Layers \cup {Top} |-> IF Exists(row, p) THEN Ordered(row, Siblings(row, p)) ELSE <<>>]

Tree == INSTANCE LayerTree WITH kids <- layer_tree

\* The rows of one mission are an ordered forest, and a request does to it just
\* what it is documented to do, where requests come one at a time.
IsALayerTree == Tree!Spec

\* "Returns an error response if ... the move would put a layer inside itself":
\* no layer is inside itself.
NotInsideItself == \A l \in DOMAIN row : row[l].parent # Top => l \notin Ancestors(row, row[l].parent)
=============================================================================
