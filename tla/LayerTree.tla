------------------------------ MODULE LayerTree ------------------------------
(****************************************************************************)
(* What the layers (folders) of a mission are to the people who file things  *)
(* in them: an ordered forest. Every request puts a layer somewhere, moves a *)
(* run of layers to one place, or takes a layer out with everything under    *)
(* it; nothing else moves.                                                   *)
(****************************************************************************)
EXTENDS Integers, Sequences, SequencesExt, FiniteSets

CONSTANTS Layers, Top

VARIABLE kids   \* a layer, or Top -> the sequence of layers in it

Places == Layers \cup {Top}
Empty == [p \in Places |-> <<>>]

Present(k) == {Top} \cup UNION {Range(k[p]) : p \in Places}

\* The layers of ls and everything below them.
Below(k, ls) ==
    {x \in Layers : \A S \in SUBSET Layers :
        ls \subseteq S /\ (\A y \in S : Range(k[y]) \subseteq S) => x \in S}

\* A layer is in one place, once.
Forest(k) ==
    \A p, q \in Places : \A i \in DOMAIN k[p], j \in DOMAIN k[q] :
        k[p][i] = k[q][j] => p = q /\ i = j

-----------------------------------------------------------------------------
(* From the forest k to the forest n. Every request names its layers; where  *)
(* they went is read off n.                                                  *)

Before(s, x, y) == \E i, j \in DOMAIN s : i < j /\ s[i] = x /\ s[j] = y

\* Nothing but the layers of ls comes, goes, or changes places with another.
Unmoved(k, n, ls) ==
    \A p \in Places :
        /\ Range(n[p]) \ ls = Range(k[p]) \ ls
        /\ \A x, y \in Range(k[p]) \ ls : Before(k[p], x, y) => Before(n[p], x, y)

\* No other layer stands between two of ls.
Together(s, ls) ==
    \A x, z \in ls, y \in Range(s) : Before(s, x, y) /\ Before(s, y, z) => y \in ls

Create(k, n, l, p) ==
    /\ l \notin Present(k) /\ p \in Present(k)
    /\ Unmoved(k, n, {l}) /\ l \in Range(n[p])

Move(k, n, ls, p) ==
    /\ ls \subseteq Present(k)
    /\ Unmoved(k, n, ls) /\ ls \subseteq Range(n[p]) /\ Together(n[p], ls)
    /\ p \in Present(k) \ Below(k, ls)

Delete(k, n, l) ==
    LET gone == Below(k, {l})
    IN  /\ l \in Present(k)
        /\ Unmoved([p \in Places |-> IF p \in gone THEN <<>> ELSE k[p]], n, gone)
        /\ \A p \in Places : Range(n[p]) \cap gone = {}

Change(k, n) ==
    \/ n = k
    \/ n = Empty
    \/ /\ Forest(n)
       /\ \/ \E p \in Places : \E l \in Range(n[p]) : Create(k, n, l, p)
          \/ \E p \in Places : \E ls \in (SUBSET Range(n[p])) \ {{}} : Move(k, n, ls, p)
          \/ \E l \in Layers : Delete(k, n, l)

Init == kids = Empty

Next == \E k \in {kids}, n \in {kids'} : Change(k, n)

Spec == Init /\ [][Next]_kids
=============================================================================
