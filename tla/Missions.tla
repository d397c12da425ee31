------------------------------- MODULE Missions -------------------------------
(****************************************************************************)
(* A mission with its layers and its contents: only a device that owns the    *)
(* mission edits the layers, and a deleted mission takes everything with it,  *)
(* whatever requests are under way.                                           *)
(****************************************************************************)
EXTENDS MissionContents, MissionLayers

vars == <<mission, roles, invited, tokens, bound, call, removed, row, edit,
          other, content, linked, item, log, work>>

Init == AccessInit /\ LayersInit /\ ContentsInit

-----------------------------------------------------------------------------
\* Bound: no request on the layers or the contents outlasts the mission and the
\* making of the next one of its name.
NoneOutlasts ==
    (Missing /\ mission' # "none") =>
        (\A e \in Editors : edit[e] = NoEdit) /\ (\A w \in Writers : work[w] = NoWork)

Access ==
    /\ AccessCommit \/ \E r \in Requests : AccessRequest(r)
    /\ NoneOutlasts
    /\ UNCHANGED <<layerVars, contentVars>>

\* What goes with the mission's row: all layers, and the contents in one of two
\* ways. The clients' request mostly fails, and then all stays.
NoLayers == row' = [l \in {} |-> Top] /\ UNCHANGED edit

WebDelete == WebDeleteMission /\ WebDrops /\ NoLayers

ClientDelete(d) ==
    /\ DeleteMission(d)
    /\ IF mission' = "none" THEN ClientDrops /\ NoLayers
                            ELSE UNCHANGED <<layerVars, contentVars>>

\* _write_access: the mission, the token, the role.
MayEdit(d) == ~Missing /\ d \in tokens /\ IsOwner(d)

LayerStarts(e) ==
    /\ \E d \in Devices : MayEdit(d)
    /\ StartLayer(e)
    /\ UNCHANGED <<accessVars, contentVars>>

\* Every row names its mission: without it nothing can be committed.
LayerEnds(e) ==
    /\ IF Missing THEN edit[e] # NoEdit /\ Ends(e, Failed) ELSE EndLayer(e)
    /\ UNCHANGED <<accessVars, contentVars>>

Content ==
    /\ Elsewhere \/ \E w \in Writers : ContentRequest(w)
    /\ UNCHANGED <<accessVars, layerVars>>

Next ==
    \/ Access
    \/ WebDelete
    \/ \E d \in Devices : ClientDelete(d)
    \/ Content
    \/ \E e \in Editors : LayerStarts(e) \/ LayerEnds(e)

Spec == Init /\ [][Next]_vars

-----------------------------------------------------------------------------
TypeOK == AccessTypeOK /\ LayersTypeOK /\ ContentsTypeOK

\* Nothing outlives the mission: when its row is gone so are its roles,
\* invitations, layers, links, items and log, although requests that read them
\* go on. (A mission of the same name that is made later would inherit them.)
NothingWithoutMission ==
    Missing => /\ roles = NoRoles /\ invited = {}
               /\ DOMAIN row = {}
               /\ Linked("here") = {} /\ log = <<>> /\ \A i \in Items : item[i] # "here"
=============================================================================
