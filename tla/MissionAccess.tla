---------------------------- MODULE MissionAccess ----------------------------
(****************************************************************************)
(* Who is on a mission (a Data Sync feed): the mission's row, the role rows, *)
(* the invitations, the tokens its clients hold and the broker's bindings    *)
(* their queues have to the mission's traffic.                               *)
(*                                                                           *)
(* Clients come through the Marti API with a token that names the mission    *)
(* (and never expires; iTAK with its role instead), browsers through the web *)
(* API. A request that commits several times, or reads before it commits, is *)
(* cut where another request can come between. The broker may fail a request *)
(* after what it committed.                                                  *)
(*                                                                           *)
(* One mission name; passwords, group visibility and whose certificate a     *)
(* request came with only decide whether a request is refused, so a request  *)
(* that they would refuse is one that is not made.                           *)
(****************************************************************************)
EXTENDS Integers, FiniteSets

CONSTANTS
    Devices,    \* EUDs
    Requests,   \* slots for requests under way
    MaxRows     \* bound: role rows of one device

ASSUME RowsAssumption == MaxRows \in Nat \ {0}

VARIABLES
    mission,   \* the row: "none", "ungrouped", or "grouped" with rows of groups_missions
    roles,     \* <<device, role type>> -> number of mission_roles rows
    invited,   \* mission_invitations: <<device, role type>>
    tokens,    \* devices a token of this mission name was made for
    bound,     \* devices whose queue is bound to missions.<name>
    call,      \* Requests -> request under way
    removed    \* history: devices taken off the mission that have not come back since

accessVars == <<mission, roles, invited, tokens, bound, call, removed>>

-----------------------------------------------------------------------------
RoleTypes == {"MISSION_OWNER", "MISSION_SUBSCRIBER"}
default_role == "MISSION_SUBSCRIBER"
NoCall == [op |-> "none"]

RolesOf(d) == {t \in RoleTypes : roles[<<d, t>>] > 0}
IsOwner(d) == "MISSION_OWNER" \in RolesOf(d)
Missing == mission = "none"
NoRoles == [x \in Devices \X RoleTypes |-> 0]

WithRole(d, t) == [roles EXCEPT ![<<d, t>>] = @ + 1]
WithoutRoles(d) == [x \in Devices \X RoleTypes |-> IF x[1] = d THEN 0 ELSE roles[x]]
RoomFor(d) == roles[<<d, "MISSION_OWNER">>] + roles[<<d, "MISSION_SUBSCRIBER">>] < MaxRows

\* Mutant: whatever row comes first, whether there is one or not.
OneRoleLessBlind(d) == {[roles EXCEPT ![<<d, t>>] = @ - 1] : t \in RoleTypes}

\* `.first()` of the device's rows, in no particular order, is deleted.
OneRoleLess(d) ==
    IF RolesOf(d) = {} THEN {roles} ELSE {[roles EXCEPT ![<<d, t>>] = @ - 1] : t \in RolesOf(d)}

AccessInit ==
    /\ mission = "none"
    /\ roles = NoRoles
    /\ invited = {} /\ tokens = {} /\ bound = {} /\ removed = {}
    /\ call = [r \in Requests |-> NoCall]

Begins(r, c) == call[r] = NoCall /\ call' = [call EXCEPT ![r] = c]
Continues(r, c) == call' = [call EXCEPT ![r] = c]
Answers(r) == call' = [call EXCEPT ![r] = NoCall]
\* One commit: it may come between the commits of the others.
Atomic == UNCHANGED call

-----------------------------------------------------------------------------
(* Creating and deleting the mission. *)

\* put_mission for a new name: the mission's row is committed on its own. An
\* unknown group ends the request here, with the mission in no group.
PutMission(r, d) ==
    /\ Missing
    /\ mission' = "ungrouped"
    /\ Begins(r, [op |-> "put", dev |-> d])
    /\ UNCHANGED <<roles, invited, tokens, bound, removed>>

PutMissionNoSuchGroup(r) ==
    /\ call[r].op = "put"
    /\ Answers(r)
    /\ UNCHANGED <<mission, roles, invited, tokens, bound, removed>>

\* The rows of the groups; then the owner's role and the first change.
PutMissionGroups(r) ==
    /\ call[r].op = "put"
    /\ IF Missing THEN UNCHANGED mission /\ Answers(r)
       ELSE mission' = "grouped" /\ Continues(r, [call[r] EXCEPT !.op = "own"])
    /\ UNCHANGED <<roles, invited, tokens, bound, removed>>

PutMissionOwner(r) ==
    LET d == call[r].dev
    IN  /\ call[r].op = "own"
        /\ Answers(r)
        /\ IF Missing THEN UNCHANGED <<roles, tokens, removed>>
           ELSE /\ RoomFor(d)
                /\ roles' = WithRole(d, "MISSION_OWNER")
                /\ tokens' = tokens \cup {d}
                /\ removed' = removed \ {d}
        /\ UNCHANGED <<mission, invited, bound>>

\* create_edit_mission: mission, role and invitation in one commit, then the
\* groups, which a browser may leave out. Editing an existing mission only
\* sets its groups.
CreateMission(d, groups) ==
    /\ Missing /\ Atomic
    /\ RoomFor(d)
    /\ mission' = IF groups THEN "grouped" ELSE "ungrouped"
    /\ roles' = WithRole(d, "MISSION_OWNER")
    /\ invited' = invited \cup {<<d, "MISSION_OWNER">>}
    /\ tokens' = tokens \cup {d}
    /\ removed' = removed \ {d}
    /\ UNCHANGED bound

EditMission ==
    /\ mission = "ungrouped" /\ Atomic
    /\ mission' = "grouped"
    /\ UNCHANGED <<roles, invited, tokens, bound, removed>>

Gone ==
    /\ mission' = "none"
    /\ roles' = NoRoles
    /\ invited' = {}

\* The clients' delete_mission. The relationship to the groups is view-only, so
\* nothing deletes the rows of groups_missions, and their foreign key fails the
\* commit.
DeleteMission(d) ==
    /\ ~Missing /\ Atomic
    /\ IsOwner(d)
    /\ IF mission = "grouped" THEN UNCHANGED <<mission, roles, invited>> ELSE Gone
    /\ UNCHANGED <<tokens, bound, removed>>

\* The browsers' delete_mission deletes table by table.
WebDeleteMission ==
    /\ ~Missing /\ Atomic
    /\ Gone
    /\ UNCHANGED <<tokens, bound, removed>>

-----------------------------------------------------------------------------
(* Subscribing: by token, or by uid (and password). *)

\* The role is read.
Subscribe(r, d) ==
    /\ ~Missing
    /\ Begins(r, [op |-> "subscribe", dev |-> d, known |-> RolesOf(d) # {}])
    /\ UNCHANGED <<mission, roles, invited, tokens, bound, removed>>

\* Mutant: nothing checks that the mission is still there.
SubscribeRoleUnchecked(r) ==
    LET d == call[r].dev
    IN  /\ call[r].op = "subscribe"
        /\ IF call[r].known THEN UNCHANGED <<roles, removed>>
           ELSE /\ RoomFor(d)
                /\ roles' = WithRole(d, default_role)
                /\ removed' = removed \ {d}
        /\ tokens' = tokens \cup {d}
        /\ Continues(r, [op |-> "bind", dev |-> d])
        /\ UNCHANGED <<mission, invited, bound>>

\* A role is added if none was read; a mission deleted by now fails the commit.
SubscribeRole(r) ==
    LET d == call[r].dev
    IN  /\ call[r].op = "subscribe"
        /\ IF Missing THEN Answers(r) /\ UNCHANGED <<roles, tokens, removed>>
           ELSE /\ IF call[r].known THEN UNCHANGED <<roles, removed>>
                   ELSE /\ RoomFor(d)
                        /\ roles' = WithRole(d, default_role)
                        /\ removed' = removed \ {d}
                /\ tokens' = tokens \cup {d}
                /\ Continues(r, [op |-> "bind", dev |-> d])
        /\ UNCHANGED <<mission, invited, bound>>

\* The queue is bound, the device's invitations are deleted.
SubscribeBind(r) ==
    LET d == call[r].dev
    IN  /\ call[r].op = "bind"
        /\ bound' = bound \cup {d}
        /\ invited' = {i \in invited : i[1] # d}
        /\ Answers(r)
        /\ UNCHANGED <<mission, roles, tokens, removed>>

\* The broker cannot be reached; the role stays.
BrokerFails(r) ==
    /\ call[r].op \in {"bind", "unbind"}
    /\ Answers(r)
    /\ UNCHANGED <<mission, roles, invited, tokens, bound, removed>>

\* mission_unsubscribe
Unsubscribe(r, d) ==
    /\ d \in tokens
    /\ roles' \in OneRoleLess(d)
    /\ removed' = removed \cup {d}
    /\ Begins(r, [op |-> "unbind", dev |-> d])
    /\ UNCHANGED <<mission, invited, tokens, bound>>

UnsubscribeUnbind(r) ==
    /\ call[r].op = "unbind"
    /\ bound' = bound \ {call[r].dev}
    /\ Answers(r)
    /\ UNCHANGED <<mission, roles, invited, tokens, removed>>

-----------------------------------------------------------------------------
(* What members do to others. *)

\* change_eud_role with a role: all rows of the device are deleted ...
ChangeRole(r, o, d, t) ==
    /\ IsOwner(o)
    /\ roles' = WithoutRoles(d)
    /\ Begins(r, [op |-> "role", dev |-> d, type |-> t])
    /\ UNCHANGED <<mission, invited, tokens, bound, removed>>

\* ... and committed before the new one is added. The notice carries a token.
ChangeRoleAdd(r) ==
    LET d == call[r].dev
    IN  /\ call[r].op = "role"
        /\ IF Missing THEN UNCHANGED <<roles, tokens, removed>>
           ELSE /\ RoomFor(d)
                /\ roles' = WithRole(d, call[r].type)
                /\ tokens' = tokens \cup {d}
                /\ removed' = removed \ {d}
        /\ Answers(r)
        /\ UNCHANGED <<mission, invited, bound>>

\* change_eud_role without a role: the device is kicked off the mission.
Kick(o, d) ==
    /\ IsOwner(o) /\ Atomic
    /\ roles' \in OneRoleLess(d)
    /\ tokens' = tokens \cup {d}
    /\ removed' = removed \cup {d}
    /\ UNCHANGED <<mission, invited, bound>>

\* invite, invite_json, invite_eud: an invitation carries a token.
Invite(d, t) ==
    /\ ~Missing /\ Atomic
    /\ invited' = invited \cup {<<d, t>>}
    /\ tokens' = tokens \cup {d}
    /\ UNCHANGED <<mission, roles, bound, removed>>

DeleteInvitation(d) ==
    /\ ~Missing /\ Atomic
    /\ tokens # {}
    /\ invited' = {i \in invited : i[1] # d}
    /\ UNCHANGED <<mission, roles, tokens, bound, removed>>

\* The CoT parser, at a disconnect: the queue is unbound from every mission
\* there is by then.
Disconnect(d) ==
    /\ d \in bound /\ ~Missing
    /\ bound' = bound \ {d}
    /\ UNCHANGED <<mission, roles, invited, tokens, call, removed>>

AccessRequest(r) ==
    \/ \E d \in Devices :
          \/ PutMission(r, d) \/ Subscribe(r, d) \/ Unsubscribe(r, d)
          \/ \E o \in Devices, t \in RoleTypes : ChangeRole(r, o, d, t)
    \/ PutMissionNoSuchGroup(r) \/ PutMissionGroups(r) \/ PutMissionOwner(r)
    \/ SubscribeRole(r) \/ SubscribeBind(r) \/ UnsubscribeUnbind(r) \/ BrokerFails(r)
    \/ ChangeRoleAdd(r)

AccessCommit ==
    \/ \E d \in Devices :
          \/ \E g \in BOOLEAN : CreateMission(d, g)
          \/ \E t \in RoleTypes : Invite(d, t)
          \/ \E o \in Devices : Kick(o, d)
          \/ DeleteInvitation(d) \/ Disconnect(d)
    \/ EditMission

-----------------------------------------------------------------------------
AccessTypeOK ==
    /\ mission \in {"none", "ungrouped", "grouped"}
    /\ roles \in [Devices \X RoleTypes -> 0..MaxRows]
    /\ invited \subseteq Devices \X RoleTypes
    /\ tokens \subseteq Devices /\ bound \subseteq Devices /\ removed \subseteq Devices
    /\ \A r \in Requests :
          call[r].op \in {"none", "put", "own", "subscribe", "bind", "unbind", "role"}

\* A device that was kicked or has unsubscribed, and has not come back, has no
\* role on the mission (a token alone "gets nothing").
RemovedHasNoRole == \A d \in removed : RolesOf(d) = {}
=============================================================================
