--------------------------- MODULE GroupMembership ---------------------------
(****************************************************************************)
(* Who is a member of which group, which of the groups' traffic the queue   *)
(* of a member's device is bound to, and which groups a shared item (data    *)
(* package or video stream) is tagged with.                                  *)
(*                                                                           *)
(* The memberships are rows of the database; the bindings are kept by the    *)
(* broker. The group and user APIs, the visibility diagram and the expiry    *)
(* job change the rows, and some of them then unbind the devices; the        *)
(* handler of a connecting device and the active-groups request of a client  *)
(* read the rows and then bind one queue at a time. Nothing holds the two    *)
(* together, so this module says when they may differ.                       *)
(*                                                                           *)
(* Left out: LDAP (every writer below refuses when it is on), TCP devices    *)
(* (bound to the default group only), wording, audit events.                 *)
(****************************************************************************)
EXTENDS Integers, FiniteSets

CONSTANTS
    Users,       \* accounts, those to be created included
    Owners,      \* the accounts that have a device
    Named,       \* names an administrator may give to a group
    Anon,        \* "__ANON__"
    Items,       \* data packages and video streams
    Policies,    \* policies that administrators set
    Given,       \* expiries that administrators ask for
    Admins,      \* concurrent requests of administrators
    MaxChanges,  \* bound: requests that change rows or tags
    MaxListed    \* bound: subscriptions listed by one active-groups request

ASSUME BoundsAssumption == MaxChanges \in Nat /\ MaxListed \in Nat
ASSUME AnonAssumption == Anon \notin Named
ASSUME GivenAssumption == Given \subseteq {"never", "later"}
ASSUME OwnersAssumption == Owners \subseteq Users

VARIABLES
    account,   \* Users -> "new", "active" or "deleted"
    policy,    \* the groups that exist -> their policies
    row,       \* groups_users: <<user, group, direction>> -> row or NoRow
    tags,      \* Items -> the groups of the item, or NoItem
    bound,     \* broker: <<user, group>> when the device's queue hears the group
    dev,       \* Users -> session of the device
    switch,    \* Users -> active-groups request under way
    req,       \* Admins -> request under way
    expiring,  \* pairs the expiry job has committed and not yet unbound
    leftover,  \* history: bindings known to outlive their membership
    changes    \* bounded counter of changing requests

vars == <<account, policy, row, tags, bound, dev, switch, req, expiring, leftover, changes>>

-----------------------------------------------------------------------------
Directions == {"IN", "OUT"}
Accesses == {"both", "IN", "OUT"}
ACCESS_DIRECTIONS(a) == IF a = "both" THEN Directions ELSE {a}

\* One group per drawn pair of users, kept by the visibility diagram.
Pairwise == {{p[1], p[2]} : p \in {q \in Users \X Users : q[1] # q[2]}}
ASSUME PairAssumption == Pairwise \cap (Named \cup {Anon}) = {}

Names == Named \cup {Anon} \cup Pairwise
Group == DOMAIN policy

DefaultPolicy == [locked |-> FALSE, autoJoin |-> FALSE, access |-> "both", days |-> FALSE]
Policy == [locked: BOOLEAN, autoJoin: BOOLEAN, access: Accesses, days: BOOLEAN]

Expiries == {"never", "later", "past"}
NoRow == [enabled |-> FALSE, until |-> "none"]
NoItem == {{}}
Rows == Users \X Names \X Directions
Member(u, g, d) == row[<<u, g, d>>] # NoRow
RowsOf(u, g) == {d \in Directions : Member(u, g, d)}

Idle == [op |-> "idle"]
Offline == [pc |-> "off", todo |-> {}, mine |-> {}]
NoSwitch == [open |-> FALSE, defaulted |-> FALSE, read |-> [k \in {} |-> TRUE],
             flags |-> [k \in {} |-> TRUE]]

-----------------------------------------------------------------------------
(* Changes of the rows, and what they leave of the bindings. *)

\* add_membership: only the directions that are missing, each a new enabled row.
Added(r, us, g, a, until) ==
    [k \in Rows |-> IF k[1] \in us /\ k[2] = g /\ k[3] \in ACCESS_DIRECTIONS(a) /\ r[k] = NoRow
                    THEN [enabled |-> TRUE, until |-> until] ELSE r[k]]

Removed(r, ks) == [k \in Rows |-> IF k \in ks THEN NoRow ELSE r[k]]

default_expiry(g) == IF policy[g].days THEN "later" ELSE "never"

\* The earliest expiry of a member's rows, and never when none has one.
OldExpiry(u, g) ==
    LET until == {row[<<u, g, d>>].until : d \in RowsOf(u, g)}
    IN IF "past" \in until THEN "past" ELSE IF "later" \in until THEN "later" ELSE "never"

\* Mutant: the pairs of which the sending direction was removed.
HeardIn(ks) == {<<k[1], k[2]>> : k \in {x \in ks : x[3] = "IN"}}

\* unbind_euds: the pairs of which the receiving direction was removed.
Heard(ks) == {<<k[1], k[2]>> : k \in {x \in ks : x[3] = "OUT"}}

\* The bindings that removing ks leaves behind where nothing unbinds.
Orphan(ks) == leftover' = leftover \cup (Heard(ks) \cap bound)

Unbinding(pairs) == IF pairs = {} THEN Idle ELSE [op |-> "unbind", pairs |-> pairs]

Count == changes < MaxChanges /\ changes' = changes + 1

Start(w) == req[w] = Idle /\ Count

-----------------------------------------------------------------------------
(* The group API. Every handler refuses a pairwise group and a locked one. *)

\* Mutant: the lock is not looked at.
OpenLocked(g) == g \in Group \ Pairwise

Open(g) == g \in Group \ Pairwise /\ ~policy[g].locked

\* add_group. A name is taken again only when no request still holds it.
add_group(w, g, p) ==
    /\ Start(w)
    /\ g \in Named \ Group
    /\ \A x \in Admins : req[x].op \in {"add", "delete"} => req[x].group # g
    /\ policy' = [h \in Group \cup {g} |-> IF h = g THEN p ELSE policy[h]]
    /\ UNCHANGED <<account, row, tags, bound, dev, switch, req, expiring, leftover>>

\* update_group_policy: a locked group's policies, the lock included, still change.
update_group_policy(w, g, p) ==
    /\ Start(w)
    /\ g \in Group \ Pairwise
    /\ policy' = [policy EXCEPT ![g] = p]
    /\ UNCHANGED <<account, row, tags, bound, dev, switch, req, expiring, leftover>>

\* apply_group_auto_join: every active user without any row of the group.
apply_group_auto_join(w, g) ==
    /\ Start(w)
    /\ Open(g)
    /\ row' = Added(row, {u \in Users : account[u] = "active" /\ RowsOf(u, g) = {}},
                    g, policy[g].access, default_expiry(g))
    /\ UNCHANGED <<account, policy, tags, bound, dev, switch, req, expiring, leftover>>

\* add_user_to_group checks the group once and then commits user by user.
add_user_to_group(w, us, g, a, until) ==
    /\ Start(w)
    /\ Open(g)
    /\ req' = [req EXCEPT ![w] = [op |-> "add", users |-> us, group |-> g, access |-> a,
                                  until |-> IF until = "default" THEN default_expiry(g)
                                                                 ELSE until]]
    /\ UNCHANGED <<account, policy, row, tags, bound, dev, switch, expiring, leftover>>

\* One user of the list: an unknown name ends the request, and a row that the
\* database refuses (the group is gone) is skipped.
AddNext(w) ==
    /\ req[w].op = "add"
    /\ \E u \in req[w].users :
        LET q == req[w]
            rest == q.users \ {u}
        IN /\ req' = [req EXCEPT ![w] = IF account[u] # "active" \/ rest = {} THEN Idle
                                        ELSE [q EXCEPT !.users = rest]]
           /\ row' = IF account[u] = "active" /\ q.group \in Group
                     THEN Added(row, {u}, q.group, q.access, q.until) ELSE row
    /\ UNCHANGED <<account, policy, tags, bound, dev, switch, expiring, leftover, changes>>

\* remove_user_from_group commits the removal; the unbinding is a later step.
remove_user_from_group(w, u, g, a) ==
    LET gone == {<<u, g, d>> : d \in RowsOf(u, g) \cap ACCESS_DIRECTIONS(a)}
    IN /\ Start(w)
       /\ Open(g)
       /\ account[u] = "active"
       /\ row' = Removed(row, gone)
       /\ req' = [req EXCEPT ![w] = Unbinding(Heard(gone))]
       /\ UNCHANGED <<account, policy, tags, bound, dev, switch, expiring, leftover>>

\* update_group_member: "keep" stands for a key that the request leaves out. A
\* direction that is added takes the member's present expiry unless one is given.
update_group_member(w, u, g, a, until) ==
    LET old == RowsOf(u, g)
        wanted == IF a = "keep" THEN old ELSE ACCESS_DIRECTIONS(a)
        expires == IF until = "keep" THEN OldExpiry(u, g) ELSE until
        gone == {<<u, g, d>> : d \in old \ wanted}
        Kept(k) == k[1] = u /\ k[2] = g /\ k[3] \in old \cap wanted
        widened == IF a = "keep" THEN row ELSE Added(row, {u}, g, a, expires)
    IN /\ Start(w)
       /\ ~(a = "keep" /\ until = "keep")
       /\ Open(g)
       /\ account[u] = "active"
       /\ old # {}
       /\ row' = [k \in Rows |-> IF k \in gone THEN NoRow
                                 ELSE IF until # "keep" /\ Kept(k)
                                      THEN [row[k] EXCEPT !.until = until]
                                 ELSE widened[k]]
       /\ req' = [req EXCEPT ![w] = Unbinding(Heard(gone))]
       /\ UNCHANGED <<account, policy, tags, bound, dev, switch, expiring, leftover>>

\* _items_only_in_group: the items that deleting the group would show to everyone.
ItemsOnlyIn(g) == {i \in Items : tags[i] = {g}}

\* delete_group up to its checks.
delete_group(w, g) ==
    /\ Start(w)
    /\ Open(g)
    /\ g # Anon
    /\ ItemsOnlyIn(g) = {}
    /\ req' = [req EXCEPT ![w] = [op |-> "delete", group |-> g]]
    /\ UNCHANGED <<account, policy, row, tags, bound, dev, switch, expiring, leftover>>

\* The rows of the group, the group, and by cascade its tags.
Dropped(g) == {k \in Rows : k[2] = g /\ row[k] # NoRow}

Drop(g) ==
    /\ row' = Removed(row, Dropped(g))
    /\ policy' = [h \in Group \ {g} |-> policy[h]]
    /\ tags' = [i \in Items |-> IF tags[i] = NoItem THEN NoItem ELSE tags[i] \ {g}]

\* delete_group from its read of the members to its commit.
DeleteCommit(w) ==
    /\ req[w].op = "delete"
    /\ Drop(req[w].group)
    /\ req' = [req EXCEPT ![w] = Unbinding(Heard(Dropped(req[w].group)))]
    /\ UNCHANGED <<account, bound, dev, switch, expiring, leftover, changes>>

\* unbind_euds of a request, after its commit. It is best effort: where the
\* broker cannot be reached the binding stays.
Unbind(w) ==
    /\ req[w].op = "unbind"
    /\ req' = [req EXCEPT ![w] = Idle]
    /\ \/ bound' = bound \ req[w].pairs /\ leftover' = leftover \ req[w].pairs
       \/ leftover' = leftover \cup (bound \cap req[w].pairs) /\ UNCHANGED bound
    /\ UNCHANGED <<account, policy, row, tags, dev, switch, expiring, changes>>

-----------------------------------------------------------------------------
(* The visibility diagram: one group per pair, and no unbinding. *)

\* The grants of a connection in the order they are committed.
Grants(a, b, type) ==
    << [user |-> a, dir |-> "IN", present |-> TRUE],
       [user |-> b, dir |-> "OUT", present |-> TRUE],
       [user |-> b, dir |-> "IN", present |-> type = "solid"],
       [user |-> a, dir |-> "OUT", present |-> type = "solid"] >>

\* set_user_visibility: the group is found or made, the grants follow.
set_user_visibility(w, a, b, type) ==
    /\ Start(w)
    /\ a # b
    /\ account[a] = "active" /\ account[b] = "active"
    /\ policy' = [h \in Group \cup {{a, b}} |-> IF h \in Group THEN policy[h] ELSE DefaultPolicy]
    /\ req' = [req EXCEPT ![w] = [op |-> "draw", group |-> {a, b}, grants |-> Grants(a, b, type),
                                  next |-> 1]]
    /\ UNCHANGED <<account, row, tags, bound, dev, switch, expiring, leftover>>

\* _set_membership: adds or deletes one row and commits.
DrawNext(w) ==
    /\ req[w].op = "draw"
    /\ LET q == req[w]
           grant == q.grants[q.next]
           k == <<grant.user, q.group, grant.dir>>
       IN /\ row' = [row EXCEPT ![k] =
                IF ~grant.present THEN NoRow
                ELSE IF @ = NoRow /\ q.group \in Group /\ account[grant.user] = "active"
                     THEN [enabled |-> TRUE, until |-> "never"]
                ELSE @]
          /\ Orphan(IF grant.present THEN {} ELSE {k})
          /\ req' = [req EXCEPT ![w] = IF q.next = 4 THEN Idle ELSE [q EXCEPT !.next = @ + 1]]
    /\ UNCHANGED <<account, policy, tags, bound, dev, switch, expiring, changes>>

\* remove_user_visibility up to its check, and its commit.
remove_user_visibility(w, e) ==
    /\ Start(w)
    /\ e \in Pairwise \cap Group
    /\ ItemsOnlyIn(e) = {}
    /\ req' = [req EXCEPT ![w] = [op |-> "erase", group |-> e]]
    /\ UNCHANGED <<account, policy, row, tags, bound, dev, switch, expiring, leftover>>

EraseCommit(w) ==
    /\ req[w].op = "erase"
    /\ Drop(req[w].group)
    /\ Orphan(Dropped(req[w].group))
    /\ req' = [req EXCEPT ![w] = Idle]
    /\ UNCHANGED <<account, bound, dev, switch, expiring, changes>>

-----------------------------------------------------------------------------
(* The user API. *)

\* _add_to_anon_group, then apply_auto_join: pairwise groups never auto-join.
Joined(u) ==
    LET Auto == {g \in Group \ Pairwise : policy[g].autoJoin}
        anon == Added(row, {u}, Anon, "both", "never")
    IN [k \in Rows |-> IF k[1] = u /\ k[2] \in Auto
                       THEN Added(anon, {u}, k[2], policy[k[2]].access,
                                  default_expiry(k[2]))[k]
                       ELSE anon[k]]

create_user(w, u) ==
    /\ Start(w)
    /\ account[u] = "new"
    /\ account' = [account EXCEPT ![u] = "active"]
    /\ row' = Joined(u)
    /\ UNCHANGED <<policy, tags, bound, dev, switch, req, expiring, leftover>>

\* delete_user deletes the rows and the account; the queue of the device keeps
\* its bindings.
delete_user(w, u) ==
    LET gone == {k \in Rows : k[1] = u /\ row[k] # NoRow}
    IN /\ Start(w)
       /\ account[u] = "active"
       /\ account' = [account EXCEPT ![u] = "deleted"]
       /\ row' = Removed(row, gone)
       /\ Orphan(gone)
       /\ UNCHANGED <<policy, tags, bound, dev, switch, req, expiring>>

\* add_user_to_groups of the user API: it checks neither the lock nor the prefix.
add_user_to_groups(w, u, g, d) ==
    /\ Start(w)
    /\ account[u] = "active"
    /\ g \in Group
    /\ row' = Added(row, {u}, g, d, "never")
    /\ UNCHANGED <<account, policy, tags, bound, dev, switch, req, expiring, leftover>>

-----------------------------------------------------------------------------
(* Items. *)

\* assign_uploader_groups: the groups into which the uploader's data flows now.
Upload(u, i) ==
    /\ Count
    /\ account[u] = "active"
    /\ tags[i] = NoItem
    /\ tags' = [tags EXCEPT ![i] =
            {g \in Names : row[<<u, g, "IN">>].enabled /\ row[<<u, g, "IN">>].until # "past"}]
    /\ UNCHANGED <<account, policy, row, bound, dev, switch, req, expiring, leftover>>

\* edit_data_package_groups, edit_video_groups: administrators retag an item.
SetGroups(w, i, gs) ==
    /\ Start(w)
    /\ tags[i] # NoItem
    /\ gs \subseteq Group
    /\ tags' = [tags EXCEPT ![i] = gs]
    /\ UNCHANGED <<account, policy, row, bound, dev, switch, req, expiring, leftover>>

-----------------------------------------------------------------------------
(* Expiry: the time of a membership passes; the job deletes it, then unbinds. *)

Lapse(k) ==
    /\ row[k].until = "later"
    /\ row' = [row EXCEPT ![k].until = "past"]
    /\ UNCHANGED <<account, policy, tags, bound, dev, switch, req, expiring, leftover, changes>>

Past == {k \in Rows : row[k].until = "past"}

expire_memberships ==
    /\ expiring = {}
    /\ Past # {}
    /\ row' = Removed(row, Past)
    /\ expiring' = Heard(Past)
    /\ UNCHANGED <<account, policy, tags, bound, dev, switch, req, leftover, changes>>

\* One member and group at a time, best effort.
ExpireUnbind ==
    /\ \E p \in expiring :
        /\ expiring' = expiring \ {p}
        /\ \/ bound' = bound \ {p} /\ leftover' = leftover \ {p}
           \/ leftover' = leftover \cup (bound \cap {p}) /\ UNCHANGED bound
    /\ UNCHANGED <<account, policy, row, tags, dev, switch, req, changes>>

-----------------------------------------------------------------------------
(* The session of a device on the TLS port, and the client's own switches. *)

\* A binding is owed to a row while the row is there and enabled.
Entitled(u, g) == row[<<u, g, "OUT">>].enabled

\* The handler reads the receiving memberships; without one, the default group.
Connect(u) ==
    /\ dev[u].pc = "off"
    /\ account[u] = "active"
    /\ LET out == {g \in Names : Member(u, g, "OUT")}
       IN dev' = [dev EXCEPT ![u] =
            [pc |-> "binding",
             todo |-> IF out = {} THEN {Anon} ELSE {g \in out : Entitled(u, g)},
             mine |-> IF out = {} THEN {Anon} ELSE out]]
    /\ UNCHANGED <<account, policy, row, tags, bound, switch, req, expiring, leftover, changes>>

\* One queue_bind. What it binds may have ended since the read (or is the
\* default, for which there is no row).
BindNext(u) ==
    /\ dev[u].pc = "binding"
    /\ IF dev[u].todo = {}
       THEN dev' = [dev EXCEPT ![u].pc = "on"] /\ UNCHANGED <<bound, leftover>>
       ELSE \E g \in dev[u].todo :
                /\ dev' = [dev EXCEPT ![u].todo = @ \ {g}]
                /\ bound' = bound \cup {<<u, g>>}
                /\ leftover' = IF Entitled(u, g) THEN leftover ELSE leftover \cup {<<u, g>>}
    /\ UNCHANGED <<account, policy, row, tags, switch, req, expiring, changes>>

\* unbind_rabbitmq_queues undoes what this session bound, not what the client's
\* switches bound for it since.
Disconnect(u) ==
    /\ dev[u].pc = "on"
    /\ bound' = bound \ ({u} \X dev[u].mine)
    /\ leftover' = leftover \ ({u} \X dev[u].mine)
    /\ dev' = [dev EXCEPT ![u] = Offline]
    /\ UNCHANGED <<account, policy, row, tags, switch, req, expiring, changes>>

\* put_active_groups reads the rows, and offers the default group without any.
SwitchOpen(u) ==
    /\ Count
    /\ ~switch[u].open
    /\ account[u] = "active"
    /\ LET mine == {k \in Names \X Directions : Member(u, k[1], k[2])}
           offered == IF mine = {} THEN {Anon} \X Directions ELSE mine
       IN switch' = [switch EXCEPT ![u] = [open |-> TRUE, defaulted |-> mine = {},
               read |-> [k \in offered |-> mine = {} \/ row[<<u, k[1], k[2]>>].enabled],
               flags |-> [k \in {} |-> TRUE]]]
    /\ UNCHANGED <<account, policy, row, tags, bound, dev, req, expiring, leftover>>

\* One listed subscription the user has: the broker follows at once, the row at
\* the commit.
SwitchNext(u, k, active) ==
    LET s == switch[u]
        listed == DOMAIN s.flags \cup {k}
        pair == <<u, k[1]>>
    IN /\ s.open
       /\ k \in DOMAIN s.read
       /\ Cardinality(listed) <= MaxListed
       /\ switch' = [switch EXCEPT ![u].flags =
                        [x \in listed |-> IF x = k THEN active ELSE s.flags[x]]]
       /\ IF k[2] = "IN" THEN UNCHANGED <<bound, leftover>>
          ELSE IF active THEN bound' = bound \cup {pair} /\ UNCHANGED leftover
          ELSE bound' = bound \ {pair} /\ leftover' = leftover \ {pair}
       /\ UNCHANGED <<account, policy, row, tags, dev, req, expiring, changes>>

\* What a request leaves bound that its end, with the rows r, does not enable.
SwitchEnd(u, r) ==
    /\ leftover' = leftover \cup
            {<<u, k[1]>> : k \in {x \in DOMAIN switch[u].flags :
                x[2] = "OUT" /\ <<u, x[1]>> \in bound /\ ~r[<<u, x[1], "OUT">>].enabled}}
    /\ switch' = [switch EXCEPT ![u] = NoSwitch]
    /\ UNCHANGED <<account, policy, tags, bound, dev, req, expiring, changes>>

\* A listed group the user is not in: 403 and rollback, the broker keeps its part.
SwitchRefuse(u) ==
    /\ switch[u].open
    /\ UNCHANGED row
    /\ SwitchEnd(u, row)

\* The commit writes the flags that differ from what was read, and the rows of
\* the default group as new ones. It fails as a whole when a row to update has
\* gone or a row to insert is there.
SwitchCommit(u) ==
    LET s == switch[u]
        written == {k \in DOMAIN s.flags : s.defaulted \/ s.flags[k] # s.read[k]}
        Fits(k) == IF s.defaulted THEN ~Member(u, k[1], k[2]) /\ account[u] = "active"
                                  ELSE Member(u, k[1], k[2])
        Written(k) == k[1] = u /\ <<k[2], k[3]>> \in written
    IN /\ s.open
       /\ row' = IF \A k \in written : Fits(k)
                 THEN [k \in Rows |->
                        IF Written(k)
                        THEN [enabled |-> s.flags[<<k[2], k[3]>>],
                              until |-> IF s.defaulted THEN "never" ELSE row[k].until]
                        ELSE row[k]]
                 ELSE row
       /\ SwitchEnd(u, row')

-----------------------------------------------------------------------------
\* Any set of groups, and accounts that are in none, in the default group or in all.
Init ==
    /\ account \in [Users -> {"new", "active"}]
    /\ \E gs \in SUBSET Named : policy = [g \in gs \cup {Anon} |-> DefaultPolicy]
    /\ \E gs \in {{}, {Anon}, Group} :
         row = [k \in Rows |-> IF k[2] \in gs /\ account[k[1]] = "active"
                               THEN [enabled |-> TRUE, until |-> "never"] ELSE NoRow]
    /\ tags = [i \in Items |-> NoItem]
    /\ bound = {}
    /\ dev = [u \in Users |-> Offline]
    /\ switch = [u \in Users |-> NoSwitch]
    /\ req = [w \in Admins |-> Idle]
    /\ expiring = {}
    /\ leftover = {}
    /\ changes = 0

GroupRequest(w) ==
    \/ \E g \in Names, p \in Policies : add_group(w, g, p) \/ update_group_policy(w, g, p)
    \/ \E g \in Names : apply_group_auto_join(w, g) \/ delete_group(w, g)
    \/ \E g \in Names, us \in SUBSET Users \ {{}}, a \in Accesses,
          until \in Given \cup {"default"} : add_user_to_group(w, us, g, a, until)
    \/ \E u \in Users, g \in Names, a \in Accesses : remove_user_from_group(w, u, g, a)
    \/ \E u \in Users, g \in Names, a \in Accesses \cup {"keep"},
          until \in Given \cup {"keep"} : update_group_member(w, u, g, a, until)
    \/ AddNext(w) \/ DeleteCommit(w) \/ Unbind(w)

DiagramRequest(w) ==
    \/ \E a, b \in Users, type \in {"solid", "dotted"} : set_user_visibility(w, a, b, type)
    \/ \E e \in Pairwise : remove_user_visibility(w, e)
    \/ DrawNext(w) \/ EraseCommit(w)

UserRequest(w) ==
    \/ \E u \in Users : create_user(w, u) \/ delete_user(w, u)
    \/ \E u \in Users, g \in Names, d \in Directions : add_user_to_groups(w, u, g, d)
    \/ \E i \in Items, gs \in SUBSET Names : SetGroups(w, i, gs)

Device(u) ==
    \/ Connect(u) \/ BindNext(u) \/ Disconnect(u)
    \/ SwitchOpen(u) \/ SwitchRefuse(u) \/ SwitchCommit(u)
    \/ \E k \in Names \X Directions, active \in BOOLEAN : SwitchNext(u, k, active)

Next ==
    \/ \E w \in Admins : GroupRequest(w) \/ DiagramRequest(w) \/ UserRequest(w)
    \/ \E u \in Owners : Device(u)
    \/ \E u \in Users, i \in Items : Upload(u, i)
    \/ \E k \in Rows : Lapse(k)
    \/ expire_memberships \/ ExpireUnbind

Spec == Init /\ [][Next]_vars

-----------------------------------------------------------------------------
(* Properties. *)

\* The variables hold what the tables, the broker and the handlers can hold; a
\* row belongs to an account and a group that exist (the foreign keys), and a
\* tag to a group that exists.
TypeOK ==
    /\ account \in [Users -> {"new", "active", "deleted"}]
    /\ Group \subseteq Names /\ policy \in [Group -> Policy]
    /\ row \in [Rows -> [enabled: BOOLEAN, until: Expiries] \cup {NoRow}]
    /\ \A k \in Rows : row[k] # NoRow => k[2] \in Group /\ account[k[1]] = "active"
    /\ \A i \in Items : tags[i] = NoItem \/ tags[i] \subseteq Group
    /\ bound \subseteq Users \X Names
    /\ leftover \subseteq bound
    /\ \A u \in Users : dev[u].pc \in {"off", "binding", "on"} /\ dev[u].todo \subseteq dev[u].mine
    /\ \A w \in Admins :
        req[w].op \in {"idle", "add", "unbind", "delete", "draw", "erase"}
    /\ expiring \subseteq Users \X Names
    /\ changes \in 0..MaxChanges

\* A queue hears a group only while its user has an enabled receiving membership
\* of it, or the request or job that ended it is about to unbind it, or the
\* client's switch that bound it is about to enable it. What else stays bound is
\* what the history names: a binding of a row that ended after the handler had
\* read it, one the broker could not be reached for, one whose switch failed,
\* one of the default group, and what the diagram and the deletion of an
\* account, which do not unbind, leave. Every other way to end a membership
\* (removal, change of access, deletion of the group, expiry) unbinds.
BoundOnlyWhileMember ==
    \A p \in bound :
        \/ Entitled(p[1], p[2])
        \/ p \in leftover \cup expiring
        \/ \E w \in Admins : req[w].op = "unbind" /\ p \in req[w].pairs
        \/ <<p[2], "OUT">> \in DOMAIN switch[p[1]].flags

\* Group.locked: while a group is locked nobody leaves it but by expiry, by a
\* switch of their own default rows or with their account, nobody's access
\* changes, and nobody joins but a new account, by auto-join, and who the user
\* API adds, which does not look at the lock.
Locked(p) == {g \in DOMAIN p : p[g].locked}
UserApiAdds == \E w \in Admins, u \in Users, g \in Names, d \in Directions :
                    add_user_to_groups(w, u, g, d)
LockedStaysFrozen == [][
    \A g \in Locked(policy) :
        /\ g \in DOMAIN policy'
        /\ g \in Locked(policy') =>
            \A u \in Users, d \in Directions :
                LET k == <<u, g, d>>
                IN /\ row[k] # NoRow /\ row'[k] = NoRow
                        => row[k].until = "past" \/ account'[u] = "deleted"
                   /\ row[k] = NoRow /\ row'[k] # NoRow
                        => account[u] = "new" \/ switch[u].open \/ UserApiAdds
  ]_vars

\* _items_only_in_group: an item that some groups share never becomes visible to
\* everyone because its groups went; only a retagging takes the last one.
ItemsStayGrouped == [][
    \A i \in Items :
        tags[i] # NoItem /\ tags[i] # {} /\ tags'[i] = {} =>
            \E w \in Admins : SetGroups(w, i, {})
  ]_vars

=============================================================================
