------------------------- MODULE FederationPolicy -------------------------
(***************************************************************************)
(* The guided Federation Hub page: requests of administrators that read the  *)
(* hub's active policy, change it, save, activate and confirm it, and undo   *)
(* what they did when a call fails (fedhub_partners, federation_hub_api).    *)
(*                                                                         *)
(* Every call to the hub that writes, and every read that decides, is a step  *)
(* of its own; the reads a request starts with are one step.  The requests   *)
(* that only pass a call on to the hub take no lock and come in between.     *)
(* A policy is reduced to the nodes that Raven tells apart and one bit for   *)
(* all settings of nodes, rules and views that keep the node ids.            *)
(***************************************************************************)
EXTENDS Naturals, FiniteSets

CONSTANTS
    Admins,      \* requests, each in one thread of the web application
    Nobody,      \* model value: _POLICY_LOCK is free
    Cas,         \* CAs of other servers; the hub's own is always known
    NoCa,        \* an outgoing node Raven did not link to a CA
    Names,       \* of policies
    DefaultName, \* DEFAULT_POLICY_NAME
    NoPolicy,
    Nicks,       \* nicknames of CAs
    Drafts,      \* whole policies the editor may send
    Replies,     \* of the hub, a subset of AllReplies
    Tunings,     \* bound: the values of the settings bit a change may set
    MaxNodes     \* bound: nodes of one partner in a policy

(* "late": the call timed out here and was carried out there; "ignored": the
   hub said yes and did nothing. *)
AllReplies == {"ok", "refused", "late", "ignored"}
Acts(r) == r \in {"ok", "late"}
Heard(r) == r \in {"ok", "ignored"}

Links == Cas \cup {NoCa}
Policies == [name : Names, own : {"absent", "off", "on"},
             groups : [Cas -> 0..MaxNodes], outs : [Links -> 0..MaxNodes],
             tuned : BOOLEAN]
PolicyOrNone == Policies \cup {NoPolicy}

ASSUME PolicyAssumption ==
    /\ NoCa \notin Cas /\ Nobody \notin Admins /\ NoPolicy \notin Policies
    /\ DefaultName \in Names /\ Drafts \subseteq Policies
    /\ Replies \subseteq AllReplies /\ MaxNodes \in Nat \ {0}
    /\ Tunings \subseteq BOOLEAN
    /\ Nicks # {}

VARIABLES
    policy_lock,  \* _POLICY_LOCK
    doing,    \* where a request is
    job,      \* what it has read and decided
    answer,   \* how the last one ended
    trusted,  \* CAs in the hub's truststore
    nick,     \* their nicknames
    stored,   \* policies the hub keeps, by name
    active    \* the policy the hub enforces

hub == <<trusted, nick, stored, active>>
policyVars == <<policy_lock, doing, job, answer, hub>>

(* Requests in the middle of apply_policy and of what surrounds it. *)
Before == {"trust", "reread", "renameNew", "rename"}
Applying == {"save", "activate", "confirm", "resave", "reactivate", "reconfirm"}
Undoing == {"check", "untrust", "unname"}
Changing == Before \cup Applying \cup Undoing \cup {"dropCa"}

EmptyPolicy == [name |-> DefaultName, own |-> "absent",
                groups |-> [c \in Cas |-> 0], outs |-> [l \in Links |-> 0],
                tuned |-> FALSE]
AnyNick == CHOOSE n \in Nicks : TRUE
NoJob == [ca |-> NoCa, prev |-> NoPolicy, next |-> NoPolicy,
          name |-> AnyNick, old |-> AnyNick, added |-> FALSE, renamed |-> FALSE,
          drops |-> FALSE, force |-> FALSE]

PolicyInit ==
    /\ policy_lock = Nobody
    /\ doing = [a \in Admins |-> "idle"]
    /\ job = [a \in Admins |-> NoJob]
    /\ answer = "none"
    /\ trusted \in SUBSET Cas
    /\ nick \in [Cas -> Nicks]
    /\ active \in Drafts \cup {NoPolicy}
    /\ stored = [n \in Names |-> IF active # NoPolicy /\ active.name = n
                                 THEN active ELSE NoPolicy]
-----------------------------------------------------------------------------
(* What the pure functions of fedhub_partners make of a policy. *)
Uses(p, c) == p # NoPolicy /\ (p.groups[c] > 0 \/ p.outs[c] > 0)
OwnOn(p) == p # NoPolicy /\ p.own = "on"
EnsureOwn(p) == [p EXCEPT !.own = "on"]
Less(n) == IF n > 0 THEN n - 1 ELSE 0

AddPartner(p, c, dials) ==
    [EnsureOwn(p) EXCEPT !.groups[c] = @ + 1,
                         !.outs[c] = IF dials THEN @ + 1 ELSE @]

(* A partner is a CA node with the outgoing node linked to it, or an outgoing
   node alone: this one can be tuned, the first can also start or stop to dial. *)
Dials(p, l) ==
    IF l = NoCa \/ p.groups[l] = 0 THEN {p.outs[l]}
    ELSE {p.outs[l], IF p.outs[l] > 0 THEN p.outs[l] - 1 ELSE 1}

Changed(p, l, dials, t) == [EnsureOwn(p) EXCEPT !.outs[l] = dials, !.tuned = t]

RemovePartner(p, l) ==
    [p EXCEPT !.groups = [c \in Cas |-> IF c = l THEN 0 ELSE @[c]],
              !.outs[l] = Less(@)]

IsPartner(p, l) == p.outs[l] > 0 \/ (l \in Cas /\ p.groups[l] > 0)

(* entity_ids and the name, which is all that is compared. *)
Shape(p) == IF p = NoPolicy THEN NoPolicy
            ELSE <<p.name, p.own # "absent", p.groups, p.outs>>

(* policy_to_change: a new policy only for a hub that keeps none. *)
Changeable == active # NoPolicy \/ \A n \in Names : stored[n] = NoPolicy
ToChange == IF active # NoPolicy THEN active ELSE EmptyPolicy
-----------------------------------------------------------------------------
(* Mutant: the lock is not waited for. *)
LockAtOnce(a) ==
    /\ doing[a] = "idle"
    /\ policy_lock' = a
    /\ doing' = [doing EXCEPT ![a] = "locked"]
    /\ answer' = "none"
    /\ UNCHANGED <<job, hub>>

Lock(a) ==
    /\ doing[a] = "idle" /\ policy_lock = Nobody
    /\ policy_lock' = a
    /\ doing' = [doing EXCEPT ![a] = "locked"]
    /\ answer' = "none"
    /\ UNCHANGED <<job, hub>>

Goto(a, to) == doing' = [doing EXCEPT ![a] = to] /\ UNCHANGED <<policy_lock, job, answer>>

(* The route answers and leaves the lock. *)
Answer(a, how) ==
    /\ policy_lock' = Nobody
    /\ doing' = [doing EXCEPT ![a] = "idle"]
    /\ job' = [job EXCEPT ![a] = NoJob]
    /\ answer' = how

(* Any request may be turned down by what it has read, before it writes. *)
Refuse(a) == doing[a] = "locked" /\ Answer(a, "none") /\ UNCHANGED hub

Start(a, j, to) ==
    /\ doing[a] = "locked"
    /\ job' = [job EXCEPT ![a] = j]
    /\ doing' = [doing EXCEPT ![a] = to]
    /\ UNCHANGED <<policy_lock, answer, hub>>

StartCreate(a, c, dials, name) ==
    /\ Changeable
    /\ c \in trusted => ToChange.groups[c] = 0
    /\ ToChange.groups[c] < MaxNodes /\ ToChange.outs[c] < MaxNodes
    /\ LET j == [NoJob EXCEPT !.ca = c, !.prev = active,
                              !.next = AddPartner(ToChange, c, dials)]
       IN  IF c \in trusted /\ nick[c] = name THEN Start(a, j, "save")
           ELSE Start(a, [j EXCEPT !.name = name, !.old = nick[c]],
                      IF c \in trusted THEN "renameNew" ELSE "trust")

StartUpdate(a, l, name) ==
    /\ active # NoPolicy /\ IsPartner(active, l)
    /\ \E n \in Dials(active, l), t \in Tunings :
         LET j == [NoJob EXCEPT !.prev = active, !.next = Changed(active, l, n, t)]
         IN  IF l \in trusted /\ active.groups[l] > 0 /\ nick[l] # name
             THEN Start(a, [j EXCEPT !.ca = l, !.name = name, !.old = nick[l]],
                        "rename")
             ELSE Start(a, j, "save")

StartDelete(a, l, keep) ==
    /\ active # NoPolicy /\ IsPartner(active, l)
    /\ LET j == [NoJob EXCEPT !.prev = active, !.next = RemovePartner(active, l)]
       IN  Start(a, IF ~keep /\ l \in trusted /\ active.groups[l] > 0
                    THEN [j EXCEPT !.ca = l, !.drops = TRUE] ELSE j, "save")

StartRepair(a) ==
    /\ Changeable /\ ~OwnOn(ToChange)
    /\ Start(a, [NoJob EXCEPT !.prev = active, !.next = EnsureOwn(ToChange)],
             "save")

StartActivate(a, n, force) ==
    /\ stored[n] # NoPolicy /\ (force \/ OwnOn(stored[n]))
    /\ Start(a, [NoJob EXCEPT !.prev = active, !.next = stored[n]], "save")

StartSave(a, p, force) ==
    /\ force \/ OwnOn(p)
    /\ Start(a, [NoJob EXCEPT !.prev = active, !.next = p], "save")

StartDropCa(a, c, force) ==
    /\ force \/ ~Uses(active, c)
    /\ Start(a, [NoJob EXCEPT !.ca = c, !.force = force], "drop")
-----------------------------------------------------------------------------
(* create_partner: the CA of the new partner, or its new nickname. *)
Trust(a) ==
    /\ doing[a] = "trust"
    /\ \E r \in Replies :
         /\ IF Acts(r)
            THEN /\ trusted' = trusted \cup {job[a].ca}
                 /\ nick' = [nick EXCEPT ![job[a].ca] = job[a].name]
            ELSE UNCHANGED <<trusted, nick>>
         /\ IF Heard(r) THEN Goto(a, "reread") ELSE Answer(a, "failed")
    /\ UNCHANGED <<stored, active>>

Reread(a) ==
    /\ doing[a] = "reread"
    /\ \/ /\ job[a].ca \in trusted
          /\ job' = [job EXCEPT ![a].added = TRUE]
          /\ doing' = [doing EXCEPT ![a] = "save"]
          /\ UNCHANGED <<policy_lock, answer>>
       \/ Answer(a, "failed")
    /\ UNCHANGED hub

Renaming(a, r, to) ==
    /\ nick' = IF Acts(r) THEN [nick EXCEPT ![job[a].ca] = to] ELSE nick
    /\ UNCHANGED <<trusted, stored, active>>

RenameNew(a) ==
    /\ doing[a] = "renameNew"
    /\ \E r \in Replies :
         /\ Renaming(a, r, job[a].name)
         /\ job' = [job EXCEPT ![a].renamed = Heard(r)]
    /\ doing' = [doing EXCEPT ![a] = "save"]
    /\ UNCHANGED <<policy_lock, answer>>

Rename(a) ==
    /\ doing[a] = "rename"
    /\ \E r \in Replies :
         /\ Renaming(a, r, job[a].name)
         /\ IF Heard(r) THEN /\ job' = [job EXCEPT ![a].renamed = TRUE]
                             /\ doing' = [doing EXCEPT ![a] = "save"]
                             /\ UNCHANGED <<policy_lock, answer>>
            ELSE Answer(a, "failed")
-----------------------------------------------------------------------------
(* apply_policy *)
SaveOf(a, p, r) ==
    /\ stored' = IF Acts(r) THEN [stored EXCEPT ![p.name] = p] ELSE stored
    /\ UNCHANGED <<trusted, nick, active>>

ActivateOf(p, r) ==
    /\ stored[p.name] = NoPolicy => r = "refused"
    /\ active' = IF Acts(r) THEN stored[p.name] ELSE active
    /\ UNCHANGED <<trusted, nick, stored>>

(* What is left to the caller when apply_policy raises with undo_safe. *)
Undo(a) == IF job[a].added THEN Goto(a, "check")
           ELSE IF job[a].renamed THEN Goto(a, "unname")
           ELSE Answer(a, "undone")

(* Mutant: with no earlier policy the caller always undoes its changes. *)
FailUndoing(a, stage) ==
    IF job[a].prev # NoPolicy THEN Goto(a, "resave") ELSE Undo(a)

Fail(a, stage) ==
    IF job[a].prev # NoPolicy THEN Goto(a, "resave")
    ELSE IF stage = "save" THEN Undo(a)
    ELSE Answer(a, "unknown")

Save(a) ==
    /\ doing[a] = "save"
    /\ \E r \in Replies :
         /\ SaveOf(a, job[a].next, r)
         /\ IF Heard(r) THEN Goto(a, "activate") ELSE Fail(a, "save")

Activate(a) ==
    /\ doing[a] = "activate"
    /\ \E r \in Replies :
         /\ ActivateOf(job[a].next, r)
         /\ IF Heard(r) THEN Goto(a, "confirm") ELSE Fail(a, "activate")

(* Mutant: nothing is read again. *)
AppliedUnread(p) == TRUE

Applied(p) ==
    /\ Shape(active) = Shape(p)
    /\ OwnOn(p) => OwnOn(active)

Confirm(a) ==
    /\ doing[a] = "confirm"
    /\ \/ /\ Applied(job[a].next)
          /\ IF job[a].drops THEN Goto(a, "dropCa") ELSE Answer(a, "done")
       \/ Fail(a, "confirm")
    /\ UNCHANGED hub

Resave(a) ==
    /\ doing[a] = "resave"
    /\ \E r \in Replies :
         /\ SaveOf(a, job[a].prev, r)
         /\ IF Heard(r) THEN Goto(a, "reactivate") ELSE Answer(a, "unknown")

Reactivate(a) ==
    /\ doing[a] = "reactivate"
    /\ \E r \in Replies :
         /\ ActivateOf(job[a].prev, r)
         /\ IF Heard(r) THEN Goto(a, "reconfirm") ELSE Answer(a, "unknown")

Reconfirm(a) ==
    /\ doing[a] = "reconfirm"
    /\ \/ Shape(active) = Shape(job[a].prev) /\ Undo(a)
       \/ Answer(a, "unknown")
    /\ UNCHANGED hub
-----------------------------------------------------------------------------
(* create_partner takes its own changes back. *)
InStored(c) == \E n \in Names : Uses(stored[n], c)

Check(a) ==
    /\ doing[a] = "check"
    /\ \/ ~InStored(job[a].ca) /\ Goto(a, "untrust")
       \/ Answer(a, "unknown")
    /\ UNCHANGED hub

Untrusting(a, r) ==
    /\ trusted' = IF Acts(r) THEN trusted \ {job[a].ca} ELSE trusted
    /\ UNCHANGED <<nick, stored, active>>

Untrust(a) ==
    /\ doing[a] = "untrust"
    /\ \E r \in Replies : Untrusting(a, r)
    /\ Answer(a, "undone")

Unname(a) ==
    /\ doing[a] = "unname"
    /\ \E r \in Replies : Renaming(a, r, job[a].old)
    /\ Answer(a, "undone")

(* delete_partner: the CA goes after the policy, if nothing needs it. *)
CaFree(a) ==
    LET j == job[a]
    IN  /\ ~Uses(j.next, j.ca) /\ j.next.outs[NoCa] = 0
        /\ \A n \in Names : n # j.next.name => ~Uses(stored[n], j.ca)

DropPartnersCa(a) ==
    /\ doing[a] = "dropCa"
    /\ \/ CaFree(a) /\ \E r \in Replies : Untrusting(a, r)
       \/ UNCHANGED hub
    /\ Answer(a, "done")

(* delete_ca_group *)
DropCa(a) ==
    /\ doing[a] = "drop"
    /\ \E r \in Replies : Untrusting(a, r)
    /\ Answer(a, "none")
-----------------------------------------------------------------------------
(* Calls that are passed on to the hub without the lock. *)
Proxied == UNCHANGED <<policy_lock, doing, job, answer>>

SaveOnly(p) ==
    /\ stored' = [stored EXCEPT ![p.name] = p]
    /\ UNCHANGED <<trusted, nick, active>> /\ Proxied

DeleteStored(n) ==
    /\ stored' = [stored EXCEPT ![n] = NoPolicy]
    /\ UNCHANGED <<trusted, nick, active>> /\ Proxied

AddCaOnly(c, n) ==
    /\ c \notin trusted
    /\ trusted' = trusted \cup {c}
    /\ nick' = [nick EXCEPT ![c] = n]
    /\ UNCHANGED <<stored, active>> /\ Proxied

RenameOnly(c, n) ==
    /\ c \in trusted
    /\ nick' = [nick EXCEPT ![c] = n]
    /\ UNCHANGED <<trusted, stored, active>> /\ Proxied

Begin(a) ==
    \/ Lock(a) \/ Refuse(a) \/ StartRepair(a)
    \/ \E c \in Cas, d \in BOOLEAN, n \in Nicks : StartCreate(a, c, d, n)
    \/ \E l \in Links, n \in Nicks : StartUpdate(a, l, n)
    \/ \E l \in Links, k \in BOOLEAN : StartDelete(a, l, k)
    \/ \E n \in Names, f \in BOOLEAN : StartActivate(a, n, f)
    \/ \E p \in Drafts, f \in BOOLEAN : StartSave(a, p, f)
    \/ \E c \in Cas, f \in BOOLEAN : StartDropCa(a, c, f)

Continue(a) ==
    \/ Trust(a) \/ Reread(a) \/ RenameNew(a) \/ Rename(a)
    \/ Save(a) \/ Activate(a) \/ Confirm(a)
    \/ Resave(a) \/ Reactivate(a) \/ Reconfirm(a)
    \/ Check(a) \/ Untrust(a) \/ Unname(a) \/ DropPartnersCa(a) \/ DropCa(a)

Unlocked ==
    \/ \E p \in Drafts : SaveOnly(p)
    \/ \E n \in Names : DeleteStored(n)
    \/ \E c \in Cas, n \in Nicks : AddCaOnly(c, n) \/ RenameOnly(c, n)

PolicyNext == Unlocked \/ \E a \in Admins : Begin(a) \/ Continue(a)

PolicySpec == PolicyInit /\ [][PolicyNext]_policyVars
-----------------------------------------------------------------------------
Jobs == [ca : Links, prev : PolicyOrNone, next : PolicyOrNone,
         name : Nicks, old : Nicks, added : BOOLEAN, renamed : BOOLEAN,
         drops : BOOLEAN, force : BOOLEAN]

(* Every variable has its type, and only the holder of the lock is at work. *)
PolicyTypeOK ==
    /\ policy_lock \in Admins \cup {Nobody}
    /\ doing \in [Admins -> Changing \cup {"idle", "locked", "drop"}]
    /\ job \in [Admins -> Jobs]
    /\ answer \in {"none", "failed", "done", "undone", "unknown"}
    /\ trusted \subseteq Cas
    /\ nick \in [Cas -> Nicks]
    /\ stored \in [Names -> PolicyOrNone]
    /\ active \in PolicyOrNone
    /\ \A a \in Admins : doing[a] # "idle" => policy_lock = a

(* A request that changes the policy is HubChange: its answer is true of the
   nodes of the policy the hub enforces, whichever call failed, timed out or
   was ignored, and whatever others saved in between. *)
turnOf ==
    IF \E a \in Admins : doing[a] \in Changing
    THEN LET a == CHOOSE a \in Admins : doing[a] \in Changing
         IN  [user |-> a, from |-> Shape(job[a].prev), to |-> Shape(job[a].next)]
    ELSE Nobody

answerOf == IF answer = "failed" THEN "undone" ELSE answer

Shapes == {Shape(p) : p \in PolicyOrNone}

ASSUME TurnAssumption == Nobody \notin [user : Admins, from : Shapes, to : Shapes]

Change == INSTANCE HubChange WITH
            Users <- Admins, enforced <- Shape(active), turn <- turnOf,
            answer <- answerOf

Implements == Change!Spec

(* No request cuts another server off, or this one, that was not asked to. It takes
   no CA out of the truststore while the policy the hub enforces uses it, so that its
   nodes would dangle: unless the administrator forced it, or the request takes back
   its own addition for a node that dangled before.  And one that is answered with
   success and was not forced leaves Raven's own bridge: the hub's own CA node is
   enabled unless it was not before. *)
BridgesStay ==
    [][/\ \A c \in trusted \ trusted' :
             Uses(active, c) =>
               \E a \in Admins : \/ doing[a] = "drop" /\ job[a].force
                                 \/ doing[a] = "untrust" /\ Uses(job[a].prev, c)
       /\ \A a \in Admins :
             doing[a] # "idle" /\ doing'[a] = "idle" /\ answer' = "done" /\ OwnOn(job[a].next)
               => OwnOn(active')]_policyVars

(* "keeps two admins from interleaving those read-modify-write cycles"
   (federation_hub_api): a request that is answered with success is what the hub
   enforces, settings included. *)
SuccessIsApplied ==
    [][\A a \in Admins :
          doing[a] # "idle" /\ doing'[a] = "idle" /\ answer' = "done"
          => active' = job[a].next]_policyVars
=============================================================================
