------------------------------ MODULE Accounts ------------------------------
(***************************************************************************)
(* The accounts of the web server and the requests of administrators about  *)
(* them (user_api).  A request is checked when it arrives and takes effect   *)
(* later: the greenlets of the server interleave wherever one of them waits  *)
(* for the database.  The module has the steps; AccountDevices composes      *)
(* them with the tokens and the devices of the accounts.                     *)
(*                                                                         *)
(* The accounts live in the database of the server, not in LDAP.             *)
(***************************************************************************)
EXTENDS Naturals, FiniteSets

CONSTANTS
    Names,        \* usernames
    Protected,    \* RAVEN_PROTECTED_USERNAMES
    Founders,     \* administrators the installation starts with
    Workers,      \* requests under way at a time
    MaxRequests,  \* bound: requests of administrators
    MaxGen        \* bound: accounts of a name before another is asked for

ASSUME NameAssumption ==
    /\ Protected \subseteq Names /\ Founders \subseteq Names
    /\ "none" \notin Names /\ "null" \notin Names
ASSUME AccountBoundAssumption == MaxRequests \in Nat /\ MaxGen \in Nat \ {0}

VARIABLES
    exists,   \* names that have an account
    gen,      \* the how manieth account of its name this is
    active,   \* user.active
    roles,    \* user.roles
    flagged,  \* user.force_password_change
    temp,     \* the password in force was set by an administrator
    request,  \* the requests under way
    made      \* how many requests were made

flagVars == <<flagged, temp>>
accountVars == <<exists, gen, active, roles, flagVars>>
requestVars == <<request, made>>
adminVars == <<accountVars, requestVars>>

Roles == {"user", "administrator"}
Ops == {"create", "delete", "reset", "force", "deactivate", "activate",
        "setRole"}
RoleOps == {"create", "setRole"}

(* Routes that refuse the caller's own account, and routes that refuse a
   protected account unless it is the caller's own. *)
SelfRefused == {"delete", "deactivate", "setRole"}

(* Mutant: set_user_role does not ask for protection. *)
ShieldedButRole == {"delete", "reset", "force", "deactivate"}

Shielded == {"delete", "reset", "force", "deactivate", "setRole"}

Idle == [step |-> "idle", op |-> "none", on |-> "none", roles |-> {}, gen |-> 0]
Requests ==
    {Idle} \cup [step : {"checked", "set", "kick"}, op : Ops, on : Names,
                roles : SUBSET Roles, gen : Nat]

AccountInit ==
    /\ exists = Names
    /\ gen = [n \in Names |-> 1]
    /\ active = Names
    /\ roles = [n \in Names |-> IF n \in Founders THEN {"administrator"}
                                                  ELSE {"user"}]
    /\ flagged = {}
    /\ temp = {}
    /\ request = [w \in Workers |-> Idle]
    /\ made = 0
-----------------------------------------------------------------------------
(* current_user of a request: a deactivated account counts as anonymous, a
   flagged one has its response refused only after the request took effect.
   Sessions are left out: whoever could log in may make a request. *)
LoggedIn(n) == n \in exists \cap active
Administrator(n) == LoggedIn(n) /\ "administrator" \in roles[n]

(* A route of user_api, up to the point where it looks the account up. *)
Start(w, op, by, n, R) ==
    /\ request[w].step = "idle"
    /\ made < MaxRequests
    /\ Administrator(by)
    /\ op \in SelfRefused => n # by
    /\ op \in Shielded => n = by \/ n \notin Protected
    /\ (R # {}) <=> (op \in RoleOps)
    /\ op = "create" => gen[n] < MaxGen
    /\ made' = made + 1
    /\ request' = [request EXCEPT ![w] = [step |-> "checked", op |-> op,
                                          on |-> n, roles |-> R, gen |-> 0]]
    /\ UNCHANGED accountVars

Answer(w) == request' = [request EXCEPT ![w] = Idle]

Due(w, op) == request[w].step = "checked" /\ request[w].op = op

(* The account the request is about does not exist (any more), or for create
   exists already (the name is unique in the database). *)
NoSuchAccount(w) ==
    /\ request[w].step = "checked"
    /\ (request[w].on \in exists) <=> (request[w].op = "create")
    /\ Answer(w)
    /\ UNCHANGED <<accountVars, made>>

(* Mutant: an account that exists is created again. *)
CreateAgain(w) ==
    LET n == request[w].on IN
    /\ Due(w, "create")
    /\ exists' = exists \cup {n}
    /\ gen' = [gen EXCEPT ![n] = @ + 1]
    /\ active' = active \cup {n}
    /\ roles' = [roles EXCEPT ![n] = request[w].roles]
    /\ flagged' = flagged \cup {n}
    /\ temp' = temp \cup {n}
    /\ Answer(w)
    /\ UNCHANGED made

(* create_user: a new account starts with a password it has to change. *)
Create(w) ==
    LET n == request[w].on IN
    /\ Due(w, "create") /\ n \notin exists
    /\ exists' = exists \cup {n}
    /\ gen' = [gen EXCEPT ![n] = @ + 1]
    /\ active' = active \cup {n}
    /\ roles' = [roles EXCEPT ![n] = request[w].roles]
    /\ flagged' = flagged \cup {n}
    /\ temp' = temp \cup {n}
    /\ Answer(w)
    /\ UNCHANGED made

Delete(w) ==
    LET n == request[w].on IN
    /\ Due(w, "delete") /\ n \in exists
    /\ exists' = exists \ {n}
    /\ flagged' = flagged \ {n}
    /\ temp' = temp \ {n}
    /\ Answer(w)
    /\ UNCHANGED <<gen, active, roles, made>>

(* Mutant: the flag is set before the password, whose signal clears it. *)
ResetFlagsFirst(w) ==
    LET n == request[w].on IN
    /\ Due(w, "reset") /\ n \in exists
    /\ temp' = temp \cup {n}
    /\ flagged' = flagged \ {n}
    /\ Answer(w)
    /\ UNCHANGED <<exists, gen, active, roles, made>>

(* admin_reset_password, issue_temp_password: the password_changed signal of an
   account that is flagged clears the flag and commits, with the password. *)
Reset(w) ==
    LET n == request[w].on IN
    /\ Due(w, "reset") /\ n \in exists
    /\ temp' = temp \cup {n}
    /\ IF n \in flagged
       THEN /\ flagged' = flagged \ {n}
            /\ request' = [request EXCEPT ![w] = [@ EXCEPT !.step = "set", !.gen = gen[n]]]
       ELSE flagged' = flagged \cup {n} /\ Answer(w)
    /\ UNCHANGED <<exists, gen, active, roles, made>>

(* ... and then sets the flag again, if the row is still there. *)
ResetFlag(w) ==
    LET n == request[w].on IN
    /\ request[w].step = "set"
    /\ flagged' = IF n \in exists /\ gen[n] = request[w].gen
                  THEN flagged \cup {n} ELSE flagged
    /\ Answer(w)
    /\ UNCHANGED <<exists, gen, active, roles, temp, made>>

ForceChange(w) ==
    /\ Due(w, "force") /\ request[w].on \in exists
    /\ flagged' = flagged \cup {request[w].on}
    /\ Answer(w)
    /\ UNCHANGED <<exists, gen, active, roles, temp, made>>

(* deactivate_user up to its commit; an account that is already deactivated is
   answered at once, otherwise its devices are kicked next. *)
Deactivate(w) ==
    LET n == request[w].on IN
    /\ Due(w, "deactivate") /\ n \in exists
    /\ active' = active \ {n}
    /\ IF n \in active
       THEN request' = [request EXCEPT ![w] = [@ EXCEPT !.step = "kick", !.gen = gen[n]]]
       ELSE Answer(w)
    /\ UNCHANGED <<exists, gen, roles, flagVars, made>>

Activate(w) ==
    /\ Due(w, "activate") /\ request[w].on \in exists
    /\ active' = active \cup {request[w].on}
    /\ Answer(w)
    /\ UNCHANGED <<exists, gen, roles, flagVars, made>>

(* What is left of S by "for role in user.roles: remove_role_from_user(...)":
   the loop runs over the list it removes from and passes over every second
   role, in the order the database returned them. *)
Leftovers(S) == {L \in SUBSET S : Cardinality(L) = Cardinality(S) \div 2}

SetRole(w) ==
    LET n == request[w].on IN
    /\ Due(w, "setRole") /\ n \in exists
    /\ \E L \in Leftovers(roles[n]) :
        roles' = [roles EXCEPT ![n] = request[w].roles \cup L]
    /\ Answer(w)
    /\ UNCHANGED <<exists, gen, active, flagVars, made>>
-----------------------------------------------------------------------------
(* The user sets an own password: the signal clears the flag, unless the
   request read the account before an administrator flagged it. *)
OwnPassword(n) ==
    /\ LoggedIn(n) /\ n \in flagged \cup temp
    /\ temp' = temp \ {n}
    /\ flagged' \in {flagged, flagged \ {n}}
    /\ UNCHANGED <<exists, gen, active, roles, requestVars>>

(* The steps of a request that do not concern devices or tokens. *)
Serve(w) ==
    \/ NoSuchAccount(w) \/ Create(w) \/ Reset(w) \/ ResetFlag(w) \/ ForceChange(w)
    \/ Deactivate(w) \/ Activate(w) \/ SetRole(w)

AccountStep ==
    \/ \E w \in Workers, op \in Ops, by, n \in Names, R \in SUBSET Roles :
        Start(w, op, by, n, R)
    \/ \E w \in Workers : Serve(w)
    \/ \E n \in Names : OwnPassword(n)
-----------------------------------------------------------------------------
AccountTypeOK ==
    /\ exists \subseteq Names
    /\ gen \in [Names -> Nat \ {0}]
    /\ active \subseteq Names
    /\ roles \in [Names -> SUBSET Roles]
    /\ flagged \subseteq exists
    /\ temp \subseteq exists
    /\ request \in [Workers -> Requests]
    /\ made \in 0..MaxRequests

(* RAVEN_PROTECTED_USERNAMES: no one "can deactivate, delete, change the role"
   of a protected account: a protected founder stays an active administrator,
   whatever administrators it appoints and whatever they do to each other. *)
AdministratorStays ==
    \A n \in Protected \cap Founders :
        n \in exists \cap active /\ "administrator" \in roles[n]

(* admin_reset_password: "An admin-issued reset is a temporary password too":
   an account with such a password has to change it, but for the moment between
   the two commits of a reset. *)
TempIsFlagged ==
    \A n \in temp : n \in flagged
        \/ \E w \in Workers : request[w].step = "set" /\ request[w].on = n

(* The audit record of set_user_role, "Roles <old> -> <asked>": the request
   leaves the account with the roles it asked for. *)
RoleRequestDecides ==
    [][\A w \in Workers : Due(w, "setRole") /\ SetRole(w) =>
         roles'[request[w].on] = request[w].roles]_adminVars
=============================================================================
