------------------------------ MODULE TakGovLink ------------------------------
(****************************************************************************)
(* The link to a tak.gov account: an administrator links the server to an    *)
(* account, pages use its access token, which lives for minutes and is       *)
(* renewed with a refresh token that tak.gov changes at every use. A token   *)
(* that was used before ends the whole session there.                        *)
(*                                                                           *)
(* What is known of the account is in the configuration of the process and,  *)
(* for the next start, in config.yml; the access token is cached in memory.  *)
(* tak.gov is modelled by what the code and its comment say of it.           *)
(****************************************************************************)
EXTENDS Integers

CONSTANTS
    Callers,      \* slots for requests under way; 0 is nobody
    MaxLinks,     \* bound: times an account is linked
    MaxRenewals,  \* bound: refresh tokens of one session
    MaxFaults     \* bound: lost answers, failed writes and restarts

ASSUME LinkAssumption ==
    0 \notin Callers /\ MaxLinks \in Nat /\ MaxRenewals \in Nat /\ MaxFaults \in Nat

VARIABLES
    session,    \* tak.gov: session -> number of the refresh token it takes, Ended or Unused
    config,     \* app.config: linked, and the refresh token or NoToken
    saved,      \* config.yml
    cache,      \* _token_cache: the session the cached access token is of, or 0
    lock,       \* _token_lock: the request that holds it, or NoCaller
    call,       \* Callers -> request under way
    presented,  \* history: refresh tokens tak.gov was shown
    twice,      \* history: those it was shown again
    excused,    \* history: those whose answer was lost or whose successor was not saved
    faults

linkVars == <<session, config, saved, cache, lock, call, presented, twice, excused, faults>>

-----------------------------------------------------------------------------
Sessions == 1..MaxLinks
Unused == -2
Ended == -1
Token(s, n) == <<s, n>>
NoToken == Token(0, 0)
NoCaller == 0
Resting == [op |-> "none", token |-> NoToken, reply |-> NoToken]
Unlinked == [linked |-> FALSE, token |-> NoToken]

LinkInit ==
    /\ session = [s \in Sessions |-> Unused]
    /\ config = Unlinked /\ saved = Unlinked
    /\ cache = 0 /\ lock = NoCaller
    /\ call = [r \in Callers |-> Resting]
    /\ presented = {} /\ twice = {} /\ excused = {}
    /\ faults = 0

Goes(r, q) == call' = [call EXCEPT ![r] = q]
History == UNCHANGED <<presented, twice, excused>>
Fault == faults < MaxFaults /\ faults' = faults + 1

\* change_config_setting: an error is logged and forgotten; the setting then only
\* holds until the next start.
SaveSetting(c) ==
    /\ config' = c
    /\ \/ saved' = c /\ UNCHANGED <<excused, faults>>
       \/ saved' = saved /\ excused' = excused \cup {saved.token} /\ Fault

-----------------------------------------------------------------------------
(* Linking: tak.gov answers with a first refresh token once the user entered the *)
(* code that link_tak_gov_account asked for.                                     *)
GetInitialToken(r) ==
    /\ call[r] = Resting
    /\ \E s \in Sessions :
          /\ session[s] = Unused /\ \A x \in Sessions : x < s => session[x] # Unused
          /\ session' = [session EXCEPT ![s] = 0]
          /\ Goes(r, [op |-> "link", token |-> NoToken, reply |-> Token(s, 0)])
    /\ UNCHANGED <<config, saved, cache, lock, faults>> /\ History

Linked(r) ==
    /\ call[r].op = "link"
    /\ SaveSetting([linked |-> TRUE, token |-> call[r].reply])
    /\ Goes(r, Resting)
    /\ UNCHANGED <<session, cache, lock, presented, twice>>

\* The cached access token stays.
Unlink ==
    /\ config.linked
    /\ SaveSetting(Unlinked)
    /\ UNCHANGED <<session, cache, lock, call, presented, twice>>

-----------------------------------------------------------------------------
(* get_new_access_token. *)

\* The page's own renewal looks at the link; the lists, icons and downloads of
\* plugins do not.
GetNewToken(r) ==
    /\ call[r] = Resting
    /\ config.linked /\ config.token # NoToken
    /\ Goes(r, [Resting EXCEPT !.op = "wait"])
    /\ UNCHANGED <<session, config, saved, cache, lock, faults>> /\ History

GetPlugins(r) ==
    /\ call[r] = Resting
    /\ Goes(r, [Resting EXCEPT !.op = "wait"])
    /\ UNCHANGED <<session, config, saved, cache, lock, faults>> /\ History

\* Under the lock, a cached token is handed out ...
UseCached(r) ==
    /\ call[r].op = "wait" /\ lock = NoCaller
    /\ cache # 0
    /\ Goes(r, Resting)
    /\ UNCHANGED <<session, config, saved, cache, lock, faults>> /\ History

\* Mutant: the requests do not wait for each other.
PostAtOnce(r) ==
    /\ call[r].op = "wait"
    /\ cache = 0
    /\ lock' = r
    /\ Goes(r, [op |-> "posted", token |-> config.token, reply |-> NoToken])
    /\ UNCHANGED <<session, config, saved, cache, faults>> /\ History

\* ... or the refresh token is sent.
Post(r) ==
    /\ call[r].op = "wait" /\ lock = NoCaller
    /\ cache = 0
    /\ lock' = r
    /\ Goes(r, [op |-> "posted", token |-> config.token, reply |-> NoToken])
    /\ UNCHANGED <<session, config, saved, cache, faults>> /\ History

\* tak.gov: the token it expects is changed for the next; an old one ends the session.
TakGovAnswers(r) ==
    LET t == call[r].token
        s == t[1]
        good == t # NoToken /\ session[s] = t[2]
    IN  /\ call[r].op = "posted"
        /\ good => t[2] < MaxRenewals
        /\ session' = IF t = NoToken THEN session
                      ELSE [session EXCEPT ![s] = IF good THEN t[2] + 1 ELSE Ended]
        /\ presented' = IF t = NoToken THEN presented ELSE presented \cup {t}
        /\ twice' = twice \cup (presented \cap {t})
        /\ Goes(r, [op |-> "answered", token |-> t,
                    reply |-> IF good THEN Token(s, t[2] + 1) ELSE NoToken])
        /\ UNCHANGED <<config, saved, cache, lock, excused, faults>>

\* The token in the configuration is replaced whatever it is by now.
Renewed(r) ==
    /\ call[r].op = "answered"
    /\ IF call[r].reply = NoToken
       THEN UNCHANGED <<config, saved, cache, excused, faults>>
       ELSE /\ SaveSetting([config EXCEPT !.token = call[r].reply])
            /\ cache' = call[r].reply[1]
    /\ lock' = NoCaller
    /\ Goes(r, Resting)
    /\ UNCHANGED <<session, presented, twice>>

\* No answer comes: before tak.gov had the token, or after.
AnswerLost(r) ==
    /\ call[r].op \in {"link", "posted", "answered"}
    /\ Fault
    /\ excused' = excused \cup {call[r].token}
    /\ lock' = IF lock = r THEN NoCaller ELSE lock
    /\ Goes(r, Resting)
    /\ UNCHANGED <<session, config, saved, cache, presented, twice>>

\* expires_in less ten seconds have passed.
Expire ==
    /\ cache # 0
    /\ cache' = 0
    /\ UNCHANGED <<session, config, saved, lock, call, faults>> /\ History

WebRestarts ==
    /\ Fault
    /\ config' = saved
    /\ cache' = 0 /\ lock' = NoCaller
    /\ call' = [r \in Callers |-> Resting]
    /\ excused' = excused \cup {call[r].token : r \in Callers}
    /\ UNCHANGED <<session, saved, presented, twice>>

LinkNext ==
    \/ \E r \in Callers :
          \/ GetInitialToken(r) \/ Linked(r) \/ GetNewToken(r) \/ GetPlugins(r)
          \/ UseCached(r) \/ Post(r) \/ TakGovAnswers(r) \/ Renewed(r) \/ AnswerLost(r)
    \/ Unlink \/ Expire \/ WebRestarts

LinkSpec == LinkInit /\ [][LinkNext]_linkVars

-----------------------------------------------------------------------------
\* A refresh token is never used twice, which would end the session, unless its
\* answer was lost or its successor could not be saved ("concurrent callers share one
\* token instead of each rotating it themselves").
PresentedOnce == twice \subseteq excused

\* Not so: what is used belongs to the account that is linked.
UsedIsLinked == cache # 0 => config.linked /\ config.token[1] = cache
=============================================================================
