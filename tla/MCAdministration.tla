-------------------------- MODULE MCAdministration --------------------------
(* Instances of what administrators see to, for TLC: accounts with their tokens and
   connections, device profiles, the certificates of an account, the link to
   tak.gov, and the scheduled jobs.  What has no state in common is explored one
   without the other: the tokens, the connections (each with all requests about
   accounts) and each of the others; one run, the sum of the state spaces instead
   of their product. *)
EXTENDS AccountDevices, DeviceProfiles, CertificateIssuance, TakGovLink, Scheduler, TLC

CONSTANTS d1, t1, w1, w2, e1, k1, v1, v2, a1, b1, b2

VARIABLE part

(* A profile for everyone or for the group. *)
Audience == {{"everyone"}, {"group"}}

(* Requests are alike, and so are values. *)
Alike == Permutations(Workers) \cup Permutations(Values)

otherVars == <<issuanceVars, linkVars, schedulerVars>>

MCInit ==
    /\ Init /\ ProfilesInit /\ IssuanceInit /\ LinkInit /\ SchedulerInit
    /\ part \in {"tokens", "connections", "profiles", "certificates", "takgov", "jobs"}
    /\ part # "certificates" => rows = <<>>

Accounting ==
    \/ AccountStep /\ UNCHANGED deviceVars
    \/ \E w \in Workers : DeleteUser(w) \/ Kick(w) \/ KickFails(w)

(* With tokens, two of the requests. *)
Few == part = "tokens" => made < 3

MCNext ==
    /\ \/ part \in {"tokens", "connections"} /\ Accounting /\ UNCHANGED <<profilesVars, otherVars>>
       \/ part = "tokens" /\ TokenStep /\ UNCHANGED <<profilesVars, otherVars>>
       \/ part = "connections" /\ DeviceStep /\ UNCHANGED <<profilesVars, otherVars>>
       \/ part = "profiles" /\ ProfilesNext /\ UNCHANGED <<vars, otherVars>>
       \/ /\ part = "certificates" /\ IssuanceNext
          /\ UNCHANGED <<vars, profilesVars, linkVars, schedulerVars>>
       \/ /\ part = "takgov" /\ LinkNext
          /\ UNCHANGED <<vars, profilesVars, issuanceVars, schedulerVars>>
       \/ /\ part = "jobs" /\ SchedulerNext
          /\ UNCHANGED <<vars, profilesVars, issuanceVars, linkVars>>
    /\ UNCHANGED part
    /\ Few'

MCSpec == MCInit /\ [][MCNext]_<<vars, profilesVars, otherVars, part>>
=============================================================================
