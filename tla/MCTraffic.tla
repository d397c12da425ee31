----------------------------- MODULE MCTraffic -----------------------------
(* Instances for TLC of what goes through the server and what its services keep of it:
   the backlog of chat by a device's user, texts of Meshtastic radios to devices, a counter
   of a forked service, the error log as an administrator's page polls it, and the devices
   of federated servers. None shares state with another, so that each is explored on its
   own. *)
EXTENDS OfflineChat, Meshtastic, Metrics, ErrorLog, FederatedDevices, TLC

CONSTANTS m1, u1, u2, c1, c2, r1, r2, i1, i2, i3, n1, n2, d1, d2, alpha

VARIABLE part

\* A plain radio, and one of a device with the ATAK plugin.
PluginAtR2 == [r \in Radios |-> IF r = r2 THEN u2 ELSE NoUid]

\* The two connections are alike, and so are the node ids with all their digits.
AlikeInTraffic == Permutations({c1, c2}) \cup Permutations({i1, i2})

trafficVars == <<vars, meshtasticVars, metricsVars, errorLogVars, devicesVars, part>>

MCInit ==
    /\ part \in {"chat", "mesh", "metrics", "log", "federated"}
    /\ Init /\ MeshtasticInit /\ MetricsInit /\ ErrorLogInit /\ DevicesInit
    /\ part # "chat" => eudUser = NoUser
    /\ part # "federated" => accounts = {}
    /\ part # "log" => dir[Live] = n1

MCNext ==
    /\ \/ part = "chat" /\ Next
          /\ UNCHANGED <<meshtasticVars, metricsVars, errorLogVars, devicesVars>>
       \/ part = "mesh" /\ MeshtasticNext
          /\ UNCHANGED <<vars, metricsVars, errorLogVars, devicesVars>>
       \/ part = "metrics" /\ MetricsNext
          /\ UNCHANGED <<vars, meshtasticVars, errorLogVars, devicesVars>>
       \/ part = "log" /\ ErrorLogNext
          /\ UNCHANGED <<vars, meshtasticVars, metricsVars, devicesVars>>
       \/ part = "federated" /\ DevicesNext
          /\ UNCHANGED <<vars, meshtasticVars, metricsVars, errorLogVars>>
    /\ UNCHANGED part

MCSpec == MCInit /\ [][MCNext]_trafficVars
=============================================================================
