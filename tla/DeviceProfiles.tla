--------------------------- MODULE DeviceProfiles ---------------------------
(* Device profiles as one device gets them: administrators change what is set and
   for whom, memberships come and go, and the device asks on every connection for
   what was updated since it last did: in the last syncSecago seconds, a whole number,
   counted back from the moment the server has worked out what matches.

   The profiles that match are merged, the more specific target and the later
   update winning; what is sent of the merge is what comes from a profile updated
   within the window. Settings and files are merged alike: both are keys here.
   One administrator saves at a time. *)
EXTENDS Integers, FiniteSets

CONSTANTS
    Ids,        \* profile ids: a set of positive numbers
    Keys,       \* preference keys and zip paths
    Values,     \* their values
    Nothing,    \* no value
    Audiences,  \* sets of targets a profile may have
    MaxTime,    \* bound on the clock
    MaxSaves    \* bound on changes by administrators

ASSUME ProfilesAssumption ==
    /\ Nothing \notin Values /\ Ids \subseteq Nat \ {0} /\ IsFiniteSet(Ids)
    /\ Audiences \subseteq SUBSET {"everyone", "group", "user", "device"}
    /\ MaxTime \in Nat /\ MaxSaves \in Nat

VARIABLES
    profile,   \* [on, targets, at, sets] of every id; at = 0: there is no row
    member,    \* the user of the device is in the group
    clock,
    saving,    \* the save made but not committed: [id, to, made]
    saves,
    device,    \* what the device has
    lastSync,  \* when it last began a sync that arrived; 0: never
    syncing,   \* [began, read] of the request under way; began = 0: none
    passed     \* ghost: keys whose value changed without a later update, or with one
               \*   that the window of a request began too late for

profilesVars == <<profile, member, clock, saving, saves, device, lastSync, syncing, passed>>

Blank == [on |-> FALSE, targets |-> {}, at |-> 0, sets |-> [k \in Keys |-> Nothing]]
NoSave == [id |-> 0, to |-> Blank, made |-> 0]
NoEntry == [from |-> 0, value |-> Nothing]
Unread == [began |-> 0, read |-> [k \in Keys |-> NoEntry]]

ProfilesInit ==
    /\ profile = [p \in Ids |-> Blank] /\ member = FALSE
    /\ clock = 1 /\ saving = NoSave /\ saves = 0
    /\ device = [k \in Keys |-> Nothing] /\ lastSync = 0 /\ syncing = Unread /\ passed = {}
-----------------------------------------------------------------------------
Specificity == [everyone |-> 0, group |-> 1, user |-> 2, device |-> 3]

(* match_level: the kinds of a profile's targets that match the device. *)
Matched(p) == {t \in profile[p].targets : t = "group" => member}
Level(p) == CHOOSE n \in 0..3 :
    /\ \E t \in Matched(p) : Specificity[t] = n
    /\ \A t \in Matched(p) : Specificity[t] <= n

(* matching_profiles: least specific first, then by update, then by id. *)
Before(p, q) ==
    \/ Level(p) < Level(q)
    \/ Level(p) = Level(q) /\ profile[p].at < profile[q].at
    \/ Level(p) = Level(q) /\ profile[p].at = profile[q].at /\ p < q

Matching == {p \in Ids : profile[p].on /\ Matched(p) # {}}

(* resolve_settings, resolve_files: later profiles override earlier ones, so that a
   key comes from the last one that sets it. *)
Setting(k) == {p \in Matching : profile[p].sets[k] # Nothing}
LastOf(S) == CHOOSE p \in S : \A q \in S : q = p \/ Before(q, p)
Resolved == [k \in Keys |-> IF Setting(k) = {} THEN NoEntry
                            ELSE LET p == LastOf(Setting(k))
                                 IN [from |-> p, value |-> profile[p].sets[k]]]
-----------------------------------------------------------------------------
Began == IF syncing.began > 0 THEN syncing.began ELSE lastSync
UpdatedAt(e) == profile[e.from].at

(* Keys with another value than before: of the profile p that is changed, by a
   change made before the device last asked, or of one not updated since. *)
Notice(p, made) ==
    passed' = LET was == Resolved now == Resolved' IN
        {k \in Keys : /\ k \in passed \/ now[k] # was[k]
                      /\ now[k] # NoEntry
                      /\ (IF now[k].from = p THEN made ELSE profile'[now[k].from].at) < Began}

(* Mutant: a change of one key does not count as an update of its profile. *)
StampOnlyNew(p, to) ==
    saving' = [id |-> p, made |-> clock,
               to |-> IF profile[p].at > 0 THEN to ELSE [to EXCEPT !.at = clock]]

(* apply_profile_input, add_profile_file, delete_profile_file: the update is
   stamped, and committed later. *)
Stamp(p, to) == saving' = [id |-> p, to |-> [to EXCEPT !.at = clock], made |-> clock]

(* create_profile_set, update_profile_set. *)
Edit(p) ==
    /\ saving = NoSave /\ saves < MaxSaves
    /\ saves' = saves + 1
    /\ \E on \in BOOLEAN, targets \in Audiences, sets \in [Keys -> Values \cup {Nothing}] :
          Stamp(p, [on |-> on, targets |-> targets, sets |-> sets, at |-> profile[p].at])
    /\ UNCHANGED <<profile, member, clock, device, lastSync, syncing, passed>>

(* upload_profile_files and delete_profile_file: one file is added, replaced or
   removed. *)
EditFile(p) ==
    /\ saving = NoSave /\ saves < MaxSaves /\ profile[p].at > 0
    /\ saves' = saves + 1
    /\ \E k \in Keys, v \in Values \cup {Nothing} :
          /\ v # profile[p].sets[k]
          /\ Stamp(p, [profile[p] EXCEPT !.sets[k] = v])
    /\ UNCHANGED <<profile, member, clock, device, lastSync, syncing, passed>>

Commit ==
    /\ saving # NoSave
    /\ profile' = [profile EXCEPT ![saving.id] = saving.to]
    /\ saving' = NoSave
    /\ UNCHANGED <<member, clock, saves, device, lastSync, syncing>>
    /\ Notice(saving.id, saving.made)

(* delete_profile_set. *)
DeleteProfile(p) ==
    /\ saving = NoSave /\ saves < MaxSaves /\ profile[p].at > 0
    /\ saves' = saves + 1
    /\ profile' = [profile EXCEPT ![p] = Blank]
    /\ UNCHANGED <<member, clock, saving, device, lastSync, syncing>>
    /\ Notice(0, 0)

(* user_group_names: a membership begins, ends or expires. *)
JoinOrLeave ==
    /\ saves < MaxSaves
    /\ saves' = saves + 1
    /\ member' = ~member
    /\ UNCHANGED <<profile, clock, saving, device, lastSync, syncing>>
    /\ Notice(0, 0)

Tick ==
    /\ clock < MaxTime
    /\ clock' = clock + 1
    /\ UNCHANGED <<profile, member, saving, saves, device, lastSync, syncing, passed>>
-----------------------------------------------------------------------------
(* _build_profile_zip resolves what matches... *)
SyncReads ==
    /\ syncing.began = 0
    /\ syncing' = [began |-> clock, read |-> Resolved]
    /\ UNCHANGED <<profile, member, clock, saving, saves, device, lastSync, passed>>

(* Mutant: an update at the very time of the cutoff does not count. *)
Later(e, cutoff) == UpdatedAt(e) = 0 \/ UpdatedAt(e) > cutoff

(* _recently_updated: of a profile that is gone meanwhile, everything is sent. *)
Recent(e, cutoff) == UpdatedAt(e) = 0 \/ UpdatedAt(e) >= cutoff

(* What was updated so soon after the last sync that the window may begin later: the
   request has taken that long by now, or a fraction of a second was dropped. *)
Close == {k \in Keys : /\ syncing.read[k] # NoEntry
                       /\ UpdatedAt(syncing.read[k])
                            \in lastSync..(lastSync + (clock - syncing.began))}

(* ... then looks for what is recent and sends it: all of it to a device that gives
   no syncSecago, or none above zero. The device gives the time since its last sync
   began, without the fraction; the cutoff is counted from the time it is now. *)
SyncSends ==
    /\ syncing.began > 0
    /\ \E secago \in {syncing.began - lastSync, syncing.began - lastSync - 1} :
          LET windowed == lastSync > 0 /\ secago > 0
              sent == {k \in Keys : /\ syncing.read[k] # NoEntry
                                    /\ windowed => Recent(syncing.read[k], clock - secago)}
          IN device' = [k \in Keys |-> IF k \in sent THEN syncing.read[k].value ELSE device[k]]
    /\ lastSync' = syncing.began
    /\ syncing' = Unread
    /\ passed' = {k \in passed \cup Close : device'[k] # Resolved[k].value}
    /\ UNCHANGED <<profile, member, clock, saving, saves>>

(* The package does not arrive: the device asks again with the same window. *)
SyncFails ==
    /\ syncing.began > 0
    /\ syncing' = Unread
    /\ UNCHANGED <<profile, member, clock, saving, saves, device, lastSync, passed>>

ProfilesNext ==
    \/ \E p \in Ids : Edit(p) \/ EditFile(p) \/ DeleteProfile(p)
    \/ Commit \/ JoinOrLeave \/ Tick
    \/ SyncReads \/ SyncSends \/ SyncFails
-----------------------------------------------------------------------------
(* What the device lacks of its merge is due: the profile it comes from was updated
   since the last sync began. The exceptions are a value that came to the front, or
   was committed, without such an update, and one whose update a sync has already
   passed over, because it was made no longer after the sync before than that
   request took. *)
LackedWillCome ==
    lastSync > 0 /\ syncing.began = 0 =>
        \A k \in Keys : Resolved[k] # NoEntry =>
            \/ device[k] = Resolved[k].value
            \/ UpdatedAt(Resolved[k]) >= lastSync
            \/ k \in passed

(* "Only what comes from profiles updated within the last sync_secago seconds (a
   device that synced since then already has the rest)": the same without the
   exception. *)
DeviceHasTheRest ==
    lastSync > 0 /\ syncing.began = 0 =>
        \A k \in Keys : Resolved[k] # NoEntry =>
            device[k] = Resolved[k].value \/ UpdatedAt(Resolved[k]) >= lastSync
=============================================================================
