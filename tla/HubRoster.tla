------------------------------ MODULE HubRoster ------------------------------
\* The table `devices`: a sweep over all hubs (run_classification) every ten
\* minutes and on request, the refresh of one device, the endpoints that change
\* or delete a hub, and the caches through which device ids are resolved.
\* Nothing keeps them apart.  Capabilities and names are abstracted; so is
\* device_hub_mapping, which is written and never read by another component.
EXTENDS Integers, FiniteSets, Sequences
CONSTANTS Hubs,          \* keys of hub_config: naturals
          Addresses, Things, Gone,
          NumberOf,      \* the number a hub gives a device, unique on that hub only
          LabelOf,
          Homes,         \* how the devices may be paired at first
          MaxHappenings, \* bounds moves of devices and hubs, edits and requests
          MaxTroubles    \* bounds failing calls and restarts
ASSUME RosterAssumption ==
    /\ Hubs \subseteq Nat /\ Gone \notin Hubs /\ Homes \subseteq [Things -> Hubs \cup {Gone}]
    /\ \E f \in [Hubs -> Addresses] : \A h, g \in Hubs : h # g => f[h] # f[g]
VARIABLES place,     \* the hub a device is paired with
          addr,      \* where each hub really is
          config,    \* hub_config
          rows,      \* devices; the index is the canonical id
          known,     \* _canonical_id_cache
          byNumber,  \* _device_lookup_cache
          sweep,     \* the job's run_classification and that of a request
          desk,      \* a request that edits a hub
          clerk,     \* a thread that resolves or refreshes one device
          spent
rosterVars == <<place, addr, config, rows, known, byNumber, sweep, desk, clerk, spent>>
caches == <<known, byNumber>>
-----------------------------------------------------------------------------
Numbers == {NumberOf[t] : t \in Things}
Ids == 1 .. Cardinality(Addresses) * Cardinality(Numbers)
Sweepers == {"job", "request"}
Nothing == [id |-> 0, ip |-> "none", num |-> 0, hub |-> Gone, label |-> "none"]
Unread == [Nothing EXCEPT !.ip = "unread"]
Resting == [at |-> "rest", todo |-> {}, found |-> {}, since |-> {}, spoiled |-> {}]
NoEdit == [at |-> "rest", hub |-> Gone, change |-> "none"]
NoTask == [at |-> "rest", id |-> 0, refresh |-> FALSE, cached |-> FALSE, got |-> Nothing, thing |-> "none"]
Spend(what) == spent' = [spent EXCEPT ![what] = @ - 1]
Trouble == spent.troubles > 0 /\ Spend("troubles")
\* A device that the next sweep can see.
Live(t) == /\ place[t] # Gone /\ config[place[t]].exists /\ config[place[t]].enabled
           /\ config[place[t]].ip = addr[place[t]]
\* What happens to things while a sweep is under way is held against it (history).
Spoil(ts) == [s \in Sweepers |-> IF sweep[s].at = "rest" THEN sweep[s]
                                 ELSE [sweep[s] EXCEPT !.spoiled = @ \cup ts]]
On(h) == {t \in Things : place[t] = h}
RosterInit ==
    /\ place \in Homes
    /\ addr = CHOOSE f \in [Hubs -> Addresses] : \A h, g \in Hubs : h # g => f[h] # f[g]
    /\ config = [h \in Hubs |-> [ip |-> addr[h], enabled |-> TRUE, exists |-> TRUE,
                                 primary |-> h = CHOOSE g \in Hubs : TRUE]]
    /\ rows = <<>> /\ known = [i \in Ids |-> Unread] /\ byNumber = [n \in Numbers |-> Unread]
    /\ sweep = [s \in Sweepers |-> Resting] /\ desk = NoEdit /\ clerk = NoTask
    /\ spent = [happenings |-> MaxHappenings, troubles |-> MaxTroubles]
-----------------------------------------------------------------------------
\* upsert_device.  The foreign key refuses a hub that is gone.
KeyOf(ip, n) == {i \in DOMAIN rows : rows[i].ip = ip /\ rows[i].num = n}
Upserts(e, label, dup) ==
    /\ config[e.hub].exists
    /\ LET new(p) == [ip |-> e.ip, num |-> e.num, hub |-> e.hub, label |-> label, dup |-> dup, present |-> p]
           old == KeyOf(e.ip, e.num)
       IN rows' = IF old = {} THEN Append(rows, new(TRUE))
                  ELSE [i \in DOMAIN rows |-> IF i \in old THEN new(rows[i].present) ELSE rows[i]]
\* last_synced_at is now at or after the start of every sweep under way.
Spot(ip, n) == IF KeyOf(ip, n) = {} THEN Len(rows) + 1 ELSE CHOOSE j \in KeyOf(ip, n) : TRUE
Synced(ip, n) == [s \in Sweepers |-> IF sweep[s].at = "rest" THEN sweep[s]
                                     ELSE [sweep[s] EXCEPT !.since = @ \cup {Spot(ip, n)}]]
DeskRests == desk' = NoEdit
Better(c, d) == IF c.primary # d.primary THEN c.primary
                ELSE IF c.hub # d.hub THEN c.hub < d.hub ELSE c.num <= d.num
First(es) == CHOOSE e \in es : \A f \in es : Better(e, f)
\* One of the devices with a label is its owner, the others are duplicates.
Judged(es) == {[e EXCEPT !.dup = e # First({f \in es : f.label = e.label})] : e \in es}
\* ---- run_classification
SweepStarts(s) ==
    /\ sweep[s].at = "rest"
    /\ \/ s = "job" /\ UNCHANGED <<desk, spent>>
       \/ s = "request" /\ desk.at = "sweep" /\ DeskRests /\ UNCHANGED spent
       \/ s = "request" /\ spent.happenings > 0 /\ Spend("happenings") /\ UNCHANGED desk
    /\ LET cfgs == {h \in Hubs : config[h].exists /\ config[h].enabled}
       IN sweep' = [sweep EXCEPT ![s] =
            IF cfgs = {} THEN Resting
            ELSE [at |-> "fetch", todo |-> {[hub |-> h, ip |-> config[h].ip, primary |-> config[h].primary,
                                             num |-> 0] : h \in cfgs},
                  found |-> {}, since |-> {}, spoiled |-> {t \in Things : ~Live(t)}]]
    /\ UNCHANGED <<place, addr, config, rows, caches, clerk>>
Natives(c) == {[ip |-> c.ip, num |-> NumberOf[t], hub |-> c.hub, label |-> LabelOf[t],
                primary |-> c.primary, dup |-> FALSE] :
               t \in {u \in Things : place[u] # Gone /\ addr[place[u]] = c.ip}}
Fetched(s, c, found) ==
    LET rest == sweep[s].todo \ {c}
    IN IF rest # {} THEN [sweep[s] EXCEPT !.todo = rest, !.found = found]
       ELSE IF found = {} THEN Resting
       ELSE [sweep[s] EXCEPT !.at = "ingest", !.todo = {}, !.found = Judged(found)]
FetchHub(s) ==
    /\ sweep[s].at = "fetch"
    /\ LET c == First(sweep[s].todo)
           missed == Fetched(s, c, sweep[s].found)
       IN \/ sweep' = [sweep EXCEPT ![s] = Fetched(s, c, sweep[s].found \cup Natives(c))] /\ UNCHANGED spent
          \/ /\ Trouble
             /\ sweep' = [sweep EXCEPT ![s] = [missed EXCEPT
                            !.spoiled = IF missed.at = "rest" THEN {} ELSE @ \cup On(c.hub)]]
    /\ UNCHANGED <<place, addr, config, rows, caches, desk, clerk>>
Ingest(s) ==
    /\ sweep[s].at = "ingest"
    /\ LET e == First(sweep[s].found)
           left == sweep[s].found \ {e}
           next == IF left = {} THEN "present" ELSE "ingest"
           lost == {t \in On(e.hub) : NumberOf[t] = e.num}
       IN \/ /\ Upserts(e, e.label, e.dup) /\ UNCHANGED spent
             /\ sweep' = [Synced(e.ip, e.num) EXCEPT ![s].found = left, ![s].at = next]
          \/ /\ \/ ~config[e.hub].exists /\ UNCHANGED spent
                \/ Trouble
             /\ sweep' = [sweep EXCEPT ![s].found = left, ![s].at = next, ![s].spoiled = @ \cup lost]
             /\ UNCHANGED rows
    /\ UNCHANGED <<place, addr, config, caches, desk, clerk>>
\* Variant: the start of the run is noted after the rows were written.
RefreshedSinceMark(s) == {}

\* _mark_device_presence: an exception ends it, a refusal does not.
Refreshed(s) == sweep[s].since
\* Variant: a device that is back is written but not marked.
MarkNobody(s) ==
    /\ sweep[s].at = "present"
    /\ \/ sweep' = [sweep EXCEPT ![s].at = "absent"] /\ UNCHANGED spent
       \/ Trouble /\ sweep' \in {[sweep EXCEPT ![s].at = "absent"], [sweep EXCEPT ![s] = Resting]}
    /\ UNCHANGED <<place, addr, config, rows, caches, desk, clerk>>

MarkPresent(s) ==
    /\ sweep[s].at = "present"
    /\ \/ /\ rows' = [i \in DOMAIN rows |-> IF i \in Refreshed(s) THEN [rows[i] EXCEPT !.present = TRUE] ELSE rows[i]]
          /\ sweep' = [sweep EXCEPT ![s].at = "absent"] /\ UNCHANGED spent
       \/ Trouble /\ sweep' \in {[sweep EXCEPT ![s].at = "absent"], [sweep EXCEPT ![s] = Resting]} /\ UNCHANGED rows
    /\ UNCHANGED <<place, addr, config, caches, desk, clerk>>
MarkAbsent(s) ==
    /\ sweep[s].at = "absent" /\ sweep' = [sweep EXCEPT ![s] = Resting]
    /\ \/ /\ rows' = [i \in DOMAIN rows |-> IF i \in Refreshed(s) THEN rows[i] ELSE [rows[i] EXCEPT !.present = FALSE]]
          /\ UNCHANGED spent
       \/ Trouble /\ UNCHANGED rows
    /\ UNCHANGED <<place, addr, config, caches, desk, clerk>>
Sweeps(s) == SweepStarts(s) \/ FetchHub(s) \/ Ingest(s) \/ MarkPresent(s) \/ MarkAbsent(s)
-----------------------------------------------------------------------------
\* ---- the endpoints that edit hub_config, one at a time
Forgotten == known' = [i \in Ids |-> Unread] /\ byNumber' = [n \in Numbers |-> Unread]
Edits(h, change) == desk.at = "rest" /\ spent.happenings > 0 /\ Spend("happenings")
                    /\ desk' = [at |-> "first", hub |-> h, change |-> change]
                    /\ UNCHANGED <<place, addr, config, rows, caches, sweep, clerk>>
EditHub(h) == /\ config[h].exists
              /\ \/ config[h].ip # addr[h] /\ Edits(h, "ip")
                 \/ \E c \in {"enable", "primary", "delete"} : Edits(h, c)
\* update_hub clears the other primaries; a failure there is only logged.
ClearPrimaries ==
    /\ desk.at = "first" /\ desk.change = "primary" /\ desk' = [desk EXCEPT !.at = "patch"]
    /\ \/ config' = [h \in Hubs |-> IF h = desk.hub THEN config[h] ELSE [config[h] EXCEPT !.primary = FALSE]]
          /\ UNCHANGED spent
       \/ Trouble /\ UNCHANGED config
    /\ UNCHANGED <<place, addr, rows, caches, sweep, clerk>>
Changed(h, change) ==
    CASE change = "ip" -> [config[h] EXCEPT !.ip = addr[h]]
      [] change = "enable" -> [config[h] EXCEPT !.enabled = ~@]
      [] OTHER -> [config[h] EXCEPT !.primary = TRUE]
PatchHub ==
    /\ \/ desk.at = "first" /\ desk.change \in {"ip", "enable"}
       \/ desk.at = "patch"
    /\ \/ /\ config' = [config EXCEPT ![desk.hub] = Changed(desk.hub, desk.change)]
          /\ sweep' = Spoil(On(desk.hub)) /\ UNCHANGED spent
          /\ IF desk.change = "ip" THEN desk' = [desk EXCEPT !.at = "mirror"] /\ UNCHANGED caches
                                   ELSE DeskRests /\ Forgotten
       \/ Trouble /\ DeskRests /\ UNCHANGED <<config, sweep, caches>>
    /\ UNCHANGED <<place, addr, rows, clerk>>
\* The rows of the hub follow its address, all or none: the pair of address and
\* number is unique.  The caches are dropped either way.
Clash(h, ip) == \E i, j \in DOMAIN rows : i # j /\ rows[i].hub = h /\ rows[i].num = rows[j].num
                                         /\ (rows[j].hub = h \/ rows[j].ip = ip)
MirrorAddress ==
    /\ desk.at = "mirror" /\ DeskRests /\ Forgotten
    /\ \/ /\ rows' = IF Clash(desk.hub, config[desk.hub].ip) THEN rows
                     ELSE [i \in DOMAIN rows |-> IF rows[i].hub = desk.hub
                                                 THEN [rows[i] EXCEPT !.ip = config[desk.hub].ip] ELSE rows[i]]
          /\ UNCHANGED spent
       \/ Trouble /\ UNCHANGED rows
    /\ UNCHANGED <<place, addr, config, sweep, clerk>>
\* delete_hub gives the rows of the hub to another one, a primary if there is one.
Heirs(h) == LET others == {g \in Hubs \ {h} : config[g].exists}
            IN IF \E g \in others : config[g].primary THEN {g \in others : config[g].primary} ELSE others
Reassign ==
    /\ desk.at = "first" /\ desk.change = "delete"
    /\ \/ \E g \in Heirs(desk.hub) :
             /\ rows' = [i \in DOMAIN rows |-> IF rows[i].hub = desk.hub THEN [rows[i] EXCEPT !.hub = g] ELSE rows[i]]
             /\ desk' = [desk EXCEPT !.at = "drop"] /\ UNCHANGED spent
       \/ Heirs(desk.hub) = {} /\ DeskRests /\ UNCHANGED <<rows, spent>>
       \/ Trouble /\ DeskRests /\ UNCHANGED rows
    /\ UNCHANGED <<place, addr, config, caches, sweep, clerk>>
\* The foreign key keeps the hub while a row refers to it.
DropHub ==
    /\ desk.at = "drop"
    /\ \/ /\ \A i \in DOMAIN rows : rows[i].hub # desk.hub
          /\ config' = [config EXCEPT ![desk.hub].exists = FALSE] /\ Forgotten
          /\ sweep' = Spoil(On(desk.hub)) /\ desk' = [desk EXCEPT !.at = "sweep"] /\ UNCHANGED spent
       \/ /\ \/ (\E i \in DOMAIN rows : rows[i].hub = desk.hub) /\ UNCHANGED spent
             \/ Trouble
          /\ DeskRests /\ UNCHANGED <<config, caches, sweep>>
    /\ UNCHANGED <<place, addr, rows, clerk>>
CreateHub(h) ==
    /\ ~config[h].exists /\ desk.at = "rest" /\ spent.happenings > 0 /\ Spend("happenings")
    /\ \E p \in BOOLEAN : config' = [config EXCEPT ![h] = [ip |-> addr[h], enabled |-> TRUE, exists |-> TRUE, primary |-> p]]
    /\ sweep' = Spoil(On(h)) /\ Forgotten
    /\ UNCHANGED <<place, addr, rows, desk, clerk>>
DeskSteps == ClearPrimaries \/ PatchHub \/ MirrorAddress \/ Reassign \/ DropHub
-----------------------------------------------------------------------------
\* ---- resolving a canonical id; refresh_single_device goes on from there
RowOf(i) == [id |-> i, ip |-> config[rows[i].hub].ip, num |-> rows[i].num, hub |-> rows[i].hub, label |-> rows[i].label]
Ask(c, refresh) ==
    /\ clerk.at = "rest" /\ spent.happenings > 0
    /\ \E answer \in {IF known[c] # Unread THEN known[c]
                      ELSE RowOf(c)}
                     \cup (IF known[c] = Unread /\ spent.troubles > 0 THEN {Nothing} ELSE {}) :
          /\ clerk' = [NoTask EXCEPT !.at = "keep", !.id = c, !.refresh = refresh,
                                     !.cached = known[c] # Unread, !.got = answer]
          /\ spent' = [spent EXCEPT !.happenings = @ - 1, !.troubles =
                          IF known[c] = Unread /\ answer = Nothing THEN @ - 1 ELSE @]
    /\ UNCHANGED <<place, addr, config, rows, caches, sweep, desk>>
\* What was read is kept, also that nothing was; then the id may be a hub's number.
Keep ==
    /\ clerk.at = "keep"
    /\ known' = IF clerk.cached THEN known ELSE [known EXCEPT ![clerk.id] = clerk.got]
    /\ clerk' = IF clerk.got = Nothing THEN [clerk EXCEPT !.at = "number"]
                ELSE IF clerk.refresh THEN [clerk EXCEPT !.at = "fetch"] ELSE NoTask
    /\ UNCHANGED <<place, addr, config, rows, byNumber, sweep, desk, spent>>
ByNumber ==
    /\ clerk.at = "number"
    /\ \E answer \in IF clerk.id \notin Numbers THEN {Nothing}
                     ELSE IF byNumber[clerk.id] # Unread THEN {byNumber[clerk.id]}
                     ELSE LET is == {i \in DOMAIN rows : rows[i].num = clerk.id}
                          IN IF is = {} THEN {Nothing} ELSE {RowOf(i) : i \in is} :
          /\ byNumber' = IF clerk.id \in Numbers THEN [byNumber EXCEPT ![clerk.id] = answer] ELSE byNumber
          /\ clerk' = IF clerk.refresh /\ answer # Nothing THEN [clerk EXCEPT !.at = "fetch", !.got = answer] ELSE NoTask
    /\ UNCHANGED <<place, addr, config, rows, known, sweep, desk, spent>>
FetchOne ==
    /\ clerk.at = "fetch"
    /\ LET there == {t \in Things : place[t] # Gone /\ addr[place[t]] = clerk.got.ip /\ NumberOf[t] = clerk.got.num}
       IN \/ \E t \in there : clerk' = [clerk EXCEPT !.at = "write", !.thing = t] /\ UNCHANGED spent
          \/ there = {} /\ clerk' = NoTask /\ UNCHANGED spent
          \/ there # {} /\ Trouble /\ clerk' = NoTask
    /\ UNCHANGED <<place, addr, config, rows, caches, sweep, desk>>
\* The verdict on duplicates is overwritten.
WriteOne ==
    /\ clerk.at = "write" /\ clerk' = NoTask
    /\ LET g == clerk.got IN
       \/ /\ Upserts(g, LabelOf[clerk.thing], FALSE) /\ sweep' = Synced(g.ip, g.num)
          /\ known' = [known EXCEPT ![g.id] = Unread] /\ byNumber' = [byNumber EXCEPT ![g.num] = Unread]
          /\ UNCHANGED spent
       \/ /\ \/ ~config[g.hub].exists /\ UNCHANGED spent
             \/ Trouble
          /\ UNCHANGED <<rows, sweep, caches>>
    /\ UNCHANGED <<place, addr, config, desk>>
ClerkSteps == Keep \/ ByNumber \/ FetchOne \/ WriteOne
-----------------------------------------------------------------------------
\* ---- the household, and a restart of the application
DeviceMoves == \E t \in Things, h \in Hubs \cup {Gone} :
    /\ h # place[t] /\ spent.happenings > 0 /\ Spend("happenings")
    /\ h # Gone => \A u \in On(h) : NumberOf[u] # NumberOf[t]
    /\ place' = [place EXCEPT ![t] = h] /\ sweep' = Spoil({t})
    /\ UNCHANGED <<addr, config, rows, caches, desk, clerk>>
HubMoves == \E h \in Hubs, a \in Addresses :
    /\ \A g \in Hubs : addr[g] # a /\ config[g].ip # a
    /\ spent.happenings > 0 /\ Spend("happenings")
    /\ addr' = [addr EXCEPT ![h] = a] /\ sweep' = Spoil(On(h))
    /\ UNCHANGED <<place, config, rows, caches, desk, clerk>>
RosterRestart == /\ Trouble /\ Forgotten /\ sweep' = [s \in Sweepers |-> Resting]
                 /\ desk' = NoEdit /\ clerk' = NoTask /\ UNCHANGED <<place, addr, config, rows>>
RosterNext ==
    \/ \E s \in Sweepers : Sweeps(s)
    \/ \E h \in Hubs : EditHub(h) \/ CreateHub(h)
    \/ \E c \in DOMAIN rows, r \in BOOLEAN : Ask(c, r)
    \/ DeskSteps \/ ClerkSteps \/ DeviceMoves \/ HubMoves \/ RosterRestart
\* The job runs every ten minutes; every call ends, at the latest in a timeout.
RosterFairness ==
    /\ WF_rosterVars(Sweeps("job"))
    /\ WF_rosterVars((sweep["request"].at # "rest" \/ desk.at = "sweep") /\ Sweeps("request"))
    /\ WF_rosterVars(DeskSteps) /\ WF_rosterVars(ClerkSteps)
RosterSpec == RosterInit /\ [][RosterNext]_rosterVars /\ RosterFairness
-----------------------------------------------------------------------------
\* Row i stands for device t: its hub's address and its number there.
RowFor(i, t) == place[t] # Gone /\ rows[i].ip = addr[place[t]] /\ rows[i].num = NumberOf[t]
Present == {i \in DOMAIN rows : rows[i].present}
\* The picker's list is the household: one present row for each device that a sweep
\* can see, with its hub, no other, and one owner of each label.
RosterIsRight ==
    /\ \A t \in Things : Live(t) => \E i \in Present : RowFor(i, t) /\ rows[i].hub = place[t]
    /\ \A i \in Present : \E t \in Things : Live(t) /\ RowFor(i, t)
    /\ \A i \in Present : Cardinality({j \in Present : rows[j].label = rows[i].label /\ ~rows[j].dup}) = 1
\* Whatever moves, edits, refreshes and failures did to the table, the sweeps mend it,
\* unless no device is left to see (run_classification does not blank the list then).
RosterHeals == <>[]((\E t \in Things : Live(t)) => RosterIsRight)
\* A sweep removes a device from the list only if during that sweep it moved, its hub
\* was edited or could not be read, or its row could not be written (_mark_device_presence),
\* however two sweeps and refreshes overlap.
SteadyStaysPresent ==
    [][\A t \in Things, i \in DOMAIN rows :
          RowFor(i, t) /\ rows[i].present /\ ~rows'[i].present
          => \E s \in Sweepers : sweep[s].at = "absent" /\ t \in sweep[s].spoiled]_rosterVars
=============================================================================
