----------------------------- MODULE Containers -----------------------------
(***************************************************************************)
(* The containers panel: one loop that asks this machine's runtimes and    *)
(* every host's agent what they run, the presence records it keeps of the  *)
(* containers somebody expects, and the alarms the panel derives from      *)
(* them.  Records outlive the process, the panel does not.  Rules and      *)
(* hosts are edited, saves fail and the app is started again at any step.  *)
(***************************************************************************)
EXTENDS Integers

CONSTANTS
    Here,       \* the section of this machine
    Remote,     \* the names of remote hosts
    Name,       \* the names of containers
    Tools,      \* how many runtimes this machine may have, of the three there are,
                \* which are numbered in the order they are asked
    Grace,      \* DEFAULT_GRACE_SECS, in ticks
    LastTick    \* bound: time stops here

ASSUME ContainersAssumption ==
    /\ Here \notin Remote /\ Tools \in 0..3
    /\ Grace \in Nat \ {0} /\ LastTick \in Nat \ {0}

VARIABLES
    now,        \* the wall clock
    rule,       \* what the rules make of a name: "none" expects it, a "glob" or
                \* its exact name does ("named"); the same under an earlier rule
                \* that hides or collapses it ("hiddenGlob", "hiddenNamed")
    presence,   \* Store::container_presence
    onDisk,     \* both as the file has them, and what was sighted by then
    polled,     \* the poll set's names
    usable,     \* those whose token is available
    pass,       \* poll_containers: where it is and what it holds
    panel,      \* ContainersState
    render,     \* containers_view_in between its two locks
    sighted,    \* history: when a record was last due to a sighting
    told,       \* history: the same, as far as the panel knows of it
    left        \* history: the hosts that left the poll set since the snapshot
                \* of the last whole pass

recordVars     == <<rule, presence, onDisk>>
setVars        == <<polled, usable, left>>
containersVars == <<now, recordVars, setVars, pass, panel, render, sighted, told>>

Scope    == {Here} \cup Remote
Runtime  == 1..Tools
Never    == 0           \* no time; time begins at 1
Unknown  == 0           \* the runtime of what was never seen
Theirs   == Tools + 1   \* any runtime of a host's
NoRecord == [seen |-> Never, runtime |-> Unknown]
Kind     == {"none", "glob", "named", "hiddenGlob", "hiddenNamed"}
RuleMap  == [Scope -> [Name -> Kind]]

Unseen   == [s \in Scope |-> [n \in Name |-> Never]]
NewPanel == [known |-> [r \in Runtime |-> {}], detected |-> {},
             sections |-> {}, list |-> [h \in Remote |-> {}], ok |-> [s \in Scope |-> Never]]
NoPass   == [at |-> "idle", time |-> Never, ran |-> FALSE, answered |-> {}, failed |-> {},
             list |-> [r \in Runtime |-> {}], configured |-> {}, targets |-> {},
             heard |-> {}, got |-> [h \in Remote |-> {}], left |-> {}]
NoRender == [reading |-> FALSE, due |-> Unseen]

\* A store nobody has used: no rule, no record.
ContainersInit ==
    /\ now = 1 /\ rule = [s \in Scope |-> [n \in Name |-> "none"]]
    /\ presence = [s \in Scope |-> [n \in Name |-> NoRecord]]
    /\ onDisk = [rule |-> rule, presence |-> presence, sighted |-> Unseen]
    /\ polled \in SUBSET Remote /\ usable \in SUBSET polled
    /\ pass = NoPass /\ panel = NewPanel /\ render = NoRender
    /\ sighted = Unseen /\ told = Unseen /\ left = {}

----------------------------------------------------------------------------
(* What goes on around the loop.                                           *)

ContainersTick ==
    /\ now < LastTick /\ now' = now + 1
    /\ UNCHANGED <<recordVars, setVars, pass, panel, render, sighted, told>>

\* A save writes all that memory holds.
Saved == onDisk' = [rule |-> rule', presence |-> presence', sighted |-> sighted']

\* One edit of the rules, which may concern any names of any sections; a save
\* that fails puts the previous list back.
EditRules ==
    /\ UNCHANGED <<now, setVars, pass, panel, render, sighted, told>>
    /\ \/ /\ rule' \in RuleMap /\ UNCHANGED presence /\ Saved
       \/ UNCHANGED recordVars

\* Some other part of the app saves.
SaveOther ==
    /\ UNCHANGED <<now, rule, presence, setVars, pass, panel, render, sighted, told>>
    /\ Saved

\* Hosts are added, removed or renamed, tokens come and go.
ReloadHosts ==
    /\ polled' \in SUBSET Remote /\ usable' \in SUBSET polled'
    /\ left' = left \cup (polled \ polled')
    /\ pass' = [pass EXCEPT !.left = IF pass.at \in {"idle", "local", "hosts"} THEN {}
                                     ELSE pass.left \cup (polled \ polled')]
    /\ UNCHANGED <<now, recordVars, panel, render, sighted, told>>

\* The app ends and is started again: the panel and its clocks are gone, the
\* records are those of the last save.
StartAgain ==
    /\ rule' = onDisk.rule /\ presence' = onDisk.presence
    /\ sighted' = onDisk.sighted /\ told' = onDisk.sighted
    /\ pass' = NoPass /\ panel' = NewPanel /\ render' = NoRender /\ left' = {}
    /\ UNCHANGED <<now, onDisk, polled, usable>>

----------------------------------------------------------------------------
(* A pass.                                                                 *)

\* After the wait or a wake.  It goes by the time of its start.  (A render takes
\* two locks in a row and a pass seconds: no render spans two passes.)
BeginPass ==
    /\ pass.at = "idle" /\ ~render.reading
    /\ pass' = [NoPass EXCEPT !.at = "local", !.time = now]
    /\ UNCHANGED <<now, recordVars, setVars, panel, render, sighted, told>>

\* local::poll: each runtime is not installed, fails or answers; or the task
\* itself panics.
AskRuntimes ==
    /\ pass.at = "local"
    /\ \/ \E installed \in SUBSET Runtime : \E answered \in SUBSET installed :
          \E list \in [answered -> SUBSET Name] :
             pass' = [pass EXCEPT !.at = "hosts", !.ran = TRUE, !.answered = answered,
                         !.failed = installed \ answered,
                         !.list = [r \in Runtime |-> IF r \in answered THEN list[r] ELSE {}]]
       \/ pass' = [pass EXCEPT !.at = "hosts"]
    /\ UNCHANGED <<now, recordVars, setVars, panel, render, sighted, told>>

\* The poll set as it is now.
SnapshotHosts ==
    /\ pass.at = "hosts"
    /\ pass' = [pass EXCEPT !.at = "fetch", !.configured = polled, !.targets = usable]
    /\ UNCHANGED <<now, recordVars, setVars, panel, render, sighted, told>>

\* Each agent answers with its whole list, or not at all.
Fetch ==
    /\ pass.at = "fetch"
    /\ \E heard \in SUBSET pass.targets : \E got \in [heard -> SUBSET Name] :
          pass' = [pass EXCEPT !.at = "record", !.heard = heard,
                      !.got = [h \in Remote |-> IF h \in heard THEN got[h] ELSE {}]]
    /\ UNCHANGED <<now, recordVars, setVars, panel, render, sighted, told>>

\* Mutant: what a failed runtime listed last counts as a sighting.
AnyFacts(runtime) == TRUE

\* has_fresh_facts, of this machine's runtimes.
FreshFacts(runtime) == runtime = Unknown \/ runtime \in pass.answered

\* merge: a runtime that failed contributes its last list, one that is not
\* installed nothing.  (The pass copies the lists when it begins; no one else
\* writes them.)
Merged(r) ==
    IF r \in pass.answered THEN pass.list[r]
    ELSE IF r \in pass.failed THEN panel.known[r] ELSE {}

\* The runtimes that let n be seen in s.
SeenBy(s, n) ==
    IF s = Here THEN {r \in Runtime : n \in Merged(r) /\ FreshFacts(r)}
    ELSE IF n \in pass.got[s] THEN {Theirs} ELSE {}

Took(s)       == IF s = Here THEN pass.ran ELSE s \in pass.heard
IsExpected(k) == k # "none"
IsExact(k)    == k \in {"named", "hiddenNamed"}
HasRow(k)     == k \in {"glob", "named"}

\* Mutant: a record that exists is not brought up to date.
OnlyNew(s, n) ==
    IF ~Took(s) THEN presence[s][n]
    ELSE IF ~IsExpected(rule[s][n]) THEN NoRecord
    ELSE IF presence[s][n] # NoRecord THEN presence[s][n]
    ELSE [seen |-> pass.time, runtime |-> Unknown]

\* presence::note for one name: what is expected is dated when it is seen, or
\* from the first pass that misses it if the rule names it; the record of what
\* nobody expects goes, but not while its runtime fails.
Noted(s, n) ==
    LET last == presence[s][n]
        by   == SeenBy(s, n)
    IN  IF ~Took(s) THEN last
        ELSE IF ~IsExpected(rule[s][n])
             THEN IF s # Here \/ FreshFacts(last.runtime) THEN NoRecord ELSE last
        ELSE IF by # {}
             THEN [seen |-> pass.time, runtime |-> CHOOSE r \in by : \A q \in by : q <= r]
        ELSE IF IsExact(rule[s][n]) /\ last = NoRecord
             THEN [seen |-> pass.time, runtime |-> Unknown] ELSE last

\* History: the pass has it from s itself that n is there.
Saw(s, n) ==
    \/ s = Here /\ \E r \in pass.answered : n \in pass.list[r]
    \/ s \in pass.heard /\ n \in pass.got[s]

\* Under the store's lock; a save that fails is only reported.
Record ==
    /\ pass.at = "record" /\ pass' = [pass EXCEPT !.at = "apply"]
    /\ UNCHANGED <<now, rule, setVars, panel, render, told>>
    /\ presence' = [s \in Scope |-> [n \in Name |-> Noted(s, n)]]
    /\ sighted' = [s \in Scope |-> [n \in Name |->
          IF IsExpected(rule[s][n]) /\ Saw(s, n) THEN pass.time ELSE sighted[s][n]]]
    /\ IF presence' = presence THEN UNCHANGED onDisk ELSE Saved \/ UNCHANGED onDisk

\* Mutant: what is no longer configured is kept.
KeepsAll(sections) == sections

\* retain_hosts
Retained(sections) == sections \cap pass.configured

\* The sources of which a clock goes on: something of them reported.
Clocks == pass.heard \cup (IF pass.answered # {} THEN {Here} ELSE {})

\* Under the panel's lock: this machine's runtimes, the hosts that answered,
\* the hosts that are configured, and the clocks.
Apply ==
    LET sections == Retained(panel.sections \cup pass.heard)
    IN  /\ pass.at = "apply" /\ pass' = NoPass
        /\ panel' = [known |-> [r \in Runtime |-> IF r \in pass.answered THEN pass.list[r]
                                                  ELSE panel.known[r]],
                     detected |-> IF pass.ran THEN pass.answered \cup pass.failed
                                  ELSE panel.detected,
                     sections |-> sections,
                     list |-> [h \in Remote |-> IF h \notin sections THEN {}
                                               ELSE IF h \in pass.heard THEN pass.got[h]
                                               ELSE panel.list[h]],
                     ok |-> [s \in Scope |-> IF s \in Clocks THEN pass.time
                                             ELSE IF s = Here \/ Retained({s}) # {} THEN panel.ok[s]
                                             ELSE Never]]
        /\ told' = sighted /\ left' = pass.left
        /\ UNCHANGED <<now, recordVars, polled, usable, render, sighted>>

----------------------------------------------------------------------------
(* A render: rules and records under the store's lock, then the panel's.   *)

\* The dates of the records that the rules make a row of.
BeginRender ==
    /\ ~render.reading
    /\ render' = [reading |-> TRUE, due |-> [s \in Scope |-> [n \in Name |->
                   IF HasRow(rule[s][n]) THEN presence[s][n].seen ELSE Never]]]
    /\ UNCHANGED <<now, recordVars, setVars, pass, panel, sighted, told>>

EndRender ==
    /\ render.reading /\ render' = NoRender
    /\ UNCHANGED <<now, recordVars, setVars, pass, panel, sighted, told>>

ContainersNext ==
    \/ ContainersTick \/ EditRules \/ SaveOther \/ ReloadHosts \/ StartAgain
    \/ BeginPass \/ AskRuntimes \/ SnapshotHosts \/ Fetch \/ Record \/ Apply
    \/ BeginRender \/ EndRender

ContainersSpec == ContainersInit /\ [][ContainersNext]_containersVars

----------------------------------------------------------------------------
(* Properties.                                                             *)

\* What a section lists, retained rows included.
Listed(s) ==
    IF s = Here THEN UNION {panel.known[r] : r \in panel.detected}
    ELSE panel.list[s]

\* partition and PresenceState::classify, for a render that reads the panel now.
ShownMissing(s, n) ==
    /\ s = Here \/ s \in panel.sections
    /\ render.due[s][n] # Never /\ n \notin Listed(s) /\ panel.ok[s] # Never
    /\ panel.ok[s] - render.due[s][n] >= Grace

PresenceRecord == [seen : 0..LastTick, runtime : 0..Theirs]
PresenceMap    == [Scope -> [Name -> PresenceRecord]]
Times          == [Scope -> [Name -> 0..LastTick]]

PassType ==
    [at : {"idle", "local", "hosts", "fetch", "record", "apply"}, time : 0..LastTick,
     ran : BOOLEAN, answered : SUBSET Runtime, failed : SUBSET Runtime,
     list : [Runtime -> SUBSET Name], configured : SUBSET Remote, targets : SUBSET Remote,
     heard : SUBSET Remote, got : [Remote -> SUBSET Name], left : SUBSET Remote]
PanelType ==
    [known : [Runtime -> SUBSET Name], detected : SUBSET Runtime, sections : SUBSET Remote,
     list : [Remote -> SUBSET Name], ok : [Scope -> 0..LastTick]]
RenderType == [reading : BOOLEAN, due : Times]

ContainersTypeOK ==
    /\ now \in 1..LastTick /\ rule \in RuleMap /\ presence \in PresenceMap
    /\ onDisk \in [rule : RuleMap, presence : PresenceMap, sighted : Times]
    /\ polled \subseteq Remote /\ usable \subseteq polled /\ left \subseteq Remote
    /\ pass \in PassType /\ panel \in PanelType /\ render \in RenderType
    /\ sighted \in Times /\ told \in Times

\* A record names a runtime only if one reported the container, and then its
\* date is that of the last report that counted, neither older (a false alarm)
\* nor newer (an alarm put off by rows that were only retained); one that was
\* seeded is no older than any.  So after edits, failed saves and relaunches.
DatedBySightings(records, dates) ==
    \A s \in Scope, n \in Name : records[s][n] # NoRecord =>
        IF records[s][n].runtime = Unknown THEN records[s][n].seen >= dates[s][n]
                                           ELSE records[s][n].seen = dates[s][n]

RecordsAreTrue ==
    DatedBySightings(presence, sighted) /\ DatedBySightings(onDisk.presence, onDisk.sighted)

\* A container is shown missing only if no poll of its source that the panel
\* has applied saw it within the grace, also when a pass ends between the two
\* locks of the render.
MissingIsEarned ==
    render.reading => \A s \in Scope, n \in Name :
        ShownMissing(s, n) => panel.ok[s] - told[s][n] >= Grace

\* A section outlives its host by no more than the pass that was under way
\* when the host left.
GhostsEndWithAPass == panel.sections \subseteq polled \cup left

ContainersInv ==
    ContainersTypeOK /\ RecordsAreTrue /\ MissingIsEarned /\ GhostsEndWithAPass
=============================================================================
