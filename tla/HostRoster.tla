----------------------------- MODULE HostRoster -----------------------------
(***************************************************************************)
(* The cockpit's watched hosts (app/src-tauri/src/main.rs, handoff.rs and  *)
(* crates/hostsetup): the host list in memory and in store.json, the       *)
(* bearer tokens in the OS credential store, and the poll set that is      *)
(* derived from both.                                                      *)
(*                                                                         *)
(* Two actors write them: the Settings commands, which run one at a time   *)
(* on the window's thread, and the command-line hand-off, which runs one   *)
(* pairing at a time on the runtime's.  Each writes under the store's lock *)
(* and then, with the lock released, makes the change live: it reads the   *)
(* list it wants (ReadDesired) and takes the poll set's lock to apply it   *)
(* (Apply).  The process may stop between any two steps.                   *)
(*                                                                         *)
(* A host is an endpoint (address and port), a certificate pin and whether *)
(* it is enabled; its name and the display order are left out.  Ids are    *)
(* numbered as they are minted, which is the order of the list.            *)
(***************************************************************************)
EXTENDS Integers, FiniteSetsExt

CONSTANTS
    Actors,      \* those that run, of "settings" and "handoff"
    Endpoint,    \* address:port
    Pin,         \* certificate fingerprints
    NoPin,       \* an unpaired host: plain HTTP
    Token,       \* bearer tokens
    NoToken,     \* nothing stored, or an empty token field
    Unread,      \* what a poll task holds when the keychain did not answer
    Free,        \* the store's lock, not held
    Nothing,     \* no row, no request
    MaxHosts,    \* bound: how many hosts are ever added
    MaxFaults    \* bound: how often the file or the keychain fails

ASSUME ConstantsAssumption ==
    /\ Actors \subseteq {"settings", "handoff"}
    /\ Free \notin {"settings", "handoff"}
    /\ NoPin \notin Pin
    /\ Nothing \notin [ep : Endpoint, pin : Pin \union {NoPin}, enabled : BOOLEAN]
    /\ Nothing \notin [ep : Endpoint, pin : Pin, token : Token, replace : BOOLEAN]
    /\ NoToken \notin Token /\ Unread \notin Token /\ Unread # NoToken
    /\ MaxHosts \in Nat /\ MaxFaults \in Nat

Id   == 1..MaxHosts

\* Something for each of some ids.
Maps(T) == UNION {[S -> T] : S \in SUBSET Id}

Row  == [ep : Endpoint, pin : Pin \union {NoPin}, enabled : BOOLEAN]
Rows == Maps(Row)
Key  == [ep : Endpoint, pin : Pin \union {NoPin}]
Keys == Maps(Key)
Task == [ep : Endpoint, pin : Pin \union {NoPin},
         token : Token \union {NoToken, Unread}]
Polls == Maps(Task)

Empty == [id \in {} |-> 0]
Without(f, id) == [i \in DOMAIN f \ {id} |-> f[i]]
With(f, id, v) == [i \in DOMAIN f \union {id} |-> IF i = id THEN v ELSE f[i]]

\* An operation in its critical section: which row, what the row was before
\* (for the rollback), and the token to store.
Op   == [kind : {"none", "add", "edit", "enable", "remove"},
         id : Id \union {0}, was : Row \union {Nothing}, token : Token \union {NoToken}]
NoOp == [kind |-> "none", id |-> 0, was |-> Nothing, token |-> NoToken]

Request   == [ep : Endpoint, pin : Pin, token : Token, replace : BOOLEAN]
Decision  == [kind : {"Add", "SamePairing", "Replace", "Refused"},
              id : Id \union {0}]
NoDecision == [kind |-> "Refused", id |-> 0]

Critical == {"delete", "save", "secret"}
Live     == {"restart", "read", "apply"}
Pairing  == {"health", "answer", "commit"}

VARIABLES
    mem,       \* the host rows in memory
    file,      \* the host rows in store.json
    keychain,  \* the token stored under each id
    minted,    \* how many ids were minted
    lock,      \* who holds the store's lock
    polled,    \* the poll set: what each host's task was started with
    pc, op,    \* where each actor is, and its operation
    desired,   \* the list an actor read and is about to apply
    overtaken, \* history: those whose list another actor's change has passed,
               \* until somebody's next reload
    req,       \* the hand-off request being served
    decided,   \* what the hand-off decided about it
    basis,     \* history: the address and pin of the row it
               \* decided about, as they were then
    faults,    \* how often the file or the keychain has failed
    undeleted  \* history: ids whose token the keychain refused to delete

vars == <<mem, file, keychain, minted, lock, polled, pc, op, desired,
          overtaken, req, decided, basis, faults, undeleted>>
disk == <<file, keychain, undeleted>>
pair == <<req, decided, basis>>
lists == <<desired, overtaken>>

----------------------------------------------------------------------------
KeyOf(row) == [ep |-> row.ep, pin |-> row.pin]

\* `display_order`: the hosts to poll, keyed as the poll set keys them.
Wanted(rows) ==
    [id \in {i \in DOMAIN rows : rows[i].enabled} |-> KeyOf(rows[id])]

TaskKey(task) == [ep |-> task.ep, pin |-> task.pin]

\* The token a task started now gets: what is stored, unless the keychain does
\* not answer.
TokenRead(id, unread) == IF id \in unread THEN Unread ELSE keychain[id]

Spawned(id, key, unread) ==
    [ep |-> key.ep, pin |-> key.pin, token |-> TokenRead(id, unread)]

\* Mutant: a host whose address was edited keeps its task.
ReconciledById(want, unread) ==
    [id \in DOMAIN want |->
        IF id \in DOMAIN polled THEN polled[id]
                                ELSE Spawned(id, want[id], unread)]

\* `reconcile` and the rest of `reload_hosts`: a task is kept iff its key is
\* still wanted; every other one is aborted, and missing ones are started.
Reconciled(want, unread) ==
    [id \in DOMAIN want |->
        IF id \in DOMAIN polled /\ TaskKey(polled[id]) = want[id]
            THEN polled[id]
            ELSE Spawned(id, want[id], unread)]

At(rows, ep)     == {id \in DOMAIN rows : rows[id].ep = ep}
Holding(rows, p) == {id \in DOMAIN rows : rows[id].pin = p}

\* `decide`: the row at this address first, then one that holds the pin.
Decide(rows, r) ==
    LET here  == At(rows, r.ep)
        there == Holding(rows, r.pin)
        at    == IF here # {} THEN Min(here) ELSE Min(there)
    IN  IF here = {} /\ there = {} THEN [kind |-> "Add", id |-> 0]
        ELSE IF here # {} /\ rows[at].pin = r.pin
            THEN [kind |-> "SamePairing", id |-> at]
        ELSE IF r.replace THEN [kind |-> "Replace", id |-> at]
        ELSE NoDecision

----------------------------------------------------------------------------
Goto(a, l) == pc' = [pc EXCEPT ![a] = l]

\* The file or the keychain fails.
Fault == faults < MaxFaults /\ faults' = faults + 1

\* Which hosts' tokens a run of task starts cannot read.
Unreadable(unread) ==
    IF unread = {} THEN UNCHANGED faults ELSE Fault

\* Anything at all in store.json, tokens for some of its hosts, and the poll
\* set that startup's `reload_hosts` made of them.
Init ==
    /\ mem \in Rows
    /\ file = mem
    /\ minted \in 0..MaxHosts /\ DOMAIN mem = 1..minted
    /\ keychain \in [Id -> Token \union {NoToken}]
    /\ \A id \in Id \ DOMAIN mem : keychain[id] = NoToken
    /\ polled = [id \in DOMAIN Wanted(mem) |-> Spawned(id, Wanted(mem)[id], {})]
    /\ faults = 0
    /\ lock = Free
    /\ pc = [a \in Actors |-> "idle"]
    /\ op = [a \in Actors |-> NoOp]
    /\ desired = [a \in Actors |-> Empty] /\ overtaken = {}
    /\ req = Nothing /\ decided = NoDecision /\ basis = Nothing
    /\ undeleted = {}

----------------------------------------------------------------------------
\* The rows change in memory, and with them the list that others have read.
Overtake(a) ==
    overtaken' = overtaken \union {b \in Actors \ {a} : pc[b] = "apply"}

\* Taking the store's lock and changing the rows in memory.
Enter(a, l, o, rows) ==
    /\ lock = Free /\ lock' = a
    /\ mem' = rows
    /\ op' = [op EXCEPT ![a] = o]
    /\ Goto(a, l)
    /\ Overtake(a)
    /\ UNCHANGED <<polled, desired, disk, faults>>

\* Releasing it on the way to making the change live.
Leave(a, l) ==
    /\ lock' = Free
    /\ Goto(a, l)
    /\ op' = [op EXCEPT ![a] =
                  IF l = "restart" THEN [NoOp EXCEPT !.id = op[a].id] ELSE NoOp]

\* add_host_connection up to its save.
BeginAdd(a, row, token) ==
    /\ minted < MaxHosts
    /\ minted' = minted + 1
    /\ Enter(a, "save", [kind |-> "add", id |-> minted + 1, was |-> Nothing,
                         token |-> token],
             With(mem, minted + 1, row))

\* save_host_connection up to its save: the row keeps its enabled flag.
BeginEdit(a, id, ep, pin, token) ==
    /\ id \in DOMAIN mem
    /\ Enter(a, "save", [kind |-> "edit", id |-> id, was |-> mem[id],
                         token |-> token],
             [mem EXCEPT ![id].ep = ep, ![id].pin = pin])
    /\ UNCHANGED minted

\* settings_add_host
AddHost ==
    /\ pc["settings"] = "idle"
    /\ \E ep \in Endpoint, p \in Pin \union {NoPin}, t \in Token \union {NoToken} :
          BeginAdd("settings", [ep |-> ep, pin |-> p, enabled |-> TRUE], t)
    /\ UNCHANGED pair

\* settings_save_host; without a fingerprint the pin stays as it is.
SaveHost ==
    /\ pc["settings"] = "idle"
    /\ \E id \in DOMAIN mem, ep \in Endpoint, t \in Token \union {NoToken} :
       \E p \in Pin \union {mem[id].pin} : BeginEdit("settings", id, ep, p, t)
    /\ UNCHANGED pair

\* settings_set_host_enabled
SetHostEnabled ==
    /\ pc["settings"] = "idle"
    /\ \E id \in DOMAIN mem, on \in BOOLEAN :
          Enter("settings", "save", [NoOp EXCEPT !.kind = "enable", !.id = id],
                [mem EXCEPT ![id].enabled = on])
    /\ UNCHANGED <<minted, pair>>

\* Mutant: a removed host's token is left in the keychain.
RemoveHostOnly ==
    /\ pc["settings"] = "idle"
    /\ \E id \in DOMAIN mem :
          Enter("settings", "save", [NoOp EXCEPT !.kind = "remove", !.id = id],
                Without(mem, id))
    /\ UNCHANGED <<minted, pair>>

\* settings_remove_host: the token is deleted before the file is written.
RemoveHost ==
    /\ pc["settings"] = "idle"
    /\ \E id \in DOMAIN mem :
          Enter("settings", "delete", [NoOp EXCEPT !.kind = "remove", !.id = id],
                Without(mem, id))
    /\ UNCHANGED <<minted, pair>>

\* Any other Settings command that saves the whole store.
SaveOther ==
    /\ pc["settings"] = "idle" /\ lock = Free
    /\ file' = mem
    /\ UNCHANGED <<mem, keychain, undeleted, minted, lock, polled, pc, op,
                   lists, pair, faults>>

\* An edit of a host that is gone writes nothing and still reloads.
SkipUnknown ==
    /\ pc["settings"] = "idle"
    /\ Goto("settings", "read")
    /\ UNCHANGED <<mem, disk, minted, lock, polled, op, lists, pair, faults>>

DeleteToken(a) ==
    /\ pc[a] = "delete" /\ lock = a
    /\ Goto(a, "save")
    /\ \/ /\ keychain' = [keychain EXCEPT ![op[a].id] = NoToken]
          /\ UNCHANGED <<undeleted, faults>>
       \/ /\ keychain[op[a].id] # NoToken /\ Fault
          /\ undeleted' = undeleted \union {op[a].id}
          /\ UNCHANGED keychain
    /\ UNCHANGED <<mem, file, minted, lock, polled, op, lists, pair>>

SaveWorks(a) ==
    /\ pc[a] = "save" /\ lock = a
    /\ file' = mem
    /\ IF op[a].token # NoToken
         THEN Goto(a, "secret") /\ UNCHANGED <<lock, op>>
         ELSE Leave(a, "read")
    /\ UNCHANGED <<mem, keychain, minted, polled, lists, pair, undeleted,
                   faults>>

\* Mutant: a failed save leaves an added host in memory.
RolledBackEdits(o) == IF o.kind = "edit" THEN With(mem, o.id, o.was) ELSE mem

\* Mutant: a failed save restores what the row was, also where it was not.
RolledBackToBefore(o) ==
    IF o.kind \in {"add", "edit"} THEN With(mem, o.id, o.was) ELSE mem

\* What a failed save leaves in memory.
RolledBack(o) ==
    CASE o.kind = "add"  -> Without(mem, o.id)
      [] o.kind = "edit" -> With(mem, o.id, o.was)
      [] OTHER           -> mem

SaveFails(a) ==
    /\ pc[a] = "save" /\ lock = a /\ Fault
    /\ mem' = RolledBack(op[a])
    /\ Overtake(a)
    /\ Leave(a, "read")
    /\ UNCHANGED <<disk, minted, polled, desired, pair>>

\* Mutant: a replaced token does not restart the host's task.
SetSecretWithoutRestart(a) ==
    /\ pc[a] = "secret" /\ lock = a
    /\ keychain' = [keychain EXCEPT ![op[a].id] = op[a].token]
    /\ Leave(a, "read")
    /\ UNCHANGED <<mem, file, minted, polled, lists, pair, undeleted,
                   faults>>

\* The token reaches the keychain.  An edited host's task is restarted, since
\* its client holds the old token.
SetSecret(a) ==
    /\ pc[a] = "secret" /\ lock = a
    /\ keychain' = [keychain EXCEPT ![op[a].id] = op[a].token]
    /\ Leave(a, IF op[a].kind = "edit" THEN "restart" ELSE "read")
    /\ UNCHANGED <<mem, file, minted, polled, lists, pair, undeleted,
                   faults>>

SetSecretFails(a) ==
    /\ pc[a] = "secret" /\ lock = a /\ Fault
    /\ Leave(a, "read")
    /\ UNCHANGED <<mem, disk, minted, polled, lists, pair>>

\* restart_host_task
RestartTask(a) ==
    /\ pc[a] = "restart"
    /\ polled' = Without(polled, op[a].id)
    /\ Goto(a, "read")
    /\ op' = [op EXCEPT ![a] = NoOp]
    /\ UNCHANGED <<mem, disk, minted, lock, lists, pair, faults>>

\* The first half of reload_hosts, under the store's lock.
ReadDesired(a) ==
    /\ pc[a] = "read" /\ lock = Free
    /\ desired' = [desired EXCEPT ![a] = Wanted(mem)]
    /\ overtaken' = overtaken \ {a}
    /\ Goto(a, "apply")
    /\ UNCHANGED <<mem, disk, minted, lock, polled, op, pair, faults>>

\* The second half, under the poll set's lock.
Apply(a) ==
    /\ pc[a] = "apply"
    /\ \E unread \in SUBSET DOMAIN desired[a] :
          /\ Unreadable(unread)
          /\ polled' = Reconciled(desired[a], unread)
    /\ desired' = [desired EXCEPT ![a] = Empty]
    /\ overtaken' = overtaken \intersect ({a} \union {b \in Actors : pc[b] = "apply"})
    /\ Goto(a, "idle")
    /\ UNCHANGED <<mem, disk, minted, lock, op, pair>>

----------------------------------------------------------------------------
\* The hand-off: crates/hostsetup/src/server.rs `pair`.
Pair(l) == pc["handoff"] = l

Unwritten == UNCHANGED <<mem, disk, minted, lock, polled, op, lists, faults>>

\* The request is over, or what is left of it is in `op`.
Forget == req' = Nothing /\ decided' = NoDecision /\ basis' = Nothing

Refuse == Goto("handoff", "idle") /\ Forget

\* A request whose fingerprint the app's own probe of the address has found,
\* and the decision about it; one that is refused changes nothing.
PairRequest ==
    /\ Pair("idle") /\ lock = Free
    /\ \E r \in Request :
          LET d == Decide(mem, r)
          IN  /\ d.kind # "Refused"
              /\ req' = r /\ decided' = d
              /\ basis' = IF d.id = 0 THEN Nothing ELSE KeyOf(mem[d.id])
    /\ Goto("handoff", "health")
    /\ Unwritten

\* token_matches: an unreadable keychain is not a match.
TokenMatches ==
    /\ decided.kind = "SamePairing"
    /\ keychain[decided.id] = req.token

\* The agent accepted the token, so it may be stored, unless the host already
\* has it.
HealthPasses ==
    /\ Pair("health")
    /\ \/ Goto("handoff", "commit")
       \/ TokenMatches /\ Goto("handoff", "answer")
    /\ UNCHANGED pair /\ Unwritten

HealthFails == Pair("health") /\ Refuse /\ Unwritten

\* The same pairing and the same token: nothing is written, if the host is
\* still there, and the answer says so.
AnswerUnchanged ==
    /\ Pair("answer") /\ lock = Free
    /\ decided.id \in DOMAIN mem
    /\ Goto("handoff", "idle") /\ Forget
    /\ Unwritten

AnswerRemoved ==
    /\ Pair("answer") /\ lock = Free
    /\ decided.id \notin DOMAIN mem
    /\ Refuse /\ Unwritten

\* Mutant: the decision is carried out without asking again.
CommitUnconfirmed ==
    /\ Pair("commit")
    /\ IF decided.kind = "Add"
         THEN BeginAdd("handoff", [ep |-> req.ep, pin |-> req.pin,
                                   enabled |-> TRUE], req.token)
         ELSE BeginEdit("handoff", decided.id, req.ep, req.pin, req.token)
    /\ Forget

\* AppBook::apply: `confirm` under the lock that the writes take.
Commit ==
    /\ Pair("commit") /\ lock = Free
    /\ \/ /\ Decide(mem, req) # decided
          /\ Refuse /\ Unwritten
       \/ /\ Decide(mem, req) = decided
          /\ Forget
          /\ IF decided.kind = "Add"
               THEN BeginAdd("handoff", [ep |-> req.ep, pin |-> req.pin,
                                         enabled |-> TRUE], req.token)
               ELSE BeginEdit("handoff", decided.id, req.ep, req.pin, req.token)

----------------------------------------------------------------------------
\* The process stops anywhere and is started again: memory is the file, and
\* startup makes the poll set before anything else runs.
Relaunch ==
    /\ mem' = file
    /\ \E unread \in SUBSET DOMAIN Wanted(file) :
          /\ Unreadable(unread)
          /\ polled' = [id \in DOMAIN Wanted(file) |->
                        Spawned(id, Wanted(file)[id], unread)]
    /\ lock' = Free
    /\ pc' = [a \in Actors |-> "idle"]
    /\ op' = [a \in Actors |-> NoOp]
    /\ desired' = [a \in Actors |-> Empty] /\ overtaken' = {}
    /\ Forget
    /\ UNCHANGED <<disk, minted>>

Settings == "settings" \in Actors /\
    (AddHost \/ SaveHost \/ SetHostEnabled \/ RemoveHost \/ SaveOther \/ SkipUnknown)

Handoff == "handoff" \in Actors /\
    (PairRequest \/ HealthPasses \/ HealthFails
        \/ AnswerUnchanged \/ AnswerRemoved \/ Commit)

Write(a) ==
    \/ DeleteToken(a) \/ SaveWorks(a) \/ SaveFails(a)
    \/ SetSecret(a) \/ SetSecretFails(a)

GoLive(a) == RestartTask(a) \/ ReadDesired(a) \/ Apply(a)

Next ==
    \/ Settings
    \/ Handoff
    \/ \E a \in Actors : Write(a) \/ GoLive(a)
    \/ Relaunch

Spec == Init /\ [][Next]_vars

----------------------------------------------------------------------------
TypeOK ==
    /\ mem \in Rows /\ file \in Rows
    /\ keychain \in [Id -> Token \union {NoToken}]
    /\ minted \in 0..MaxHosts
    /\ lock \in Actors \union {Free}
    /\ polled \in Polls
    /\ pc \in [Actors -> {"idle"} \union Critical \union Live \union Pairing]
    /\ op \in [Actors -> Op]
    /\ desired \in [Actors -> Keys] /\ overtaken \subseteq Actors
    /\ req \in Request \union {Nothing}
    /\ decided \in Decision
    /\ basis \in Key \union {Nothing}
    /\ faults \in 0..MaxFaults
    /\ undeleted \subseteq Id

(***************************************************************************)
(* The inductive invariant.                                                *)
(***************************************************************************)
\* The store's lock is held exactly inside a critical section.
LockInv == \A a \in Actors : pc[a] \in Critical <=> lock = a

\* No id is used before it is minted.
IdInv ==
    /\ DOMAIN mem \subseteq 1..minted /\ DOMAIN file \subseteq 1..minted
    /\ DOMAIN polled \subseteq 1..minted /\ undeleted \subseteq 1..minted
    /\ \A a \in Actors : DOMAIN desired[a] \subseteq 1..minted

\* Inside a critical section: the row it is about, and what is not yet done.
OpInv(a) ==
    /\ pc[a] = "delete" =>
          /\ op[a].kind = "remove" /\ op[a].token = NoToken
          /\ op[a].id \in DOMAIN file \ DOMAIN mem
    /\ pc[a] = "save" /\ op[a].kind = "remove" =>
          op[a].id \in Id \ DOMAIN mem /\ op[a].token = NoToken
    /\ pc[a] = "save" /\ op[a].kind = "edit" =>
          op[a].id \in DOMAIN mem /\ op[a].was \in Row
    /\ pc[a] = "save" /\ op[a].kind = "enable" => op[a].token = NoToken
    /\ pc[a] = "save" => op[a].kind # "none"
    /\ pc[a] = "secret" =>
          /\ op[a].kind \in {"add", "edit"} /\ op[a].token # NoToken
          /\ op[a].id \in DOMAIN mem \cap DOMAIN file
    /\ pc[a] \in {"save", "secret"} /\ op[a].kind = "add" =>
          /\ op[a].id \in DOMAIN mem /\ keychain[op[a].id] = NoToken
          /\ op[a].id \notin DOMAIN polled
          /\ \A b \in Actors : op[a].id \notin DOMAIN desired[b]
    /\ pc[a] = "restart" => op[a].id \in Id

\* The row that is in memory before it is in the file.
Unsaved == {op[a].id : a \in {b \in Actors : pc[b] = "save" /\ op[b].kind = "add"}}

\* The row that is out of memory before its token is deleted.
Undone == {op[a].id : a \in {b \in Actors : pc[b] = "delete"}}

RowsInv ==
    /\ DOMAIN mem \subseteq DOMAIN file \union Unsaved
    /\ \A id \in Id : keychain[id] # NoToken =>
          id \in DOMAIN mem \union undeleted \union Undone

\* Whoever made a task's token stale is still going to restart or drop it.
WillReplace(a, id) ==
    \/ pc[a] = "restart" /\ op[a].id = id
    \/ pc[a] = "save" /\ op[a].kind = "remove" /\ op[a].id = id
    \/ pc[a] = "read" /\ id \notin DOMAIN mem
    \/ pc[a] = "apply" /\ id \notin DOMAIN desired[a]

StaleInv ==
    \A id \in DOMAIN polled :
        \/ polled[id].token \in {keychain[id], Unread}
        \/ \E a \in Actors : WillReplace(a, id)

CoreInv ==
    /\ TypeOK
    /\ LockInv /\ IdInv /\ RowsInv /\ StaleInv
    /\ \A a \in Actors : OpInv(a)

\* Only the hand-off serves requests, and it has one while it does.
PairInv == \A a \in Actors : pc[a] \in Pairing => a = "handoff" /\ req # Nothing

RosterInv == CoreInv /\ PairInv

\* Nobody is in the middle of a change or of making one live.
Settled == \A a \in Actors : pc[a] \notin Critical \union Live

(***************************************************************************)
(* "The in-memory store must not hold a host the file does not, or the     *)
(* next unrelated save would quietly persist it" (add_host_connection):    *)
(* whatever failed before, outside a critical section every host in memory *)
(* is in the file.                                                         *)
(***************************************************************************)
MemoryWithinFile == lock = Free => DOMAIN mem \subseteq DOMAIN file

(***************************************************************************)
(* A stored token always belongs to a host the next launch will show, so   *)
(* it can be seen, replaced and removed: the file is written before the    *)
(* token is stored, and the token is deleted before the file forgets the   *)
(* host.  The one exception is a token the keychain refused to delete.     *)
(***************************************************************************)
NoOrphanToken ==
    \A id \in Id : keychain[id] # NoToken => id \in DOMAIN file \union undeleted

\* Whichever step of an addition, edit or removal failed, no half of it stays:
\* no host without its file and no token without its host.
NothingHalfStored == MemoryWithinFile /\ NoOrphanToken

(***************************************************************************)
(* "Clients retain their token, so a replaced token needs a new client"    *)
(* (restart_host_task): once nobody is changing anything, every poll task  *)
(* sends the token that is stored now, or was refused one by the keychain, *)
(* however the two actors interleaved.                                     *)
(***************************************************************************)
TokenCurrent ==
    Settled => \A id \in DOMAIN polled :
                  polled[id].token \in {keychain[id], Unread}

(***************************************************************************)
(* "One machine must not become two cards" (pairing.rs): a hand-off never  *)
(* adds a row at an address that already has one, or for a certificate     *)
(* that a row already holds, whatever Settings did while it waited for the *)
(* probe and the health check.                                             *)
(***************************************************************************)
NoSecondCard ==
    [][\A id \in DOMAIN mem' \ DOMAIN mem :
            lock' = "handoff" =>
                /\ At(mem, mem'[id].ep) = {}
                /\ Holding(mem, mem'[id].pin) = {}]_vars

(***************************************************************************)
(* "Makes the store's host list the poll set" (handoff.rs, reload): when   *)
(* nobody is changing anything, the poll set is the enabled hosts of the   *)
(* list, at their addresses and with their pins.                           *)
(***************************************************************************)
PollSetFollowsStore ==
    Settled => [id \in DOMAIN polled |-> TaskKey(polled[id])] = Wanted(mem)

(***************************************************************************)
(* And what is true of it with both actors, whatever failed before: when   *)
(* nobody is changing anything, the poll set is the list, unless the last  *)
(* reload applied a list that another actor's change had passed since it   *)
(* was read.  Two reloads that cross are the only way it falls behind.     *)
(***************************************************************************)
FollowsUnlessOvertaken == overtaken = {} => PollSetFollowsStore

\* Which tasks there are, and the token each sends.
TasksAreRight == TokenCurrent /\ FollowsUnlessOvertaken

(***************************************************************************)
(* "A host added or edited in Settings in that window must be neither      *)
(* duplicated nor overwritten" (pairing.rs, confirm): a hand-off writes    *)
(* over a row only as it was when it decided.                              *)
(***************************************************************************)
NotOverwritten ==
    [][lock = Free /\ lock' = "handoff" /\ decided.id # 0 =>
          KeyOf(mem[decided.id]) = basis]_vars
=============================================================================
