-------------------------- MODULE HostRosterProofs --------------------------
(***************************************************************************)
(* Proofs about HostRoster, for any addresses, pins and tokens, any number *)
(* of hosts and of faults.                                                 *)
(***************************************************************************)
EXTENDS HostRoster, WellFoundedInduction, TLAPS

----------------------------------------------------------------------------
\* What a map of ids is, and what makes one.
LEMMA MapsDef ==
    ASSUME NEW T, NEW f
    PROVE  f \in Maps(T) <=> /\ DOMAIN f \subseteq Id
                             /\ f \in [DOMAIN f -> T]
<1>1. ASSUME f \in Maps(T)
      PROVE  DOMAIN f \subseteq Id /\ f \in [DOMAIN f -> T]
  <2>1. PICK S \in SUBSET Id : f \in [S -> T]
    BY <1>1 DEF Maps
  <2> QED
    BY <2>1
<1>2. ASSUME DOMAIN f \subseteq Id, f \in [DOMAIN f -> T]
      PROVE  f \in Maps(T)
  BY <1>2 DEF Maps
<1> QED
  BY <1>1, <1>2

\* Removing and adding a row, and dropping a task.
LEMMA WithRow ==
    ASSUME NEW f \in Rows, NEW id \in Id, NEW v \in Row
    PROVE  /\ With(f, id, v) \in Rows
           /\ DOMAIN With(f, id, v) = DOMAIN f \union {id}
<1>1. DOMAIN f \subseteq Id /\ f \in [DOMAIN f -> Row]
  BY MapsDef DEF Rows
<1>2. /\ DOMAIN With(f, id, v) = DOMAIN f \union {id}
      /\ With(f, id, v) \in [DOMAIN f \union {id} -> Row]
  BY <1>1 DEF With
<1> QED
  BY <1>1, <1>2, MapsDef DEF Rows

LEMMA WithoutRow ==
    ASSUME NEW f \in Rows, NEW id
    PROVE  /\ Without(f, id) \in Rows
           /\ DOMAIN Without(f, id) = DOMAIN f \ {id}
<1>1. DOMAIN f \subseteq Id /\ f \in [DOMAIN f -> Row]
  BY MapsDef DEF Rows
<1>2. /\ DOMAIN Without(f, id) = DOMAIN f \ {id}
      /\ Without(f, id) \in [DOMAIN f \ {id} -> Row]
  BY <1>1 DEF Without
<1> QED
  BY <1>1, <1>2, MapsDef DEF Rows

LEMMA WithoutTask ==
    ASSUME NEW f \in Polls, NEW id
    PROVE  /\ Without(f, id) \in Polls
           /\ DOMAIN Without(f, id) = DOMAIN f \ {id}
           /\ \A i \in DOMAIN f \ {id} : Without(f, id)[i] = f[i]
<1>1. DOMAIN f \subseteq Id /\ f \in [DOMAIN f -> Task]
  BY MapsDef DEF Polls
<1>2. /\ DOMAIN Without(f, id) = DOMAIN f \ {id}
      /\ \A i \in DOMAIN f \ {id} : Without(f, id)[i] = f[i]
      /\ Without(f, id) \in [DOMAIN f \ {id} -> Task]
  BY <1>1 DEF Without
<1> QED
  BY <1>1, <1>2, MapsDef DEF Polls

\* The keys of the enabled rows.
LEMMA WantedKeys ==
    ASSUME NEW rows \in Rows
    PROVE  /\ Wanted(rows) \in Keys
           /\ DOMAIN Wanted(rows) \subseteq DOMAIN rows
<1>1. DOMAIN rows \subseteq Id /\ rows \in [DOMAIN rows -> Row]
  BY MapsDef DEF Rows
<1>2. /\ DOMAIN Wanted(rows) \subseteq DOMAIN rows
      /\ Wanted(rows) \in [DOMAIN Wanted(rows) -> Key]
  BY <1>1 DEF Wanted, KeyOf, Row, Key
<1> QED
  BY <1>1, <1>2, MapsDef DEF Keys

\* What a task is started with.
LEMMA SpawnedTask ==
    ASSUME keychain \in [Id -> Token \union {NoToken}],
           NEW id \in Id, NEW key \in Key, NEW unread
    PROVE  /\ Spawned(id, key, unread) \in Task
           /\ Spawned(id, key, unread).token \in {keychain[id], Unread}
  BY DEF Spawned, TokenRead, Task, Key

\* A reload keeps tasks that are still wanted and starts the others.
LEMMA ReconciledTasks ==
    ASSUME TypeOK, NEW want \in Keys, NEW unread
    PROVE  /\ Reconciled(want, unread) \in Polls
           /\ DOMAIN Reconciled(want, unread) = DOMAIN want
           /\ \A id \in DOMAIN want :
                 \/ id \in DOMAIN polled /\ Reconciled(want, unread)[id] = polled[id]
                 \/ Reconciled(want, unread)[id].token \in {keychain[id], Unread}
<1>1. DOMAIN want \subseteq Id /\ want \in [DOMAIN want -> Key]
  BY MapsDef DEF Keys
<1>2. polled \in [DOMAIN polled -> Task]
  BY MapsDef DEF TypeOK, Polls
<1>3. \A id \in DOMAIN want : Spawned(id, want[id], unread) \in Task
                     /\ Spawned(id, want[id], unread).token \in {keychain[id], Unread}
  BY <1>1, SpawnedTask DEF TypeOK
<1>4. DOMAIN Reconciled(want, unread) = DOMAIN want
  BY DEF Reconciled
<1>5. Reconciled(want, unread) \in [DOMAIN want -> Task]
  BY <1>2, <1>3 DEF Reconciled
<1>6. \A id \in DOMAIN want :
         \/ id \in DOMAIN polled /\ Reconciled(want, unread)[id] = polled[id]
         \/ Reconciled(want, unread)[id] = Spawned(id, want[id], unread)
  BY DEF Reconciled
<1> QED
  BY <1>1, <1>3, <1>4, <1>5, <1>6, MapsDef DEF Polls

\* Startup's poll set.
LEMMA StartedTasks ==
    ASSUME keychain \in [Id -> Token \union {NoToken}],
           NEW want \in Keys, NEW unread
    PROVE  LET started == [id \in DOMAIN want |-> Spawned(id, want[id], unread)]
           IN  /\ started \in Polls
               /\ DOMAIN started = DOMAIN want
               /\ \A id \in DOMAIN want :
                     started[id].token \in {keychain[id], Unread}
<1> DEFINE started == [id \in DOMAIN want |-> Spawned(id, want[id], unread)]
<1>1. DOMAIN want \subseteq Id /\ want \in [DOMAIN want -> Key]
  BY MapsDef DEF Keys
<1>2. \A id \in DOMAIN want : Spawned(id, want[id], unread) \in Task
                     /\ Spawned(id, want[id], unread).token \in {keychain[id], Unread}
  BY <1>1, SpawnedTask
<1>3. started \in [DOMAIN want -> Task]
  BY <1>2
<1> QED
  BY <1>1, <1>2, <1>3, MapsDef DEF Polls

\* The minimum of a set of ids is one of them.
LEMMA MinId ==
    ASSUME NEW S \in SUBSET Id, S # {}
    PROVE  Min(S) \in S
<1>1. S \in SUBSET Nat
  BY ConstantsAssumption DEF Id
<1> DEFINE R == {ss \in Nat \X Nat : ss[1] < ss[2]}
<1>2. IsWellFoundedOn(R, Nat)
  BY NatLessThanWellFounded DEF OpToRel
<1> HIDE DEF R
<1>3. \E x \in S : \A y \in S : ~(<<y, x>> \in R)
  BY <1>1, <1>2, WFMin
<1>4. \A x, y \in Nat : <<y, x>> \notin R => x =< y
  BY DEF R
<1>5. \E x \in S : \A y \in S : x =< y
  BY <1>1, <1>3, <1>4
<1> QED
  BY <1>5 DEF Min

\* `decide` names a row of the list, and adds only where nothing is in the way.
LEMMA DecideIs ==
    ASSUME NEW rows \in Rows, NEW r \in Request
    PROVE  /\ Decide(rows, r) \in Decision
           /\ Decide(rows, r).kind \in {"SamePairing", "Replace"} =>
                 Decide(rows, r).id \in DOMAIN rows
           /\ Decide(rows, r).kind = "Add" =>
                 At(rows, r.ep) = {} /\ Holding(rows, r.pin) = {}
           /\ Decide(rows, r).kind \in {"Add", "Refused"} => Decide(rows, r).id = 0
<1> DEFINE here  == At(rows, r.ep)
           there == Holding(rows, r.pin)
           at    == IF here # {} THEN Min(here) ELSE Min(there)
<1>1. here \subseteq DOMAIN rows /\ there \subseteq DOMAIN rows /\ DOMAIN rows \subseteq Id
  BY MapsDef DEF Rows, At, Holding
<1>2. here # {} \/ there # {} => at \in DOMAIN rows
  BY <1>1, MinId
<1> HIDE DEF at
<1>3. Decide(rows, r) =
        IF here = {} /\ there = {} THEN [kind |-> "Add", id |-> 0]
        ELSE IF here # {} /\ rows[at].pin = r.pin
            THEN [kind |-> "SamePairing", id |-> at]
        ELSE IF r.replace THEN [kind |-> "Replace", id |-> at]
        ELSE NoDecision
  BY DEF Decide, at
<1> HIDE DEF here, there
<1>4. CASE here = {} /\ there = {}
  BY <1>3, <1>4 DEF Decision, here, there
<1>5. CASE ~(here = {} /\ there = {})
  BY <1>1, <1>2, <1>3, <1>5 DEF Decision, NoDecision
<1> QED
  BY <1>4, <1>5

----------------------------------------------------------------------------
\* What every action needs of the invariant.
LEMMA Actor ==
    ASSUME CoreInv, NEW a \in Actors
    PROVE  /\ TypeOK /\ LockInv /\ IdInv /\ RowsInv /\ StaleInv
           /\ a # Free /\ op[a] \in Op
           /\ OpInv(a)
           /\ pc[a] \in Critical <=> lock = a
           /\ DOMAIN mem \subseteq Id /\ DOMAIN file \subseteq Id
           /\ DOMAIN polled \subseteq Id
<1>1. TypeOK
  BY DEF CoreInv
<1>2. DOMAIN mem \subseteq Id /\ DOMAIN file \subseteq Id /\ DOMAIN polled \subseteq Id
  BY <1>1, MapsDef DEF TypeOK, Rows, Polls
<1> QED
  BY <1>1, <1>2, ConstantsAssumption DEF CoreInv, LockInv, TypeOK

\* Nobody else is in a critical section while one is held or begun.
LEMMA OthersOutside ==
    ASSUME CoreInv, NEW a \in Actors, lock \in {a, Free}, NEW b \in Actors, b # a
    PROVE  pc[b] \notin Critical
  BY ConstantsAssumption DEF CoreInv, LockInv

\* A step of `a` under the lock leaves the others' part of the invariant.
LEMMA OthersOp ==
    ASSUME CoreInv, NEW a \in Actors, lock \in {a, Free},
           NEW b \in Actors, b # a, pc'[b] = pc[b], op'[b] = op[b]
    PROVE  OpInv(b)'
<1>1. pc[b] \notin Critical /\ OpInv(b)
  BY OthersOutside DEF CoreInv
<1> QED
  BY <1>1 DEF OpInv, Critical

\* With the lock free there is no unfinished row.
LEMMA NobodyInside ==
    ASSUME CoreInv, lock = Free
    PROVE  /\ Unsaved = {} /\ Undone = {}
           /\ \A b \in Actors : pc[b] \notin Critical
<1>1. \A b \in Actors : pc[b] \notin Critical
  BY ConstantsAssumption DEF CoreInv, LockInv
<1> QED
  BY <1>1 DEF Unsaved, Undone, Critical

LEMMA InitInv == Init => CoreInv
<1> SUFFICES ASSUME Init PROVE CoreInv
  OBVIOUS
<1>1. /\ mem \in Rows /\ keychain \in [Id -> Token \union {NoToken}]
      /\ DOMAIN mem = 1..minted
  BY DEF Init
<1>2. /\ polled \in Polls /\ DOMAIN polled \subseteq DOMAIN mem
      /\ \A id \in DOMAIN polled : polled[id].token \in {keychain[id], Unread}
  BY <1>1, WantedKeys, StartedTasks DEF Init
<1>3. NoOp \in Op /\ Empty \in Keys /\ DOMAIN Empty = {}
  BY MapsDef DEF NoOp, Op, Empty, Keys
<1>4. TypeOK
  BY <1>1, <1>2, <1>3, ConstantsAssumption DEF Init, TypeOK, NoDecision, Decision
<1>5. LockInv /\ \A a \in Actors : OpInv(a)
  BY ConstantsAssumption DEF Init, LockInv, OpInv, Critical, NoOp
<1>6. IdInv
  BY <1>1, <1>2, <1>3 DEF Init, IdInv
<1>7. RowsInv
  BY <1>1 DEF Init, RowsInv
<1>8. StaleInv
  BY <1>2 DEF StaleInv
<1> QED
  BY <1>4, <1>5, <1>6, <1>7, <1>8 DEF CoreInv

LEMMA DeleteTokenInv ==
    ASSUME CoreInv, NEW a \in Actors, DeleteToken(a)
    PROVE  CoreInv'
<1>1. /\ pc[a] = "delete" /\ lock = a /\ op[a].id \in Id /\ OpInv(a)
      /\ op[a].kind = "remove" /\ op[a].token = NoToken /\ op[a].id \notin DOMAIN mem
      /\ TypeOK /\ LockInv /\ IdInv /\ RowsInv /\ StaleInv
  BY Actor DEF DeleteToken, OpInv
<1>2. /\ pc' = [pc EXCEPT ![a] = "save"] /\ pc'[a] = "save"
      /\ \A b \in Actors \ {a} : pc'[b] = pc[b]
      /\ UNCHANGED <<mem, file, minted, lock, polled, op, desired, req, decided, basis>>
      /\ overtaken' \subseteq Actors
      /\ keychain' \in [Id -> Token \union {NoToken}]
      /\ undeleted' \subseteq Id /\ faults' \in 0..MaxFaults
      /\ \A id \in Id \ {op[a].id} : keychain'[id] = keychain[id]
      /\ undeleted \subseteq undeleted'
      /\ undeleted' \subseteq undeleted \union {op[a].id}
      /\ keychain'[op[a].id] = NoToken \/ op[a].id \in undeleted'
  BY <1>1, ConstantsAssumption DEF DeleteToken, Goto, TypeOK, Fault, pair, lists
<1>3. TypeOK'
  BY <1>1, <1>2 DEF TypeOK, Critical
<1>4. LockInv' /\ IdInv'
  <2>1. op[a].id \in 1..minted
    BY <1>1 DEF OpInv, IdInv
  <2> QED
    BY <1>1, <1>2, <2>1 DEF LockInv, Critical, IdInv
<1>5. RowsInv'
  <2>1. Unsaved = {} /\ Undone = {op[a].id} /\ Unsaved' = {} /\ Undone' = {}
    BY <1>1, <1>2, OthersOutside DEF Unsaved, Undone, Critical
  <2> QED
    BY <1>1, <1>2, <2>1 DEF RowsInv
<1>6. StaleInv'
  <2> SUFFICES ASSUME NEW id \in DOMAIN polled
               PROVE  \/ polled[id].token \in {keychain'[id], Unread}
                      \/ \E b \in Actors : WillReplace(b, id)'
    BY <1>2 DEF StaleInv
  <2>1. id \in Id
    BY Actor
  <2>2. CASE id = op[a].id
    BY <1>1, <1>2, <2>2 DEF WillReplace
  <2>3. \A b \in Actors : WillReplace(b, id) => WillReplace(b, id)'
    BY <1>1, <1>2 DEF WillReplace
  <2> QED
    BY <1>1, <1>2, <2>1, <2>2, <2>3 DEF StaleInv
<1>7. OpInv(a)'
  BY <1>1, <1>2 DEF OpInv
<1>8. \A b \in Actors : OpInv(b)'
  BY <1>1, <1>2, <1>7, OthersOp
<1> QED
  BY <1>3, <1>4, <1>5, <1>6, <1>8 DEF CoreInv

----------------------------------------------------------------------------
\* Entering a critical section: what it takes for the invariant to hold after.
LEMMA EnterInv ==
    ASSUME CoreInv, NEW a \in Actors, NEW l \in Critical, NEW o \in Op,
           NEW rows \in Rows, Enter(a, l, o, rows),
           pc[a] \in {"idle", "commit"},
           minted' \in minted..MaxHosts, DOMAIN rows \subseteq 1..minted',
           \A id \in DOMAIN rows \ DOMAIN mem : l = "save" /\ o.kind = "add" /\ o.id = id,
           \A id \in DOMAIN mem \ DOMAIN rows : l = "delete" /\ o.id = id,
           OpInv(a)',
           req' \in Request \union {Nothing}, decided' \in Decision,
           basis' \in Key \union {Nothing}
    PROVE  CoreInv'
<1>1. /\ lock = Free /\ lock' = a /\ mem' = rows
      /\ TypeOK /\ LockInv /\ IdInv /\ RowsInv /\ StaleInv
      /\ pc' = [pc EXCEPT ![a] = l] /\ op' = [op EXCEPT ![a] = o]
      /\ UNCHANGED <<polled, desired, file, keychain, undeleted, faults>>
      /\ overtaken' \subseteq Actors
  BY Actor DEF Enter, Goto, disk, Overtake, TypeOK
<1>2. /\ pc'[a] = l /\ op'[a] = o
      /\ \A b \in Actors \ {a} : pc'[b] = pc[b] /\ op'[b] = op[b]
  BY <1>1 DEF TypeOK
<1>3. \A b \in Actors : pc[b] \notin Critical
  BY <1>1, ConstantsAssumption DEF LockInv
<1>4. TypeOK'
  BY <1>1, <1>2 DEF TypeOK, Critical
<1>5. LockInv'
  BY <1>1, <1>2, <1>3 DEF LockInv
<1>6. IdInv'
  BY <1>1 DEF IdInv, TypeOK
<1>7. RowsInv'
  <2>1. Unsaved = {} /\ Undone = {}
    BY <1>3 DEF Unsaved, Undone, Critical
  <2>2. /\ l = "save" /\ o.kind = "add" => o.id \in Unsaved'
        /\ l = "delete" => o.id \in Undone'
    BY <1>2 DEF Unsaved, Undone
  <2> QED
    BY <1>1, <2>1, <2>2 DEF RowsInv
<1>8. StaleInv'
  <2> SUFFICES ASSUME NEW id \in DOMAIN polled
               PROVE  \/ polled[id].token \in {keychain[id], Unread}
                      \/ \E b \in Actors : WillReplace(b, id)'
    BY <1>1 DEF StaleInv
  <2>1. id \notin DOMAIN rows \ DOMAIN mem
    BY <1>1, <1>2 DEF OpInv
  <2>2. \A b \in Actors : WillReplace(b, id) => WillReplace(b, id)'
    BY <1>1, <1>2, <2>1 DEF WillReplace
  <2> QED
    BY <1>1, <2>2 DEF StaleInv
<1>9. \A b \in Actors : OpInv(b)'
  BY <1>1, <1>2, OthersOp
<1> QED
  BY <1>4, <1>5, <1>6, <1>7, <1>8, <1>9 DEF CoreInv

\* A fresh id: nothing is stored, polled or wanted under it.
LEMMA BeginAddInv ==
    ASSUME CoreInv, NEW a \in Actors, pc[a] \in {"idle", "commit"},
           NEW row \in Row, NEW token \in Token \union {NoToken},
           BeginAdd(a, row, token),
           req' \in Request \union {Nothing}, decided' \in Decision,
           basis' \in Key \union {Nothing}
    PROVE  CoreInv'
<1> DEFINE new == minted + 1
           o   == [kind |-> "add", id |-> new, was |-> Nothing, token |-> token]
           rows == With(mem, new, row)
<1>1. /\ TypeOK /\ LockInv /\ IdInv /\ RowsInv
      /\ minted < MaxHosts /\ minted' = new /\ Enter(a, "save", o, rows)
      /\ minted \in 0..MaxHosts /\ MaxHosts \in Nat
  BY Actor, ConstantsAssumption DEF BeginAdd, TypeOK
<1>2. new \in Id /\ new \notin 1..minted /\ minted' \in minted..MaxHosts
  BY <1>1 DEF Id
<1>3. /\ rows \in Rows /\ DOMAIN rows = DOMAIN mem \union {new}
      /\ o \in Op /\ "save" \in Critical
  <2>1. mem \in Rows /\ (\A i \in Id : /\ With(mem, i, row) \in Rows
                                     /\ DOMAIN With(mem, i, row) = DOMAIN mem \union {i})
    BY <1>1, WithRow DEF TypeOK
  <2>2. o \in Op /\ "save" \in Critical
    BY <1>2 DEF Op, Critical
  <2> QED
    BY <1>2, <2>1, <2>2
<1>4. /\ pc'[a] = "save" /\ op'[a] = o /\ mem' = rows /\ lock = Free
      /\ UNCHANGED <<keychain, polled, desired>>
      /\ overtaken' \subseteq Actors
  BY <1>1 DEF Enter, Goto, disk, TypeOK, Overtake
<1>5. /\ new \notin DOMAIN mem /\ new \notin DOMAIN polled
      /\ \A b \in Actors : new \notin DOMAIN desired[b]
  BY <1>1, <1>2 DEF IdInv
<1>6. keychain[new] = NoToken
  <2>1. Undone = {}
    BY <1>1, <1>4, ConstantsAssumption DEF LockInv, Undone, Critical
  <2> QED
    BY <1>1, <1>2, <1>5, <2>1 DEF RowsInv, IdInv
<1>7. OpInv(a)'
  BY <1>3, <1>4, <1>5, <1>6 DEF OpInv
<1>8. DOMAIN rows \subseteq 1..minted'
  BY <1>1, <1>3 DEF IdInv
<1> HIDE DEF o, rows
<1>9. o.kind = "add" /\ o.id = new
  BY DEF o
<1> QED
  BY <1>1, <1>2, <1>3, <1>7, <1>8, <1>9, EnterInv

LEMMA BeginEditInv ==
    ASSUME CoreInv, NEW a \in Actors, pc[a] \in {"idle", "commit"},
           NEW id, NEW ep \in Endpoint, NEW pin \in Pin \union {NoPin},
           NEW token \in Token \union {NoToken},
           BeginEdit(a, id, ep, pin, token),
           req' \in Request \union {Nothing}, decided' \in Decision,
           basis' \in Key \union {Nothing}
    PROVE  CoreInv'
<1> DEFINE o    == [kind |-> "edit", id |-> id, was |-> mem[id], token |-> token]
           rows == [mem EXCEPT ![id].ep = ep, ![id].pin = pin]
<1>1. /\ TypeOK /\ IdInv
      /\ id \in DOMAIN mem /\ UNCHANGED minted /\ Enter(a, "save", o, rows)
      /\ minted \in 0..MaxHosts /\ MaxHosts \in Nat
  BY Actor, ConstantsAssumption DEF BeginEdit, TypeOK
<1>2. DOMAIN mem \subseteq Id /\ mem \in [DOMAIN mem -> Row]
  BY <1>1, MapsDef DEF TypeOK, Rows
<1>3. DOMAIN rows = DOMAIN mem /\ rows \in [DOMAIN mem -> Row]
  BY <1>1, <1>2 DEF Row
<1>4. rows \in Rows /\ o \in Op /\ "save" \in Critical
  BY <1>1, <1>2, <1>3, MapsDef DEF Rows, Op, Critical
<1>5. pc'[a] = "save" /\ op'[a] = o /\ mem' = rows
  BY <1>1 DEF Enter, Goto, TypeOK
<1>6. OpInv(a)'
  BY <1>1, <1>2, <1>3, <1>5 DEF OpInv
<1>7. minted' \in minted..MaxHosts /\ DOMAIN rows \subseteq 1..minted'
  BY <1>1, <1>3 DEF IdInv
<1> HIDE DEF o, rows
<1> QED
  BY <1>1, <1>3, <1>4, <1>6, <1>7, EnterInv

LEMMA SetHostEnabledInv ==
    ASSUME CoreInv, "settings" \in Actors, SetHostEnabled
    PROVE  CoreInv'
<1> DEFINE a == "settings"
<1>1. PICK id \in DOMAIN mem, on \in BOOLEAN :
         Enter(a, "save", [NoOp EXCEPT !.kind = "enable", !.id = id],
               [mem EXCEPT ![id].enabled = on])
  BY DEF SetHostEnabled
<1> DEFINE o    == [NoOp EXCEPT !.kind = "enable", !.id = id]
           rows == [mem EXCEPT ![id].enabled = on]
<1>2. /\ TypeOK /\ IdInv /\ pc[a] = "idle"
      /\ UNCHANGED <<minted, req, decided, basis>>
      /\ minted \in 0..MaxHosts /\ MaxHosts \in Nat
      /\ DOMAIN mem \subseteq Id /\ mem \in [DOMAIN mem -> Row]
  BY Actor, MapsDef, ConstantsAssumption DEF SetHostEnabled, TypeOK, Rows, pair
<1>3. DOMAIN rows = DOMAIN mem /\ rows \in [DOMAIN mem -> Row]
  BY <1>2 DEF Row
<1>4. rows \in Rows /\ o \in Op /\ "save" \in Critical
  BY <1>2, <1>3, MapsDef DEF Rows, Op, Critical, NoOp
<1>5. pc'[a] = "save" /\ op'[a] = o
  BY <1>1, <1>2 DEF Enter, Goto, TypeOK
<1>6. OpInv(a)'
  BY <1>5 DEF OpInv, NoOp
<1>7. minted' \in minted..MaxHosts /\ DOMAIN rows \subseteq 1..minted'
  BY <1>2, <1>3 DEF IdInv
<1>8. /\ req' \in Request \union {Nothing} /\ decided' \in Decision
      /\ basis' \in Key \union {Nothing}
  BY <1>2 DEF TypeOK
<1> HIDE DEF o, rows
<1> QED
  BY <1>1, <1>2, <1>3, <1>4, <1>6, <1>7, <1>8, EnterInv DEF o, rows

LEMMA RemoveHostInv ==
    ASSUME CoreInv, "settings" \in Actors, RemoveHost
    PROVE  CoreInv'
<1> DEFINE a == "settings"
<1>1. PICK id \in DOMAIN mem :
         Enter(a, "delete", [NoOp EXCEPT !.kind = "remove", !.id = id],
               Without(mem, id))
  BY DEF RemoveHost
<1> DEFINE o    == [NoOp EXCEPT !.kind = "remove", !.id = id]
           rows == Without(mem, id)
<1>2. /\ TypeOK /\ IdInv /\ RowsInv /\ pc[a] = "idle"
      /\ UNCHANGED <<minted, req, decided, basis>>
      /\ minted \in 0..MaxHosts /\ MaxHosts \in Nat
      /\ DOMAIN mem \subseteq Id /\ mem \in Rows
  BY Actor, ConstantsAssumption DEF RemoveHost, TypeOK, pair
<1>3. DOMAIN rows = DOMAIN mem \ {id} /\ rows \in Rows
  BY <1>2, WithoutRow
<1>4. o \in Op /\ "delete" \in Critical
  BY <1>2 DEF Op, Critical, NoOp
<1>5. /\ pc'[a] = "delete" /\ op'[a] = o /\ mem' = rows /\ file' = file
      /\ lock = Free
  BY <1>1, <1>2 DEF Enter, Goto, TypeOK, disk
<1>6. OpInv(a)'
  <2>1. id \in DOMAIN file
    BY <1>2, <1>5, NobodyInside DEF RowsInv
  <2> QED
    BY <1>3, <1>5, <2>1 DEF OpInv, NoOp
<1>7. minted' \in minted..MaxHosts /\ DOMAIN rows \subseteq 1..minted'
  BY <1>2, <1>3 DEF IdInv
<1>8. /\ req' \in Request \union {Nothing} /\ decided' \in Decision
      /\ basis' \in Key \union {Nothing}
  BY <1>2 DEF TypeOK
<1>9. o.id = id
  BY DEF NoOp
<1> HIDE DEF o, rows
<1> QED
  BY <1>1, <1>2, <1>3, <1>4, <1>6, <1>7, <1>8, <1>9, EnterInv DEF o, rows

\* Between requests only the hand-off's own place and request change.
LEMMA UnwrittenInv ==
    ASSUME CoreInv, "handoff" \in Actors, Unwritten,
           NEW l \in Pairing \union {"idle"},
           pc["handoff"] \in Pairing \union {"idle"}, Goto("handoff", l),
           req' \in Request \union {Nothing}, decided' \in Decision,
           basis' \in Key \union {Nothing}
    PROVE  CoreInv'
<1> DEFINE a == "handoff"
<1>1. /\ TypeOK /\ LockInv /\ IdInv /\ RowsInv /\ StaleInv
      /\ \A b \in Actors : OpInv(b)
      /\ pc'[a] = l /\ \A b \in Actors \ {a} : pc'[b] = pc[b]
      /\ pc' \in [Actors -> {"idle"} \union Critical \union Live \union Pairing]
      /\ UNCHANGED <<mem, file, keychain, undeleted, minted, lock, polled, op,
                     desired, faults>>
      /\ overtaken' \subseteq Actors
      /\ {pc[a], pc'[a]} \intersect (Critical \union Live) = {}
  BY DEF CoreInv, Unwritten, Goto, TypeOK, disk, Pairing, Critical, Live, lists
<1>2. TypeOK' /\ LockInv' /\ IdInv'
  BY <1>1 DEF TypeOK, LockInv, IdInv
<1>3. \A b \in Actors : OpInv(b)'
  BY <1>1 DEF OpInv, Critical, Live
<1>4. RowsInv'
  <2>1. \A b \in Actors : (pc'[b] = "save" <=> pc[b] = "save")
                       /\ (pc'[b] = "delete" <=> pc[b] = "delete")
    BY <1>1 DEF Critical
  <2>2. Unsaved' = Unsaved /\ Undone' = Undone
    BY <1>1, <2>1 DEF Unsaved, Undone
  <2> QED
    BY <1>1, <2>2 DEF RowsInv
<1>5. StaleInv'
  <2>1. \A b \in Actors, id \in Id : WillReplace(b, id) => WillReplace(b, id)'
    BY <1>1 DEF WillReplace, Critical, Live
  <2> QED
    BY <1>1, <2>1, MapsDef DEF StaleInv, TypeOK, Polls
<1> QED
  BY <1>2, <1>3, <1>4, <1>5 DEF CoreInv

\* A step of `a` outside the critical section that only moves its place.
LEMMA SkipUnknownInv ==
    ASSUME CoreInv, "settings" \in Actors, SkipUnknown
    PROVE  CoreInv'
<1> DEFINE a == "settings"
<1>1. /\ TypeOK /\ LockInv /\ IdInv /\ RowsInv /\ StaleInv
      /\ \A b \in Actors : OpInv(b)
      /\ pc[a] = "idle" /\ pc'[a] = "read"
      /\ \A b \in Actors \ {a} : pc'[b] = pc[b]
      /\ pc' \in [Actors -> {"idle"} \union Critical \union Live \union Pairing]
      /\ UNCHANGED <<mem, file, keychain, undeleted, minted, lock, polled, op,
                     desired, faults, req, decided, basis>>
      /\ overtaken' \subseteq Actors
  BY DEF CoreInv, SkipUnknown, Goto, TypeOK, disk, pair, Live, lists
<1>2. TypeOK' /\ LockInv' /\ IdInv'
  BY <1>1 DEF TypeOK, LockInv, IdInv, Critical
<1>3. \A b \in Actors : OpInv(b)'
  BY <1>1 DEF OpInv
<1>4. RowsInv'
  BY <1>1 DEF RowsInv, Unsaved, Undone
<1>5. StaleInv'
  <2>1. \A b \in Actors, id \in Id : WillReplace(b, id) => WillReplace(b, id)'
    BY <1>1 DEF WillReplace
  <2> QED
    BY <1>1, <2>1, MapsDef DEF StaleInv, TypeOK, Polls
<1> QED
  BY <1>2, <1>3, <1>4, <1>5 DEF CoreInv

LEMMA SaveOtherInv ==
    ASSUME CoreInv, SaveOther
    PROVE  CoreInv'
<1>1. /\ TypeOK /\ LockInv /\ IdInv /\ RowsInv /\ StaleInv
      /\ \A b \in Actors : OpInv(b) /\ pc[b] \notin Critical
      /\ Unsaved = {} /\ Undone = {} /\ file' = mem
      /\ UNCHANGED <<mem, keychain, undeleted, minted, lock, polled, pc, op,
                     desired, faults, req, decided, basis>>
      /\ overtaken' \subseteq Actors
  BY NobodyInside DEF CoreInv, SaveOther, pair, lists, TypeOK
<1>2. TypeOK' /\ LockInv' /\ IdInv'
  BY <1>1 DEF TypeOK, LockInv, IdInv
<1>3. \A b \in Actors : OpInv(b)'
  BY <1>1 DEF OpInv, Critical
<1>4. RowsInv'
  BY <1>1 DEF RowsInv, Unsaved, Undone
<1>5. StaleInv'
  BY <1>1 DEF StaleInv, WillReplace
<1> QED
  BY <1>2, <1>3, <1>4, <1>5 DEF CoreInv

----------------------------------------------------------------------------
\* Inside the critical section everybody else is outside.
LEMMA Inside ==
    ASSUME CoreInv, NEW a \in Actors, lock = a, pc[a] \in Critical
    PROVE  /\ Unsaved = IF pc[a] = "save" /\ op[a].kind = "add" THEN {op[a].id} ELSE {}
           /\ Undone = IF pc[a] = "delete" THEN {op[a].id} ELSE {}
           /\ \A b \in Actors \ {a} : pc[b] \notin Critical
<1>1. \A b \in Actors \ {a} : pc[b] \notin Critical
  BY OthersOutside
<1> QED
  BY <1>1 DEF Unsaved, Undone, Critical

LEMMA SaveWorksInv ==
    ASSUME CoreInv, NEW a \in Actors, SaveWorks(a)
    PROVE  CoreInv'
<1>1. /\ TypeOK /\ LockInv /\ IdInv /\ RowsInv /\ StaleInv /\ OpInv(a)
      /\ pc[a] = "save" /\ lock = a /\ a # Free
      /\ op[a] \in Op /\ "save" \in Critical
      /\ Undone = {} /\ \A b \in Actors \ {a} : pc[b] \notin Critical
  BY Actor, Inside DEF SaveWorks, Critical
<1> DEFINE l == IF op[a].token # NoToken THEN "secret" ELSE "read"
<1>2. /\ file' = mem /\ pc' = [pc EXCEPT ![a] = l] /\ pc'[a] = l
      /\ lock' = IF l = "secret" THEN a ELSE Free
      /\ op' = [op EXCEPT ![a] = IF l = "secret" THEN op[a] ELSE NoOp]
      /\ op'[a] = IF l = "secret" THEN op[a] ELSE NoOp
      /\ \A b \in Actors \ {a} : pc'[b] = pc[b] /\ op'[b] = op[b]
      /\ UNCHANGED <<mem, keychain, undeleted, minted, polled, desired, faults,
                     req, decided, basis>>
      /\ overtaken' \subseteq Actors
  BY <1>1 DEF SaveWorks, Goto, Leave, TypeOK, pair, lists
<1>3. NoOp \in Op
  BY DEF NoOp, Op
<1>4. TypeOK'
  <2>1. /\ pc' \in [Actors -> {"idle"} \union Critical \union Live \union Pairing]
        /\ op' \in [Actors -> Op] /\ lock' \in Actors \union {Free}
    BY <1>1, <1>2, <1>3 DEF TypeOK, Critical, Live
  <2> QED
    BY <1>1, <1>2, <2>1 DEF TypeOK
<1>5. LockInv'
  BY <1>1, <1>2, ConstantsAssumption DEF LockInv, Critical
<1>6. IdInv'
  BY <1>1, <1>2 DEF IdInv
<1>7. RowsInv'
  BY <1>1, <1>2 DEF RowsInv
<1>8. StaleInv'
  <2>1. \A b \in Actors, id \in Id : WillReplace(b, id) => WillReplace(b, id)'
    BY <1>1, <1>2 DEF WillReplace, OpInv
  <2> QED
    BY <1>1, <1>2, <2>1, MapsDef DEF StaleInv, TypeOK, Polls
<1>9. OpInv(a)'
  BY <1>1, <1>2 DEF OpInv, Op
<1>10. \A b \in Actors : OpInv(b)'
  BY <1>1, <1>2, <1>9, OthersOp
<1> QED
  BY <1>4, <1>5, <1>6, <1>7, <1>8, <1>10 DEF CoreInv

\* Releasing the lock with the keychain and the file as they are.
LEMMA SetSecretFailsInv ==
    ASSUME CoreInv, NEW a \in Actors, SetSecretFails(a)
    PROVE  CoreInv'
<1>1. /\ TypeOK /\ LockInv /\ IdInv /\ RowsInv /\ StaleInv /\ OpInv(a)
      /\ pc[a] = "secret" /\ lock = a /\ a # Free
      /\ Unsaved = {} /\ Undone = {} /\ \A b \in Actors \ {a} : pc[b] \notin Critical
  BY Actor, Inside DEF SetSecretFails, Critical
<1>2. /\ pc' = [pc EXCEPT ![a] = "read"] /\ pc'[a] = "read"
      /\ lock' = Free /\ op' = [op EXCEPT ![a] = NoOp]
      /\ \A b \in Actors \ {a} : pc'[b] = pc[b] /\ op'[b] = op[b]
      /\ faults' \in 0..MaxFaults
      /\ UNCHANGED <<mem, file, keychain, undeleted, minted, polled, desired,
                     req, decided, basis>>
      /\ overtaken' \subseteq Actors
  BY <1>1, ConstantsAssumption
     DEF SetSecretFails, Goto, Leave, TypeOK, pair, disk, Fault, lists
<1>3. NoOp \in Op
  BY DEF NoOp, Op
<1>4. TypeOK'
  BY <1>1, <1>2, <1>3 DEF TypeOK, Critical, Live
<1>5. LockInv' /\ IdInv'
  BY <1>1, <1>2, ConstantsAssumption DEF LockInv, Critical, IdInv
<1>6. RowsInv'
  BY <1>1, <1>2 DEF RowsInv
<1>7. StaleInv'
  <2>1. \A b \in Actors, id \in Id : WillReplace(b, id) => WillReplace(b, id)'
    BY <1>1, <1>2 DEF WillReplace
  <2> QED
    BY <1>1, <1>2, <2>1, MapsDef DEF StaleInv, TypeOK, Polls
<1>8. \A b \in Actors : OpInv(b)'
  BY <1>1, <1>2, OthersOp DEF OpInv
<1> QED
  BY <1>4, <1>5, <1>6, <1>7, <1>8 DEF CoreInv

LEMMA SetSecretInv ==
    ASSUME CoreInv, NEW a \in Actors, SetSecret(a)
    PROVE  CoreInv'
<1>1. /\ TypeOK /\ LockInv /\ IdInv /\ RowsInv /\ StaleInv /\ OpInv(a)
      /\ pc[a] = "secret" /\ lock = a /\ a # Free /\ op[a] \in Op
      /\ Unsaved = {} /\ Undone = {} /\ \A b \in Actors \ {a} : pc[b] \notin Critical
  BY Actor, Inside DEF SetSecret, Critical
<1> DEFINE id == op[a].id
           l  == IF op[a].kind = "edit" THEN "restart" ELSE "read"
<1>2. /\ id \in DOMAIN mem \intersect DOMAIN file /\ id \in Id
      /\ op[a].kind \in {"add", "edit"} /\ op[a].token \in Token \union {NoToken}
      /\ op[a].kind = "add" => id \notin DOMAIN polled
  BY <1>1, Actor DEF OpInv, Op
<1>3. /\ pc' = [pc EXCEPT ![a] = l] /\ pc'[a] = l /\ lock' = Free
      /\ op' \in [Actors -> Op] /\ op'[a].id = IF l = "restart" THEN id ELSE 0
      /\ \A b \in Actors \ {a} : pc'[b] = pc[b] /\ op'[b] = op[b]
      /\ keychain' = [keychain EXCEPT ![id] = op[a].token]
      /\ UNCHANGED <<mem, file, undeleted, minted, polled, desired, faults,
                     req, decided, basis>>
      /\ overtaken' \subseteq Actors
  BY <1>1, <1>2 DEF SetSecret, Goto, Leave, TypeOK, pair, NoOp, Op, lists
<1>4. /\ keychain' \in [Id -> Token \union {NoToken}]
      /\ \A i \in Id \ {id} : keychain'[i] = keychain[i]
  BY <1>1, <1>2, <1>3 DEF TypeOK
<1>5. TypeOK'
  BY <1>1, <1>3, <1>4 DEF TypeOK, Critical, Live
<1>6. LockInv' /\ IdInv'
  BY <1>1, <1>3, ConstantsAssumption DEF LockInv, Critical, IdInv
<1>7. RowsInv'
  BY <1>1, <1>2, <1>3, <1>4 DEF RowsInv
<1>8. StaleInv'
  <2> SUFFICES ASSUME NEW i \in DOMAIN polled
               PROVE  \/ polled[i].token \in {keychain'[i], Unread}
                      \/ \E b \in Actors : WillReplace(b, i)'
    BY <1>3 DEF StaleInv
  <2>1. \A b \in Actors : WillReplace(b, i) => WillReplace(b, i)'
    BY <1>1, <1>3 DEF WillReplace
  <2>2. i = id => WillReplace(a, i)'
    BY <1>2, <1>3 DEF WillReplace
  <2>3. i \in Id
    BY Actor
  <2> QED
    BY <1>1, <1>4, <2>1, <2>2, <2>3 DEF StaleInv
<1>9. OpInv(a)'
  BY <1>2, <1>3 DEF OpInv
<1>10. \A b \in Actors : OpInv(b)'
  BY <1>1, <1>3, <1>9, OthersOp
<1> QED
  BY <1>5, <1>6, <1>7, <1>8, <1>10 DEF CoreInv

LEMMA SaveFailsInv ==
    ASSUME CoreInv, NEW a \in Actors, SaveFails(a)
    PROVE  CoreInv'
<1>1. /\ TypeOK /\ LockInv /\ IdInv /\ RowsInv /\ StaleInv /\ OpInv(a)
      /\ pc[a] = "save" /\ lock = a /\ a # Free /\ op[a] \in Op
      /\ Unsaved = IF op[a].kind = "add" THEN {op[a].id} ELSE {}
      /\ Undone = {} /\ \A b \in Actors \ {a} : pc[b] \notin Critical
      /\ mem \in Rows /\ op[a].kind # "none"
  BY Actor, Inside DEF SaveFails, Critical, TypeOK, OpInv
<1>2. /\ pc' = [pc EXCEPT ![a] = "read"] /\ pc'[a] = "read"
      /\ lock' = Free /\ op' = [op EXCEPT ![a] = NoOp]
      /\ \A b \in Actors \ {a} : pc'[b] = pc[b] /\ op'[b] = op[b]
      /\ faults' \in 0..MaxFaults /\ mem' = RolledBack(op[a])
      /\ UNCHANGED <<file, keychain, undeleted, minted, polled, desired,
                     req, decided, basis>>
      /\ overtaken' \subseteq Actors
  BY <1>1, ConstantsAssumption
     DEF SaveFails, Goto, Leave, TypeOK, pair, disk, Fault, Overtake
<1>3. /\ mem' \in Rows /\ DOMAIN mem' \subseteq DOMAIN mem
      /\ DOMAIN mem \ DOMAIN mem' = Unsaved /\ Unsaved \subseteq DOMAIN mem
  <2>1. CASE op[a].kind = "add"
    <3>1. mem' = Without(mem, op[a].id) /\ op[a].id \in DOMAIN mem
      BY <1>1, <1>2, <2>1 DEF RolledBack, OpInv
    <3>2. /\ Without(mem, op[a].id) \in Rows
          /\ DOMAIN Without(mem, op[a].id) = DOMAIN mem \ {op[a].id}
      BY <1>1, WithoutRow
    <3>3. mem' \in Rows /\ DOMAIN mem' = DOMAIN mem \ {op[a].id}
      BY <3>1, <3>2
    <3>4. Unsaved = {op[a].id}
      BY <1>1, <2>1
    <3> QED
      BY <3>1, <3>3, <3>4
  <2>2. CASE op[a].kind = "edit"
    <3>1. /\ mem' = With(mem, op[a].id, op[a].was) /\ op[a].id \in DOMAIN mem
          /\ op[a].was \in Row /\ op[a].id \in Id
      BY <1>1, <1>2, <2>2, Actor DEF RolledBack, OpInv
    <3>2. \A id \in Id, v \in Row : /\ With(mem, id, v) \in Rows
                                   /\ DOMAIN With(mem, id, v) = DOMAIN mem \union {id}
      BY <1>1, WithRow
    <3>3. mem' \in Rows /\ DOMAIN mem' = DOMAIN mem \union {op[a].id}
      BY <3>1, <3>2
    <3> QED
      BY <1>1, <2>2, <3>1, <3>3
  <2>3. CASE op[a].kind \notin {"add", "edit"}
    BY <1>1, <1>2, <2>3 DEF RolledBack
  <2> QED
    BY <2>1, <2>2, <2>3
<1>4. NoOp \in Op
  BY DEF NoOp, Op
<1>5. TypeOK'
  BY <1>1, <1>2, <1>3, <1>4 DEF TypeOK, Critical, Live
<1>6. LockInv' /\ IdInv'
  BY <1>1, <1>2, <1>3, ConstantsAssumption DEF LockInv, Critical, IdInv
<1>7. RowsInv'
  <2>1. \A id \in Unsaved : keychain[id] = NoToken
    BY <1>1 DEF OpInv
  <2> QED
    BY <1>1, <1>2, <1>3, <2>1 DEF RowsInv
<1>8. StaleInv'
  <2>1. \A b \in Actors, id \in Id : WillReplace(b, id) => WillReplace(b, id)'
    BY <1>1, <1>2, <1>3 DEF WillReplace, OpInv
  <2> QED
    BY <1>1, <1>2, <2>1, MapsDef DEF StaleInv, TypeOK, Polls
<1>9. \A b \in Actors : OpInv(b)'
  BY <1>1, <1>2, OthersOp DEF OpInv
<1> QED
  BY <1>5, <1>6, <1>7, <1>8, <1>9 DEF CoreInv

----------------------------------------------------------------------------
LEMMA RestartTaskInv ==
    ASSUME CoreInv, NEW a \in Actors, RestartTask(a)
    PROVE  CoreInv'
<1>1. /\ TypeOK /\ LockInv /\ IdInv /\ RowsInv /\ StaleInv
      /\ \A b \in Actors : OpInv(b)
      /\ pc[a] = "restart" /\ polled \in Polls
  BY DEF CoreInv, RestartTask, TypeOK
<1>2. /\ pc' = [pc EXCEPT ![a] = "read"] /\ pc'[a] = "read"
      /\ op' = [op EXCEPT ![a] = NoOp]
      /\ \A b \in Actors \ {a} : pc'[b] = pc[b] /\ op'[b] = op[b]
      /\ polled' = Without(polled, op[a].id)
      /\ UNCHANGED <<mem, file, keychain, undeleted, minted, lock, desired, faults,
                     req, decided, basis>>
      /\ overtaken' \subseteq Actors
  BY <1>1 DEF RestartTask, Goto, TypeOK, pair, disk, lists
<1>3. /\ polled' \in Polls /\ DOMAIN polled' = DOMAIN polled \ {op[a].id}
      /\ \A id \in DOMAIN polled' : polled'[id] = polled[id]
  BY <1>1, <1>2, WithoutTask
<1>4. NoOp \in Op
  BY DEF NoOp, Op
<1>5. TypeOK'
  BY <1>1, <1>2, <1>3, <1>4 DEF TypeOK, Live
<1>6. LockInv' /\ IdInv'
  BY <1>1, <1>2, <1>3 DEF LockInv, Critical, IdInv
<1>7. \A b \in Actors : (pc'[b] = "save" <=> pc[b] = "save" /\ b # a)
                     /\ (pc'[b] = "delete" <=> pc[b] = "delete" /\ b # a)
  BY <1>1, <1>2
<1>8. RowsInv'
  <2>1. Unsaved' = Unsaved /\ Undone' = Undone
    BY <1>1, <1>2, <1>7 DEF Unsaved, Undone
  <2> QED
    BY <1>1, <1>2, <2>1 DEF RowsInv
<1>9. StaleInv'
  <2>1. \A b \in Actors, id \in Id \ {op[a].id} : WillReplace(b, id) => WillReplace(b, id)'
    BY <1>1, <1>2 DEF WillReplace
  <2>2. DOMAIN polled \subseteq Id
    BY Actor
  <2> QED
    BY <1>1, <1>2, <1>3, <2>1, <2>2 DEF StaleInv
<1>10. \A b \in Actors : OpInv(b)'
  BY <1>1, <1>2, <1>3 DEF OpInv
<1> QED
  BY <1>5, <1>6, <1>8, <1>9, <1>10 DEF CoreInv

LEMMA ReadDesiredInv ==
    ASSUME CoreInv, NEW a \in Actors, ReadDesired(a)
    PROVE  CoreInv'
<1>1. /\ TypeOK /\ LockInv /\ IdInv /\ RowsInv /\ StaleInv
      /\ \A b \in Actors : OpInv(b) /\ pc[b] \notin Critical
      /\ Unsaved = {} /\ Undone = {} /\ mem \in Rows
      /\ pc[a] = "read" /\ lock = Free
  BY NobodyInside DEF CoreInv, ReadDesired, TypeOK
<1>2. /\ pc' = [pc EXCEPT ![a] = "apply"] /\ pc'[a] = "apply"
      /\ desired' = [desired EXCEPT ![a] = Wanted(mem)] /\ desired'[a] = Wanted(mem)
      /\ \A b \in Actors \ {a} : pc'[b] = pc[b] /\ desired'[b] = desired[b]
      /\ UNCHANGED <<mem, file, keychain, undeleted, minted, lock, polled, op,
                     faults, req, decided, basis>>
      /\ overtaken' \subseteq Actors
  BY <1>1 DEF ReadDesired, Goto, TypeOK, pair, disk
<1>3. Wanted(mem) \in Keys /\ DOMAIN Wanted(mem) \subseteq DOMAIN mem
  BY <1>1, WantedKeys
<1>4. TypeOK'
  BY <1>1, <1>2, <1>3 DEF TypeOK, Live
<1>5. \A b \in Actors : pc'[b] \notin Critical
  BY <1>1, <1>2 DEF Critical
<1>6. LockInv' /\ IdInv'
  BY <1>1, <1>2, <1>3, <1>5, ConstantsAssumption DEF LockInv, IdInv
<1>7. RowsInv'
  BY <1>1, <1>2 DEF RowsInv
<1>8. StaleInv'
  <2>1. \A b \in Actors, id \in Id : WillReplace(b, id) => WillReplace(b, id)'
    BY <1>1, <1>2, <1>3 DEF WillReplace
  <2> QED
    BY <1>1, <1>2, <2>1, MapsDef DEF StaleInv, TypeOK, Polls
<1>9. \A b \in Actors : OpInv(b)'
  BY <1>1, <1>2, <1>5 DEF OpInv, Critical
<1> QED
  BY <1>4, <1>6, <1>7, <1>8, <1>9 DEF CoreInv

LEMMA ApplyInv ==
    ASSUME CoreInv, NEW a \in Actors, Apply(a)
    PROVE  CoreInv'
<1>1. /\ TypeOK /\ LockInv /\ IdInv /\ RowsInv /\ StaleInv
      /\ \A b \in Actors : OpInv(b)
      /\ pc[a] = "apply" /\ desired[a] \in Keys
  BY DEF CoreInv, Apply, TypeOK
<1>2. PICK unread \in SUBSET DOMAIN desired[a] :
          Unreadable(unread) /\ polled' = Reconciled(desired[a], unread)
  BY DEF Apply
<1>3. Empty \in Keys /\ DOMAIN Empty = {}
  BY MapsDef DEF Empty, Keys
<1>4. /\ pc' = [pc EXCEPT ![a] = "idle"] /\ pc'[a] = "idle"
      /\ desired' = [desired EXCEPT ![a] = Empty] /\ desired'[a] = Empty
      /\ \A b \in Actors \ {a} : pc'[b] = pc[b] /\ desired'[b] = desired[b]
      /\ faults' \in 0..MaxFaults
      /\ UNCHANGED <<mem, file, keychain, undeleted, minted, lock, op,
                     req, decided, basis>>
      /\ overtaken' \subseteq Actors
  BY <1>1, <1>2, ConstantsAssumption
     DEF Apply, Goto, TypeOK, pair, disk, Unreadable, Fault
<1>5. /\ polled' \in Polls /\ DOMAIN polled' = DOMAIN desired[a]
      /\ \A id \in DOMAIN polled' :
            \/ id \in DOMAIN polled /\ polled'[id] = polled[id]
            \/ polled'[id].token \in {keychain[id], Unread}
  BY <1>1, <1>2, ReconciledTasks
<1>6. TypeOK'
  BY <1>1, <1>3, <1>4, <1>5 DEF TypeOK
<1>7. LockInv' /\ IdInv'
  BY <1>1, <1>3, <1>4, <1>5 DEF LockInv, Critical, IdInv
<1>8. RowsInv'
  <2>1. \A b \in Actors : (pc'[b] = "save" <=> pc[b] = "save")
                       /\ (pc'[b] = "delete" <=> pc[b] = "delete")
    BY <1>1, <1>4
  <2>2. Unsaved' = Unsaved /\ Undone' = Undone
    BY <1>4, <2>1 DEF Unsaved, Undone
  <2> QED
    BY <1>1, <1>4, <2>2 DEF RowsInv
<1>9. StaleInv'
  <2>1. \A b \in Actors, id \in DOMAIN desired[a] :
           WillReplace(b, id) => WillReplace(b, id)'
    BY <1>1, <1>4 DEF WillReplace
  <2> QED
    BY <1>1, <1>4, <1>5, <2>1 DEF StaleInv
<1>10. \A b \in Actors : OpInv(b)'
  <2>1. OpInv(a)'
    BY <1>4 DEF OpInv
  <2>2. ASSUME NEW b \in Actors \ {a} PROVE OpInv(b)'
    BY <1>1, <1>3, <1>4, <1>5, <2>2 DEF OpInv
  <2> QED
    BY <2>1, <2>2
<1> QED
  BY <1>6, <1>7, <1>8, <1>9, <1>10 DEF CoreInv

LEMMA RelaunchInv ==
    ASSUME CoreInv, Relaunch
    PROVE  CoreInv'
<1>1. /\ TypeOK /\ IdInv /\ RowsInv /\ file \in Rows
      /\ keychain \in [Id -> Token \union {NoToken}]
      /\ \A b \in Actors : OpInv(b)
  BY DEF CoreInv, TypeOK
<1>2. PICK unread \in SUBSET DOMAIN Wanted(file) :
          /\ Unreadable(unread)
          /\ polled' = [id \in DOMAIN Wanted(file) |->
                           Spawned(id, Wanted(file)[id], unread)]
  BY DEF Relaunch
<1>3. /\ Empty \in Keys /\ DOMAIN Empty = {} /\ NoOp \in Op
      /\ NoDecision \in Decision
  BY MapsDef DEF Empty, Keys, NoOp, Op, NoDecision, Decision
<1>4. /\ mem' = file /\ lock' = Free
      /\ pc' = [b \in Actors |-> "idle"] /\ op' = [b \in Actors |-> NoOp]
      /\ desired' = [b \in Actors |-> Empty]
      /\ req' = Nothing /\ decided' = NoDecision /\ basis' = Nothing
      /\ faults' \in 0..MaxFaults
      /\ UNCHANGED <<file, keychain, undeleted, minted>>
      /\ overtaken' \subseteq Actors
  BY <1>1, <1>2, ConstantsAssumption
     DEF Relaunch, TypeOK, disk, Unreadable, Fault, Forget
<1>5. Wanted(file) \in Keys /\ DOMAIN Wanted(file) \subseteq DOMAIN file
  BY <1>1, WantedKeys
<1>6. /\ polled' \in Polls /\ DOMAIN polled' = DOMAIN Wanted(file)
      /\ \A id \in DOMAIN polled' : polled'[id].token \in {keychain[id], Unread}
  BY <1>1, <1>2, <1>5, StartedTasks
<1>7. TypeOK'
  BY <1>1, <1>3, <1>4, <1>6 DEF TypeOK
<1>8. LockInv' /\ \A b \in Actors : OpInv(b)'
  BY <1>4, ConstantsAssumption DEF LockInv, Critical, OpInv
<1>9. IdInv'
  BY <1>1, <1>3, <1>4, <1>5, <1>6 DEF IdInv
<1>10. RowsInv'
  <2>1. \A id \in Unsaved : keychain[id] = NoToken
    BY <1>1 DEF Unsaved, OpInv
  <2>2. Undone \subseteq DOMAIN file
    BY <1>1 DEF Undone, OpInv
  <2> QED
    BY <1>1, <1>4, <2>1, <2>2 DEF RowsInv
<1>11. StaleInv'
  BY <1>4, <1>6 DEF StaleInv
<1> QED
  BY <1>7, <1>8, <1>9, <1>10, <1>11 DEF CoreInv

----------------------------------------------------------------------------
\* Settings and the hand-off.
LEMMA AddHostInv ==
    ASSUME CoreInv, "settings" \in Actors, AddHost
    PROVE  CoreInv'
<1>1. PICK ep \in Endpoint, p \in Pin \union {NoPin}, t \in Token \union {NoToken} :
          BeginAdd("settings", [ep |-> ep, pin |-> p, enabled |-> TRUE], t)
  BY DEF AddHost
<1>2. [ep |-> ep, pin |-> p, enabled |-> TRUE] \in Row
  BY DEF Row
<1>3. /\ pc["settings"] = "idle" /\ req' \in Request \union {Nothing}
      /\ decided' \in Decision /\ basis' \in Key \union {Nothing}
  BY DEF AddHost, pair, CoreInv, TypeOK
<1> QED
  BY <1>1, <1>2, <1>3, BeginAddInv

LEMMA SaveHostInv ==
    ASSUME CoreInv, "settings" \in Actors, SaveHost
    PROVE  CoreInv'
<1>1. PICK id \in DOMAIN mem, ep \in Endpoint, t \in Token \union {NoToken} :
        \E p \in Pin \union {mem[id].pin} : BeginEdit("settings", id, ep, p, t)
  BY DEF SaveHost
<1>2. PICK p \in Pin \union {mem[id].pin} : BeginEdit("settings", id, ep, p, t)
  BY <1>1
<1>3. p \in Pin \union {NoPin}
  <2>1. mem \in [DOMAIN mem -> Row]
    BY MapsDef DEF CoreInv, TypeOK, Rows
  <2> QED
    BY <2>1 DEF Row
<1>4. /\ pc["settings"] = "idle" /\ req' \in Request \union {Nothing}
      /\ decided' \in Decision /\ basis' \in Key \union {Nothing}
  BY DEF SaveHost, pair, CoreInv, TypeOK
<1> QED
  BY <1>2, <1>3, <1>4, BeginEditInv

LEMMA CommitInv ==
    ASSUME CoreInv, "handoff" \in Actors, Commit, req # Nothing
    PROVE  CoreInv'
<1>1. /\ pc["handoff"] = "commit" /\ req \in Request /\ decided \in Decision
      /\ req' \in Request \union {Nothing} /\ decided' \in Decision
      /\ basis' \in Key \union {Nothing}
  <2>1. pc["handoff"] = "commit" /\ Forget
    BY DEF Commit, Pair, Refuse
  <2>2. req \in Request /\ decided \in Decision
    BY DEF CoreInv, TypeOK
  <2>3. NoDecision \in Decision
    BY DEF NoDecision, Decision
  <2> QED
    BY <2>1, <2>2, <2>3 DEF Forget
<1>2. CASE Decide(mem, req) # decided
  <2>1. Refuse /\ Unwritten
    BY <1>2 DEF Commit
  <2>2. Goto("handoff", "idle")
    BY <2>1 DEF Refuse
  <2> QED
    BY <1>1, <2>1, <2>2, UnwrittenInv DEF Pairing
<1>3. CASE /\ decided.kind = "Add"
           /\ BeginAdd("handoff", [ep |-> req.ep, pin |-> req.pin,
                                   enabled |-> TRUE], req.token)
  <2>1. /\ [ep |-> req.ep, pin |-> req.pin, enabled |-> TRUE] \in Row
        /\ req.token \in Token \union {NoToken}
    BY <1>1 DEF Request, Row
  <2> QED
    BY <1>1, <1>3, <2>1, BeginAddInv
<1>4. CASE BeginEdit("handoff", decided.id, req.ep, req.pin, req.token)
  <2>1. /\ req.ep \in Endpoint /\ req.pin \in Pin \union {NoPin}
        /\ req.token \in Token \union {NoToken}
    BY <1>1 DEF Request
  <2> QED
    BY <1>1, <1>4, <2>1, BeginEditInv
<1> QED
  BY <1>2, <1>3, <1>4 DEF Commit

LEMMA HandoffInv ==
    ASSUME CoreInv, PairInv, Handoff
    PROVE  CoreInv'
<1>1. /\ "handoff" \in Actors /\ TypeOK /\ NoDecision \in Decision
      /\ pc["handoff"] \in Pairing => req \in Request
  BY DEF Handoff, CoreInv, PairInv, TypeOK, NoDecision, Decision
<1>2. CASE PairRequest
  <2>1. PICK r \in Request :
          LET d == Decide(mem, r)
          IN  /\ d.kind # "Refused"
              /\ req' = r /\ decided' = d
              /\ basis' = IF d.id = 0 THEN Nothing ELSE KeyOf(mem[d.id])
    BY <1>2 DEF PairRequest
  <2>2. mem \in Rows /\ mem \in [DOMAIN mem -> Row]
    BY <1>1, MapsDef DEF TypeOK, Rows
  <2>3. decided' \in Decision /\ (decided'.id # 0 => decided'.id \in DOMAIN mem)
    BY <2>1, <2>2, DecideIs DEF Decision
  <2>4. basis' \in Key \union {Nothing}
    BY <2>1, <2>2, <2>3 DEF KeyOf, Key, Row
  <2>5. pc["handoff"] = "idle" /\ Goto("handoff", "health") /\ Unwritten
    BY <1>2 DEF PairRequest, Pair
  <2> QED
    BY <1>1, <2>1, <2>3, <2>4, <2>5, UnwrittenInv DEF Pairing
<1>3. CASE HealthPasses
  <2>1. UNCHANGED pair /\ Unwritten /\ pc["handoff"] = "health"
    BY <1>3 DEF HealthPasses, Pair
  <2>2. PICK l \in {"commit", "answer"} : Goto("handoff", l)
    BY <1>3 DEF HealthPasses
  <2> QED
    BY <1>1, <2>1, <2>2, UnwrittenInv DEF Pairing, pair, TypeOK
<1>4. CASE HealthFails \/ AnswerUnchanged \/ AnswerRemoved
  <2>1. /\ Goto("handoff", "idle") /\ Forget /\ Unwritten
        /\ pc["handoff"] \in {"health", "answer"}
    BY <1>4 DEF HealthFails, AnswerUnchanged, AnswerRemoved, Refuse, Pair
  <2> QED
    BY <1>1, <2>1, UnwrittenInv DEF Pairing, Forget
<1>5. CASE Commit
  <2>1. req # Nothing
    BY <1>1, <1>5 DEF PairInv, Commit, Pair, Pairing
  <2> QED
    BY <1>1, <1>5, <2>1, CommitInv
<1> QED
  BY <1>2, <1>3, <1>4, <1>5 DEF Handoff

\* Everybody but the hand-off stays out of its places and leaves its request.
LEMMA StepPairInv ==
    ASSUME TypeOK, PairInv, Next
    PROVE  PairInv'
<1>0. Nothing \notin Request
  BY ConstantsAssumption DEF Request
<1>1. CASE Settings
  <2>1. "settings" \in Actors /\ UNCHANGED req
    BY <1>1 DEF Settings, AddHost, SaveHost, SetHostEnabled, RemoveHost,
                SaveOther, SkipUnknown, pair
  <2>2. \A b \in Actors \ {"settings"} : pc'[b] = pc[b]
    BY <1>1 DEF Settings, AddHost, SaveHost, SetHostEnabled, RemoveHost, SaveOther,
                SkipUnknown, BeginAdd, BeginEdit, Enter, Goto, TypeOK
  <2>3. pc'["settings"] \in {"idle", "save", "delete", "read"}
    BY <1>1, <2>1 DEF Settings, AddHost, SaveHost, SetHostEnabled, RemoveHost, SaveOther,
                SkipUnknown, BeginAdd, BeginEdit, Enter, Goto, TypeOK
  <2> QED
    BY <2>1, <2>2, <2>3 DEF PairInv, Pairing
<1>2. CASE Handoff
  <2>1. \A b \in Actors \ {"handoff"} : pc'[b] = pc[b]
    BY <1>2 DEF Handoff, PairRequest, HealthPasses, HealthFails, AnswerUnchanged,
                AnswerRemoved, Commit, Refuse, BeginAdd, BeginEdit, Enter, Goto, TypeOK
  <2>2. pc'["handoff"] \in Pairing => req' # Nothing
    <3>1. CASE PairRequest
      BY <1>0, <3>1 DEF PairRequest
    <3>2. CASE HealthPasses
      BY <1>2, <3>2 DEF HealthPasses, Pair, pair, PairInv, Pairing, Handoff
    <3>3. CASE HealthFails \/ AnswerUnchanged \/ AnswerRemoved \/ Commit
      BY <1>2, <3>3 DEF Handoff, HealthFails, AnswerUnchanged, AnswerRemoved, Commit,
                  Refuse, BeginAdd, BeginEdit, Enter, Goto, TypeOK, Pairing
    <3> QED
      BY <1>2, <3>1, <3>2, <3>3 DEF Handoff
  <2> QED
    BY <2>1, <2>2 DEF PairInv, Pairing
<1>3. CASE \E a \in Actors : Write(a) \/ GoLive(a)
  <2>1. PICK a \in Actors : Write(a) \/ GoLive(a)
    BY <1>3
  <2>2. UNCHANGED req
    BY <2>1 DEF Write, GoLive, DeleteToken, SaveWorks, SaveFails, SetSecret,
                SetSecretFails, RestartTask, ReadDesired, Apply, pair
  <2>3. \A b \in Actors \ {a} : pc'[b] = pc[b]
    BY <2>1 DEF Write, GoLive, DeleteToken, SaveWorks, SaveFails, SetSecret,
                SetSecretFails, RestartTask, ReadDesired, Apply, Leave, Goto, TypeOK
  <2>4. pc'[a] \notin Pairing
    BY <2>1 DEF Write, GoLive, DeleteToken, SaveWorks, SaveFails, SetSecret,
                SetSecretFails, RestartTask, ReadDesired, Apply, Leave, Goto, TypeOK, Pairing
  <2> QED
    BY <2>2, <2>3, <2>4 DEF PairInv
<1>4. CASE Relaunch
  BY <1>4 DEF Relaunch, PairInv, Pairing
<1> QED
  BY <1>1, <1>2, <1>3, <1>4 DEF Next

LEMMA StepInv ==
    ASSUME RosterInv, [Next]_vars
    PROVE  RosterInv'
<1>1. CoreInv /\ PairInv /\ TypeOK
  BY DEF RosterInv, CoreInv
<1>2. CASE Next
  <2>1. PairInv'
    BY <1>1, <1>2, StepPairInv
  <2>2. ASSUME Settings PROVE CoreInv'
    BY <1>1, <2>2, AddHostInv, SaveHostInv, SetHostEnabledInv, RemoveHostInv,
       SaveOtherInv, SkipUnknownInv DEF Settings
  <2>3. ASSUME Handoff PROVE CoreInv'
    BY <1>1, <2>3, HandoffInv
  <2>4. ASSUME \E a \in Actors : Write(a) \/ GoLive(a) PROVE CoreInv'
    BY <1>1, <2>4, DeleteTokenInv, SaveWorksInv, SaveFailsInv, SetSecretInv,
       SetSecretFailsInv, RestartTaskInv, ReadDesiredInv, ApplyInv DEF Write, GoLive
  <2>5. ASSUME Relaunch PROVE CoreInv'
    BY <1>1, <2>5, RelaunchInv
  <2>6. CoreInv'
    BY <1>2, <2>2, <2>3, <2>4, <2>5 DEF Next
  <2> QED
    BY <2>1, <2>6 DEF RosterInv
<1>3. CASE UNCHANGED vars
  <2>1. UNCHANGED <<mem, file, keychain, minted, lock, polled, pc, op, desired,
                    overtaken, req, decided, basis, faults, undeleted>>
    BY <1>3 DEF vars
  <2>2. TypeOK' /\ LockInv' /\ IdInv' /\ PairInv'
    BY <1>1, <2>1 DEF CoreInv, TypeOK, LockInv, IdInv, PairInv
  <2>3. RowsInv' /\ StaleInv'
    BY <1>1, <2>1 DEF CoreInv, RowsInv, Unsaved, Undone, StaleInv, WillReplace
  <2>4. \A a \in Actors : OpInv(a)'
    BY <1>1, <2>1 DEF CoreInv, OpInv
  <2> QED
    BY <2>2, <2>3, <2>4 DEF RosterInv, CoreInv
<1> QED
  BY <1>2, <1>3

\* The invariant that everything below rests on holds in every reachable state.
THEOREM RosterInvariant == Spec => []RosterInv
<1>1. Init => RosterInv
  BY InitInv DEF RosterInv, PairInv, Init, Pairing
<1>2. RosterInv /\ [Next]_vars => RosterInv'
  BY StepInv
<1> QED
  BY <1>1, <1>2, PTL DEF Spec

----------------------------------------------------------------------------
\* Every variable keeps to its type.
THEOREM TypeCorrect == Spec => []TypeOK
<1>1. RosterInv => TypeOK
  BY DEF RosterInv, CoreInv
<1> QED
  BY <1>1, RosterInvariant, PTL

\* Whatever failed, with the lock free every host in memory is in the file.
THEOREM NothingUnsaved == Spec => []MemoryWithinFile
<1>1. RosterInv => MemoryWithinFile
  BY NobodyInside DEF RosterInv, CoreInv, RowsInv, MemoryWithinFile
<1> QED
  BY <1>1, RosterInvariant, PTL

\* A stored token belongs to a host in the file, or could not be deleted.
THEOREM TokensHaveHosts == Spec => []NoOrphanToken
<1>1. RosterInv => NoOrphanToken
  <2> SUFFICES ASSUME RosterInv, NEW id \in Id, keychain[id] # NoToken
               PROVE  id \in DOMAIN file \union undeleted
    BY DEF NoOrphanToken
  <2>1. RowsInv /\ \A a \in Actors : OpInv(a)
    BY DEF RosterInv, CoreInv
  <2>2. Undone \subseteq DOMAIN file
    BY <2>1 DEF Undone, OpInv
  <2>3. id \notin Unsaved
    BY <2>1 DEF Unsaved, OpInv
  <2> QED
    BY <2>1, <2>2, <2>3 DEF RowsInv
<1> QED
  BY <1>1, RosterInvariant, PTL

\* Once both actors are done, every task sends the token that is stored.
THEOREM TasksSendStoredToken == Spec => []TokenCurrent
<1>1. RosterInv => TokenCurrent
  BY DEF RosterInv, CoreInv, StaleInv, WillReplace, TokenCurrent, Settled, Critical, Live
<1> QED
  BY <1>1, RosterInvariant, PTL

\* A hand-off never makes one machine two cards.
THEOREM OneCardPerMachine == Spec => NoSecondCard
<1> DEFINE A == \A id \in DOMAIN mem' \ DOMAIN mem :
                   lock' = "handoff" =>
                       /\ At(mem, mem'[id].ep) = {}
                       /\ Holding(mem, mem'[id].pin) = {}
<1>1. RosterInv /\ [Next]_vars => [A]_vars
  <2> SUFFICES ASSUME RosterInv, Next, NEW id \in DOMAIN mem' \ DOMAIN mem,
                      lock' = "handoff"
               PROVE  /\ At(mem, mem'[id].ep) = {}
                      /\ Holding(mem, mem'[id].pin) = {}
    BY DEF vars
  <2>1. CoreInv /\ TypeOK /\ PairInv /\ mem \in Rows
    BY DEF RosterInv, CoreInv, TypeOK
  <2>2. CASE Settings
    <3>1. lock' = "settings" \/ UNCHANGED mem
      BY <2>2 DEF Settings, AddHost, SaveHost, SetHostEnabled, RemoveHost,
                  SaveOther, SkipUnknown, BeginAdd, BeginEdit, Enter
    <3> QED
      BY <3>1
  <2>3. CASE Handoff
    <3>1. Commit
      BY <2>3 DEF Handoff, PairRequest, HealthPasses, HealthFails, AnswerUnchanged,
                  AnswerRemoved, Unwritten
    <3>2. Decide(mem, req) = decided
      BY <3>1 DEF Commit, Unwritten
    <3>3. req \in Request
      BY <2>1, <2>3, <3>1 DEF TypeOK, PairInv, Handoff, Commit, Pair, Pairing
    <3>4. CASE decided.kind = "Add"
      <4>1. mem' = With(mem, minted + 1, [ep |-> req.ep, pin |-> req.pin, enabled |-> TRUE])
        BY <3>1, <3>2, <3>4 DEF Commit, BeginAdd, Enter
      <4>2. mem'[id].ep = req.ep /\ mem'[id].pin = req.pin
        BY <4>1 DEF With
      <4> QED
        BY <2>1, <3>2, <3>3, <3>4, <4>2, DecideIs
    <3>5. CASE decided.kind # "Add"
      <4>1. DOMAIN mem' = DOMAIN mem
        BY <3>1, <3>2, <3>5 DEF Commit, BeginEdit, Enter
      <4> QED
        BY <4>1
    <3> QED
      BY <3>4, <3>5
  <2>4. CASE \E a \in Actors : Write(a) \/ GoLive(a)
    <3>1. lock' = Free \/ UNCHANGED mem
      BY <2>4 DEF Write, GoLive, DeleteToken, SaveWorks, SaveFails, SetSecret,
                  SetSecretFails, RestartTask, ReadDesired, Apply, Leave
    <3> QED
      BY <3>1, <2>4, ConstantsAssumption
  <2>5. CASE Relaunch
    BY <2>5, ConstantsAssumption DEF Relaunch
  <2> QED
    BY <2>2, <2>3, <2>4, <2>5 DEF Next
<1> QED
  BY <1>1, RosterInvariant, PTL DEF Spec, NoSecondCard

\* Whatever step of a change failed, memory, file and keychain agree on which
\* hosts there are.
THEOREM NoHalfIsLeft == Spec => []NothingHalfStored
  BY NothingUnsaved, TokensHaveHosts, PTL DEF NothingHalfStored

----------------------------------------------------------------------------
(* The poll set and the list.                                              *)

\* What the tasks are keyed by.
PolledKeys == [id \in DOMAIN polled |-> TaskKey(polled[id])]

\* A list that was read and not overtaken is still the one to apply, and one
\* that was applied so is what is polled.
FollowInv ==
    /\ \A a \in Actors : pc[a] = "apply" /\ a \notin overtaken => desired[a] = Wanted(mem)
    /\ Settled /\ overtaken = {} => PolledKeys = Wanted(mem)

\* A task is keyed by what it was started with.
LEMMA SpawnedKey ==
    ASSUME NEW rows, NEW id \in DOMAIN Wanted(rows), NEW unread
    PROVE  TaskKey(Spawned(id, Wanted(rows)[id], unread)) = Wanted(rows)[id]
<1>1. Wanted(rows)[id] = [ep |-> rows[id].ep, pin |-> rows[id].pin]
  BY DEF Wanted, KeyOf
<1>2. /\ Spawned(id, Wanted(rows)[id], unread).ep = rows[id].ep
      /\ Spawned(id, Wanted(rows)[id], unread).pin = rows[id].pin
  BY <1>1 DEF Spawned
<1> QED
  BY <1>1, <1>2 DEF TaskKey

\* A reload of a list, and a start on it, make its keys the poll set's.
LEMMA ReloadedKeys ==
    ASSUME NEW rows, NEW unread,
           \/ polled' = Reconciled(Wanted(rows), unread)
           \/ polled' = [id \in DOMAIN Wanted(rows) |-> Spawned(id, Wanted(rows)[id], unread)]
    PROVE  PolledKeys' = Wanted(rows)
<1> DEFINE want == Wanted(rows)
<1>1. \A id \in DOMAIN want : TaskKey(Spawned(id, want[id], unread)) = want[id]
  BY SpawnedKey
<1>2. want = [id \in DOMAIN want |-> want[id]]
  BY DEF Wanted
<1> HIDE DEF want
<1>3. DOMAIN polled' = DOMAIN want
  BY DEF Reconciled, want
<1>4. \A id \in DOMAIN want : TaskKey(polled'[id]) = want[id]
  BY <1>1 DEF Reconciled, want
<1>5. PolledKeys' = [id \in DOMAIN polled' |-> TaskKey(polled'[id])]
  BY DEF PolledKeys, TaskKey
<1> QED
  BY <1>2, <1>3, <1>4, <1>5 DEF want

\* A change of the rows, and a step inside an operation: the one who takes it
\* has a reload to come, and those whose list it passed are overtaken.
LEMMA BusyFollows ==
    ASSUME FollowInv, NEW a \in Actors, NEW l \in Critical \union {"restart", "read"},
           pc \in [Actors -> {"idle"} \union Critical \union Live \union Pairing],
           pc' = [pc EXCEPT ![a] = l], desired' = desired,
           \/ Overtake(a)
           \/ UNCHANGED <<mem, overtaken>>
    PROVE  FollowInv'
<1>1. pc'[a] = l /\ l # "apply" /\ l \in Critical \union Live
  BY DEF Critical, Live
<1>2. ~Settled'
  BY <1>1 DEF Settled
<1>3. ASSUME NEW b \in Actors, pc'[b] = "apply", b \notin overtaken'
      PROVE  desired'[b] = Wanted(mem')
  <2>1. b # a /\ pc[b] = "apply"
    BY <1>1, <1>3
  <2>2. UNCHANGED <<mem, overtaken>>
    BY <1>3, <2>1 DEF Overtake
  <2>3. desired[b] = Wanted(mem) /\ Wanted(mem') = Wanted(mem)
    BY <1>3, <2>1, <2>2 DEF FollowInv
  <2> QED
    BY <2>3
<1> QED
  BY <1>2, <1>3 DEF FollowInv

\* What changes neither the rows nor the poll set, and moves nobody into or
\* out of an operation.
LEMMA QuietFollows ==
    ASSUME FollowInv, UNCHANGED <<mem, polled, desired, overtaken>>,
           \A b \in Actors : \/ pc'[b] = pc[b]
                             \/ pc[b] \notin Critical \union Live /\ pc'[b] # "apply"
    PROVE  FollowInv'
<1>1. Settled' => Settled
  BY DEF Settled
<1>2. PolledKeys' = PolledKeys /\ Wanted(mem') = Wanted(mem)
  BY DEF PolledKeys, Wanted
<1>3. \A b \in Actors : pc'[b] = "apply" => pc[b] = "apply"
  OBVIOUS
<1> QED
  BY <1>1, <1>2, <1>3 DEF FollowInv

LEMMA SettingsFollows ==
    ASSUME TypeOK, FollowInv, Settings
    PROVE  FollowInv'
<1>1. /\ "settings" \in Actors
      /\ pc \in [Actors -> {"idle"} \union Critical \union Live \union Pairing]
  BY DEF Settings, TypeOK
<1>2. ASSUME NEW l \in {"save", "delete"}, \E o, rows : Enter("settings", l, o, rows)
      PROVE  FollowInv'
  <2>1. pc' = [pc EXCEPT !["settings"] = l] /\ Overtake("settings") /\ desired' = desired
    BY <1>2 DEF Enter, Goto
  <2> QED
    BY <1>1, <2>1, BusyFollows DEF Critical
<1>3. CASE AddHost \/ SaveHost \/ SetHostEnabled
  <2>1. \E o, rows : Enter("settings", "save", o, rows)
    BY <1>3, Zenon DEF AddHost, SaveHost, SetHostEnabled, BeginAdd, BeginEdit
  <2> QED
    BY <1>2, <2>1
<1>4. CASE RemoveHost
  <2>1. \E o, rows : Enter("settings", "delete", o, rows)
    BY <1>4, Zenon DEF RemoveHost
  <2> QED
    BY <1>2, <2>1
<1>5. CASE SkipUnknown
  <2>1. pc' = [pc EXCEPT !["settings"] = "read"] /\ UNCHANGED <<mem, desired, overtaken>>
    BY <1>5 DEF SkipUnknown, Goto, lists
  <2> QED
    BY <1>1, <2>1, BusyFollows
<1>6. CASE SaveOther
  BY <1>6, QuietFollows DEF SaveOther, lists
<1> QED
  BY <1>3, <1>4, <1>5, <1>6 DEF Settings

LEMMA HandoffFollows ==
    ASSUME TypeOK, FollowInv, Handoff
    PROVE  FollowInv'
<1>1. /\ "handoff" \in Actors
      /\ pc \in [Actors -> {"idle"} \union Critical \union Live \union Pairing]
  BY DEF Handoff, TypeOK
<1>2. ASSUME NEW l \in {"idle", "health", "answer", "commit"}, Goto("handoff", l), Unwritten,
             pc["handoff"] \in {"idle", "health", "answer", "commit"}
      PROVE  FollowInv'
  <2>1. UNCHANGED <<mem, polled, desired, overtaken>>
    BY <1>2 DEF Unwritten, lists
  <2>2. \A b \in Actors : \/ pc'[b] = pc[b]
                          \/ pc[b] \notin Critical \union Live /\ pc'[b] # "apply"
    BY <1>1, <1>2 DEF Goto, Critical, Live
  <2> QED
    BY <2>1, <2>2, QuietFollows
<1>3. CASE PairRequest \/ HealthPasses \/ HealthFails \/ AnswerUnchanged \/ AnswerRemoved
  BY <1>2, <1>3 DEF PairRequest, HealthPasses, HealthFails, AnswerUnchanged,
                    AnswerRemoved, Refuse, Pair
<1>4. CASE Commit
  <2>1. CASE Refuse /\ Unwritten
    BY <1>2, <1>4, <2>1 DEF Refuse, Commit, Pair
  <2>2. CASE \E o, rows : Enter("handoff", "save", o, rows)
    <3>1. pc' = [pc EXCEPT !["handoff"] = "save"] /\ Overtake("handoff") /\ desired' = desired
      BY <2>2 DEF Enter, Goto
    <3> QED
      BY <1>1, <3>1, BusyFollows DEF Critical
  <2>3. (Refuse /\ Unwritten) \/ \E o, rows : Enter("handoff", "save", o, rows)
    BY <1>4, Zenon DEF Commit, BeginAdd, BeginEdit
  <2> QED
    BY <2>1, <2>2, <2>3
<1> QED
  BY <1>3, <1>4 DEF Handoff

LEMMA WriteFollows ==
    ASSUME TypeOK, FollowInv, NEW a \in Actors, Write(a) \/ RestartTask(a)
    PROVE  FollowInv'
<1>1. pc \in [Actors -> {"idle"} \union Critical \union Live \union Pairing]
  BY DEF TypeOK
<1>2. /\ \E l \in Critical \union {"restart", "read"} : pc' = [pc EXCEPT ![a] = l]
      /\ desired' = desired
  BY DEF Write, DeleteToken, SaveWorks, SaveFails, SetSecret, SetSecretFails,
         RestartTask, Leave, Goto, Critical, lists
<1>3. Overtake(a) \/ UNCHANGED <<mem, overtaken>>
  BY DEF Write, DeleteToken, SaveWorks, SaveFails, SetSecret, SetSecretFails,
         RestartTask, lists
<1> QED
  BY <1>1, <1>2, <1>3, BusyFollows

LEMMA ReloadFollows ==
    ASSUME TypeOK, FollowInv, NEW a \in Actors, ReadDesired(a) \/ Apply(a)
    PROVE  FollowInv'
<1>1. /\ pc \in [Actors -> {"idle"} \union Critical \union Live \union Pairing]
      /\ desired \in [Actors -> Keys]
  BY DEF TypeOK
<1>2. CASE ReadDesired(a)
  <2>1. /\ pc'[a] = "apply" /\ desired'[a] = Wanted(mem) /\ mem' = mem
        /\ overtaken' = overtaken \ {a}
        /\ \A b \in Actors \ {a} : pc'[b] = pc[b] /\ desired'[b] = desired[b]
    BY <1>1, <1>2 DEF ReadDesired, Goto
  <2>2. ~Settled' /\ Wanted(mem') = Wanted(mem)
    BY <2>1 DEF Settled, Live
  <2> QED
    BY <2>1, <2>2 DEF FollowInv
<1>3. CASE Apply(a)
  <2>1. /\ pc[a] = "apply" /\ pc'[a] = "idle" /\ mem' = mem
        /\ \A b \in Actors \ {a} : pc'[b] = pc[b] /\ desired'[b] = desired[b]
        /\ overtaken' = overtaken \intersect ({a} \union {b \in Actors : pc[b] = "apply"})
    BY <1>1, <1>3 DEF Apply, Goto
  <2>2. PICK unread : polled' = Reconciled(desired[a], unread)
    BY <1>3 DEF Apply
  <2>3. ASSUME NEW b \in Actors, pc'[b] = "apply", b \notin overtaken'
        PROVE  desired'[b] = Wanted(mem')
    <3>1. b # a /\ pc[b] = "apply" /\ b \notin overtaken
      BY <2>1, <2>3
    <3> QED
      BY <2>1, <3>1 DEF FollowInv
  <2>4. ASSUME overtaken' = {}
        PROVE  PolledKeys' = Wanted(mem')
    <3>1. desired[a] = Wanted(mem)
      BY <2>1, <2>4 DEF FollowInv
    <3> QED
      BY <2>1, <2>2, <3>1, ReloadedKeys
  <2> QED
    BY <2>3, <2>4 DEF FollowInv
<1> QED
  BY <1>2, <1>3

LEMMA RelaunchFollows ==
    ASSUME Relaunch
    PROVE  FollowInv'
<1>1. PICK unread : polled' = [id \in DOMAIN Wanted(file) |->
                                 Spawned(id, Wanted(file)[id], unread)]
  BY DEF Relaunch
<1>2. PolledKeys' = Wanted(file)
  BY <1>1, ReloadedKeys
<1>3. mem' = file /\ \A a \in Actors : pc'[a] = "idle"
  BY DEF Relaunch
<1> QED
  BY <1>2, <1>3 DEF FollowInv

LEMMA FollowStep ==
    ASSUME RosterInv, FollowInv, [Next]_vars
    PROVE  FollowInv'
<1>1. TypeOK
  BY DEF RosterInv, CoreInv
<1>2. CASE Next
  BY <1>1, <1>2, SettingsFollows, HandoffFollows, WriteFollows, ReloadFollows,
     RelaunchFollows DEF Next, GoLive
<1>3. CASE UNCHANGED vars
  BY <1>3, QuietFollows DEF vars
<1> QED
  BY <1>2, <1>3

LEMMA InitFollows == Init => FollowInv
<1> SUFFICES ASSUME Init
             PROVE  PolledKeys = Wanted(mem) /\ \A a \in Actors : pc[a] # "apply"
  BY DEF FollowInv
<1>1. \A id \in DOMAIN Wanted(mem) :
        TaskKey(Spawned(id, Wanted(mem)[id], {})) = Wanted(mem)[id]
  BY SpawnedKey
<1>2. polled = [id \in DOMAIN Wanted(mem) |-> Spawned(id, Wanted(mem)[id], {})]
  BY DEF Init
<1>3. Wanted(mem) = [id \in DOMAIN Wanted(mem) |-> Wanted(mem)[id]]
  BY DEF Wanted
<1>4. PolledKeys = Wanted(mem)
  BY <1>1, <1>2, <1>3 DEF PolledKeys
<1> QED
  BY <1>4 DEF Init

\* Two reloads that cross are the only way the poll set falls behind the list:
\* with both actors, any number of failures and of launches.
THEOREM OnlyCrossingReloadsFallBehind == Spec => []FollowsUnlessOvertaken
<1>1. RosterInv /\ FollowInv /\ [Next]_vars => FollowInv'
  BY FollowStep
<1>2. FollowInv => FollowsUnlessOvertaken
  BY DEF FollowInv, FollowsUnlessOvertaken, PollSetFollowsStore, PolledKeys
<1> QED
  BY <1>1, <1>2, InitFollows, RosterInvariant, PTL DEF Spec

\* Every task is one of the list's and sends the stored token, once both actors
\* are done, unless a reload was overtaken.
THEOREM TasksStayRight == Spec => []TasksAreRight
  BY TasksSendStoredToken, OnlyCrossingReloadsFallBehind, PTL DEF TasksAreRight

\* No list that was read has been passed by a change.
Unpassed == overtaken = {}

\* One actor alone is never overtaken, so the poll set is the list of hosts
\* whenever no change is being made or made live, whatever failed before.
THEOREM AloneThePollSetFollows ==
    ASSUME NEW alone, Actors \subseteq {alone}
    PROVE  Spec => []PollSetFollowsStore
<1>1. Init => Unpassed
  BY DEF Init, Unpassed
<1>2. RosterInv /\ Unpassed /\ [Next]_vars => Unpassed'
  <2> SUFFICES ASSUME RosterInv, overtaken = {}, [Next]_vars
               PROVE  overtaken' = {}
    BY DEF Unpassed
  <2>1. ASSUME NEW a \in Actors, Overtake(a) PROVE overtaken' = {}
    BY <2>1 DEF Overtake
  <2>2. CASE Settings
    BY <2>1, <2>2 DEF Settings, AddHost, SaveHost, SetHostEnabled, RemoveHost,
                      SaveOther, SkipUnknown, BeginAdd, BeginEdit, Enter, lists
  <2>3. CASE Handoff
    BY <2>1, <2>3 DEF Handoff, PairRequest, HealthPasses, HealthFails, AnswerUnchanged,
                      AnswerRemoved, Commit, BeginAdd, BeginEdit, Enter, Unwritten, lists
  <2>4. CASE \E a \in Actors : Write(a) \/ GoLive(a)
    BY <2>1, <2>4 DEF Write, GoLive, DeleteToken, SaveWorks, SaveFails, SetSecret,
                      SetSecretFails, RestartTask, ReadDesired, Apply, lists
  <2>5. CASE Relaunch
    BY <2>5 DEF Relaunch
  <2>6. CASE UNCHANGED vars
    BY <2>6 DEF vars
  <2> QED
    BY <2>2, <2>3, <2>4, <2>5, <2>6 DEF Next
<1>3. Unpassed /\ FollowsUnlessOvertaken => PollSetFollowsStore
  BY DEF FollowsUnlessOvertaken, Unpassed
<1> QED
  BY <1>1, <1>2, <1>3, RosterInvariant, OnlyCrossingReloadsFallBehind, PTL DEF Spec
=============================================================================
