---------------------------- MODULE AgentInstall ----------------------------
(***************************************************************************)
(* agent/deploy/install.sh on a Linux host, and the agent it installs:     *)
(* installs, re-runs, pins and uninstalls one after the other, each killed *)
(* anywhere or failing at any step, with the service starting, dying and   *)
(* the host rebooting meanwhile.  The updater does not run here (it is     *)
(* AgentUpdate); what an install decides before it changes anything is one *)
(* step, for a kill in it leaves nothing.                                  *)
(***************************************************************************)
EXTENDS Naturals, FiniteSets, Sequences

CONSTANTS
    Release,    \* published versions, numbers
    TlsSince,   \* the first that can serve HTTPS
    MaxMint,    \* bound: tokens and key pairs ever made
    MaxScripts, \* bound: scripts ever run
    Absent,     \* no such file, no such thing
    Partial     \* a file whose copy was cut short

\* An env file: its token, the bind, whether the installer chose it, and TLS.
EnvFile == [token : Nat, bind : {"address", "tailnet", "wildcard"},
            auto : BOOLEAN, tls : BOOLEAN]

ASSUME InstallAssumption ==
    /\ Release \subseteq Nat \ {0} /\ TlsSince \in Nat /\ MaxMint \in Nat /\ MaxScripts \in Nat
    /\ Absent \notin Nat /\ Partial \notin Nat /\ Absent # Partial
    /\ Absent \notin EnvFile

VARIABLES
    files,      \* what is on disk, by FileName
    service,    \* [Unit -> [enabled, active]]: what the user manager holds
    serving,    \* the process that listens, or Absent
    minted,     \* how many tokens and key pairs were made
    scripts,    \* how many scripts were run
    step,       \* of the script that runs, or "idle"
    plan,       \* what the install decided, or the uninstall's --purge
    doubt,      \* the uninstall's PURGE, UNINSTALL_FAILED and MANAGER_* flags
    result,     \* of the last script
    asked,      \* history: the last bind named by an operator, not purged
    paired,     \* history: the token and certificate first served
    good, tried \* history: last release verified; those put over another since

diskFiles == <<files, minted>>
installVars == <<diskFiles, service, serving, scripts, step, plan, doubt, result,
                 asked, paired, good, tried>>

Unit == {"agent", "devcanopy"}

\* In the order an uninstall removes them; the last four only with --purge.
Removed == <<"unit", "devcanopyUnit", "live", "prev", "new">>
Purged  == <<"env", "devcanopyEnv", "key", "cert">>
RemovalOrder(purge) == IF purge THEN Removed \o Purged ELSE Removed
FileName == {(Removed \o Purged)[i] : i \in 1..9}

UnitFile(u) == IF u = "agent" THEN "unit" ELSE "devcanopyUnit"

Exists(f) == files[f] # Absent
Put(f, content) == files' = [files EXCEPT ![f] = content]

Capable(release) == release >= TlsSince

NoDoubt == [purge |-> FALSE, failed |-> FALSE, unconfirmed |-> FALSE]
NoPairing == [token |-> Absent, cert |-> Absent]

\* A fresh host, one that runs the agent of before the rename, and one that
\* an earlier install was verified on.
Fresh == [f \in FileName |-> Absent]

BeforeRename(bind) ==
    [Fresh EXCEPT !["devcanopyUnit"] = "devcanopy",
                  !["devcanopyEnv"] = [token |-> 0, bind |-> bind]]

Installed(release, own) ==
    [Fresh EXCEPT !["unit"] = "agent", !["live"] = release,
        !["env"] = [token |-> 1, bind |-> IF own THEN "wildcard" ELSE "tailnet",
                    auto |-> own, tls |-> own],
        !["key"] = IF own THEN 2 ELSE Absent, !["cert"] = IF own THEN 2 ELSE Absent]

Runs(u) == service = [v \in Unit |-> [enabled |-> v = u, active |-> v = u]]

InstallInit ==
    /\ \/ files = Fresh /\ Runs("nothing") /\ asked = "none" /\ good = Absent
       \/ \E bind \in {"none", "tailnet", "wildcard"} :
            /\ files = BeforeRename(bind) /\ Runs("devcanopy")
            /\ asked = bind /\ good = Absent
       \/ \E release \in Release, own \in BOOLEAN :
            /\ own => Capable(release)
            /\ files = Installed(release, own) /\ Runs("agent")
            /\ asked = "none" /\ good = release
    /\ paired = [token |-> IF Exists("env") THEN 1 ELSE Absent, cert |-> files["cert"]]
    /\ minted = IF Exists("env") THEN 2 ELSE 0
    /\ serving = Absent /\ scripts = 0 /\ step = "idle" /\ plan = Absent
    /\ doubt = NoDoubt /\ result = "none" /\ tried = {}

----------------------------------------------------------------------------
(* What an install decides, from the host and from what the operator says. *)

\* SOLADOR_AGENT_BIND, SOLADOR_AGENT_TLS, --enable-tls, whether the release is
\* pinned, which one it is, and whether a tailnet address is found.
Request == [bind : {"none", "address", "wildcard"}, tls : {"unset", "0", "1"},
            enable : BOOLEAN, pin : BOOLEAN, release : Release, detected : BOOLEAN]

FirstOf(a, b) == IF a # "none" THEN a ELSE b

\* What the agent of before the rename was told.
LegacyBind == IF Exists("devcanopyEnv") THEN files["devcanopyEnv"].bind ELSE "none"

KeptBindAnyhow == IF Exists("env") THEN files["env"].bind ELSE LegacyBind

\* A bind the installer chose itself is set aside and resolved again.
KeptBind ==
    IF Exists("env")
    THEN IF files["env"].auto THEN "none" ELSE files["env"].bind
    ELSE LegacyBind

Bind(r) == FirstOf(r.bind, FirstOf(KeptBind, IF r.detected THEN "tailnet" ELSE "none"))

FreshInstall == ~Exists("env") /\ ~Exists("devcanopyEnv")

KeptTls == Exists("env") /\ files["env"].tls

TlsValue(r) ==
    \/ r.tls = "1"
    \/ r.tls = "unset" /\ FreshInstall /\ Capable(r.release)
    \/ r.tls = "unset" /\ ~FreshInstall /\ (r.enable \/ KeptTls)

\* Every refusal of before the first change.
Accepted(r) ==
    /\ r.tls = "unset" /\ ~FreshInstall /\ (r.enable \/ KeptTls) => Capable(r.release)
    /\ Bind(r) = "none" => TlsValue(r) /\ Capable(r.release)
    /\ ~r.pin /\ Exists("live") => files["live"] <= r.release

Decided(r) ==
    [bin |-> r.release, bind |-> FirstOf(Bind(r), "wildcard"), auto |-> Bind(r) = "none",
     tls |-> TlsValue(r), named |-> r.bind]

\* One script at a time, and none while another runs.
NextScript == step = "idle" /\ scripts < MaxScripts /\ scripts' = scripts + 1

Install(r) ==
    /\ NextScript /\ Accepted(r)
    /\ plan' = Decided(r) /\ step' = "handover" /\ result' = "none"
    /\ UNCHANGED <<diskFiles, service, serving, doubt, asked, paired, good, tried>>

----------------------------------------------------------------------------
(* The install's steps.                                                    *)

GoOn(from, to) == step = from /\ step' = to /\ UNCHANGED <<scripts, doubt, result>>

Halted(u) == serving' = IF serving # Absent /\ serving.unit = u THEN Absent ELSE serving

\* The agent of before the rename is stopped and disabled, if that works.
Handover ==
    /\ GoOn("handover", "env")
    /\ \/ /\ Exists("devcanopyUnit")
          /\ \E e, a \in BOOLEAN :
               /\ service' = [service EXCEPT !["devcanopy"] =
                     [enabled |-> @.enabled /\ e, active |-> @.active /\ a]]
               /\ IF a THEN UNCHANGED serving ELSE Halted("devcanopy")
       \/ ~Exists("devcanopyUnit") /\ UNCHANGED <<service, serving>>
    /\ UNCHANGED <<diskFiles, plan, asked, paired, good, tried>>

OwnTokenOnly == IF Exists("env") THEN files["env"].token ELSE minted + 1

\* The token: the env file's, the older agent's, or a new one.
KeptToken ==
    IF Exists("env") THEN files["env"].token
    ELSE IF Exists("devcanopyEnv") THEN files["devcanopyEnv"].token ELSE minted + 1

\* A temporary file renamed over the env file: it is the old one or the new.
WriteEnv ==
    /\ GoOn("env", "preserve")
    /\ KeptToken <= MaxMint
    /\ Put("env", [token |-> KeptToken, bind |-> plan.bind, auto |-> plan.auto,
                   tls |-> plan.tls])
    /\ minted' = IF KeptToken > minted THEN KeptToken ELSE minted
    /\ asked' = FirstOf(plan.named, asked)
    /\ UNCHANGED <<service, serving, plan, paired, good, tried>>

NeverTheSame == FALSE

\* `.prev` is left alone when the installed bytes are already these.
SameBytes == files["live"] = plan.bin

Preserve ==
    /\ GoOn("preserve", IF Exists("live") /\ ~SameBytes THEN "preserving" ELSE "stage")
    /\ IF Exists("live") /\ ~SameBytes
       THEN Put("prev", Partial) /\ tried' = tried \union {plan.bin}
       ELSE UNCHANGED <<files, tried>>
    /\ UNCHANGED <<minted, service, serving, plan, asked, paired, good>>

Preserved ==
    /\ GoOn("preserving", "stage") /\ Put("prev", files["live"])
    /\ UNCHANGED <<minted, service, serving, plan, asked, paired, good, tried>>

StageNew ==
    /\ GoOn("stage", "staging") /\ Put("new", Partial)
    /\ UNCHANGED <<minted, service, serving, plan, asked, paired, good, tried>>

StagedNew ==
    /\ GoOn("staging", "swap") /\ Put("new", plan.bin)
    /\ UNCHANGED <<minted, service, serving, plan, asked, paired, good, tried>>

SwapIn ==
    /\ GoOn("swap", "unit")
    /\ files' = [files EXCEPT !["live"] = files["new"], !["new"] = Absent]
    /\ UNCHANGED <<minted, service, serving, plan, asked, paired, good, tried>>

PutUnit ==
    /\ GoOn("unit", "restart") /\ Put("unit", "agent")
    /\ UNCHANGED <<minted, service, serving, plan, asked, paired, good, tried>>

RestartAgent ==
    /\ GoOn("restart", "verify")
    /\ service' = [service EXCEPT !["agent"] = [enabled |-> TRUE, active |-> TRUE]]
    /\ Halted("agent")
    /\ UNCHANGED <<diskFiles, plan, asked, paired, good, tried>>

\* `verify_health`: what answers at the env file's bind, under its token and
\* over its scheme, reports the version that was installed.
Answers(env, release) ==
    /\ serving # Absent
    /\ serving.bin = release /\ serving.token = env.token
    /\ serving.bind = env.bind /\ (serving.cert # Absent) = env.tls

InstallDone ==
    /\ step = "verify" /\ Answers(files["env"], plan.bin)
    /\ step' = "idle" /\ plan' = Absent /\ result' = "installed"
    /\ good' = plan.bin /\ tried' = {}
    /\ UNCHANGED <<scripts, diskFiles, service, serving, doubt, asked, paired>>

\* A step fails (`set -e`), the health check gives up, or a kill.
GivesUp ==
    /\ step # "idle"
    /\ step' = "idle" /\ plan' = Absent /\ result' = "stopped"
    /\ doubt' = NoDoubt
    /\ UNCHANGED <<scripts, diskFiles, service, serving, asked, paired, good, tried>>

----------------------------------------------------------------------------
(* Uninstall: the units are stopped and disabled, then each file goes.     *)

Uninstall(purge) ==
    /\ NextScript
    /\ plan' = RemovalOrder(purge) /\ step' = "stopAgent" /\ result' = "none"
    /\ doubt' = [doubt EXCEPT !.purge = purge]
    /\ good' = Absent /\ tried' = {}
    /\ UNCHANGED <<diskFiles, service, serving, asked, paired>>

HasToStopByFile(u, heard) == Exists(UnitFile(u))

\* Without its file a unit is asked about, and the manager may not answer.
HasToStop(u, heard) == Exists(UnitFile(u)) \/ (heard /\ service[u].active)

StopAndDisable(u, from, to) ==
    /\ step = from /\ step' = to
    /\ \E heard, stops, disables \in BOOLEAN :
         LET stopped  == HasToStop(u, heard) /\ stops
             disabled == Exists(UnitFile(u)) /\ disables
         IN /\ service' = [service EXCEPT ![u] = [enabled |-> @.enabled /\ ~disabled,
                                                  active |-> @.active /\ ~stopped]]
            /\ IF stopped THEN Halted(u) ELSE UNCHANGED serving
            /\ doubt' = [doubt EXCEPT !.unconfirmed =
                   \/ @
                   \/ (HasToStop(u, heard) /\ ~stops)
                   \/ (Exists(UnitFile(u)) /\ ~disables)
                   \/ ~(Exists(UnitFile(u)) \/ heard)]
    /\ UNCHANGED <<scripts, diskFiles, plan, result, asked, paired, good, tried>>

StopAgent  == StopAndDisable("agent", "stopAgent", "stopLegacy")
StopLegacy == StopAndDisable("devcanopy", "stopLegacy", "remove")

RemoveFileQuietly ==
    /\ step = "remove" /\ plan # <<>>
    /\ plan' = Tail(plan)
    /\ (Put(Head(plan), Absent) \/ UNCHANGED files)
    /\ UNCHANGED <<scripts, minted, service, serving, step, doubt, result, asked, paired, good, tried>>

\* One file: it is gone, or the failure is told and the next one is tried.
RemoveFile ==
    /\ step = "remove" /\ plan # <<>>
    /\ plan' = Tail(plan)
    /\ \/ Put(Head(plan), Absent) /\ UNCHANGED doubt
       \/ /\ Exists(Head(plan)) /\ doubt' = [doubt EXCEPT !.failed = TRUE]
          /\ UNCHANGED files
    /\ paired' = IF \E i \in 1..4 : Purged[i] = Head(plan) THEN NoPairing ELSE paired
    /\ asked' = IF files'["env"] # Absent THEN asked ELSE LegacyBind'
    /\ UNCHANGED <<scripts, minted, service, serving, step, result, good, tried>>

UninstallEnds ==
    /\ step = "remove" /\ plan = <<>>
    /\ step' = "idle" /\ plan' = Absent
    /\ result' = IF doubt.failed THEN "unfinished"
                 ELSE IF doubt.unconfirmed THEN "unconfirmed"
                 ELSE IF doubt.purge THEN "purged" ELSE "uninstalled"
    /\ doubt' = NoDoubt
    /\ UNCHANGED <<scripts, diskFiles, service, serving, asked, paired, good, tried>>

----------------------------------------------------------------------------
(* The agent.                                                              *)

ServesTls == files["env"].tls /\ Capable(files["live"])

\* It starts again for ever while its unit is active; the port is one.
Startable ==
    /\ service["agent"].active /\ serving = Absent
    /\ files["live"] \in Release /\ Exists("env")

Serves(cert) ==
    /\ serving' = [unit |-> "agent", bin |-> files["live"], token |-> files["env"].token,
                   bind |-> files["env"].bind, cert |-> cert, asked |-> asked]
    /\ paired' = [token |-> files["env"].token,
                  cert |-> IF cert = Absent THEN paired.cert ELSE cert]

\* `load_or_generate`: both files, and the certificate is the one of before.
HasPair == Exists("key") /\ Exists("cert")
MayGenerateMissing == ~HasPair

MayGenerate == ~Exists("key") /\ ~Exists("cert")

AgentStarts ==
    /\ Startable
    /\ IF ServesTls THEN HasPair /\ Serves(files["cert"]) ELSE Serves(Absent)
    /\ UNCHANGED <<scripts, diskFiles, service, step, plan, doubt, result, asked, good, tried>>

\* Neither file: a pair is made, and the key is renamed into place first.  A
\* process that dies between leaves the key alone.
Generate ==
    /\ Startable /\ ServesTls /\ MayGenerate
    /\ minted < MaxMint /\ minted' = minted + 1
    /\ \/ /\ files' = [files EXCEPT !["key"] = minted + 1, !["cert"] = minted + 1]
          /\ Serves(minted + 1)
       \/ Put("key", minted + 1) /\ UNCHANGED <<serving, paired>>
    /\ UNCHANGED <<scripts, service, step, plan, doubt, result, asked, good, tried>>

LegacyStarts ==
    /\ service["devcanopy"].active /\ serving = Absent /\ Exists("devcanopyEnv")
    /\ serving' = [unit |-> "devcanopy", bin |-> Absent, cert |-> Absent,
                   token |-> files["devcanopyEnv"].token,
                   bind |-> FirstOf(files["devcanopyEnv"].bind, "tailnet"), asked |-> asked]
    /\ paired' = [paired EXCEPT !.token = files["devcanopyEnv"].token]
    /\ UNCHANGED <<scripts, diskFiles, service, step, plan, doubt, result, asked, good, tried>>

AgentDies ==
    /\ serving # Absent /\ serving' = Absent
    /\ UNCHANGED <<scripts, diskFiles, service, step, plan, doubt, result, asked, paired, good, tried>>

\* A reboot stops the script too, and starts the units that are enabled.
Reboot ==
    /\ serving' = Absent
    /\ service' = [u \in Unit |->
           [service[u] EXCEPT !.active = service[u].enabled /\ Exists(UnitFile(u))]]
    /\ step' = "idle" /\ plan' = Absent
    /\ doubt' = NoDoubt
    /\ result' = IF step = "idle" THEN result ELSE "stopped"
    /\ UNCHANGED <<scripts, diskFiles, asked, paired, good, tried>>

\* One file of the pair is lost, or the operator deletes both, as told to.
LosePair ==
    /\ step = "idle"
    /\ \/ /\ HasPair /\ \E f \in {"key", "cert"} : Put(f, Absent)
          /\ UNCHANGED paired
       \/ /\ Exists("key") # Exists("cert")
          /\ files' = [files EXCEPT !["key"] = Absent, !["cert"] = Absent]
          /\ paired' = [paired EXCEPT !.cert = Absent]
    /\ UNCHANGED <<scripts, minted, service, serving, step, plan, doubt, result, asked, good, tried>>

InstallSteps ==
    \/ Handover \/ WriteEnv \/ Preserve \/ Preserved \/ StageNew \/ StagedNew
    \/ SwapIn \/ PutUnit \/ RestartAgent \/ InstallDone \/ GivesUp

InstallNext ==
    \/ \E r \in Request : Install(r)
    \/ InstallSteps
    \/ \E purge \in BOOLEAN : Uninstall(purge)
    \/ StopAgent \/ StopLegacy \/ RemoveFile \/ UninstallEnds
    \/ AgentStarts \/ Generate \/ LegacyStarts \/ AgentDies \/ Reboot \/ LosePair

InstallSpec == InstallInit /\ [][InstallNext]_installVars
----------------------------------------------------------------------------
(* Properties.                                                             *)

\* An agent that can serve HTTPS listens on every interface without it only
\* where the operator's last word on the bind was that: the bind an install
\* chose itself is never kept when TLS goes (install.sh 1604-1627, 2032-2053).
OwnWildcardHasTls ==
    serving # Absent /\ serving.unit = "agent" =>
        \/ serving.bind # "wildcard" \/ serving.cert # Absent
        \/ serving.asked = "wildcard" \/ ~Capable(serving.bin)

\* What is live is whole, and the release that was last verified is live or
\* in `.prev` for as long as one other release is being tried, however often
\* and wherever it stopped (install.sh 2277-2291).
GoodIsKept ==
    /\ files["live"] # Partial
    /\ good # Absent /\ Cardinality(tried) <= 1 => good \in {files["live"], files["prev"]}

\* An uninstall that says it is done is: nothing runs or will start again and
\* no program or unit is left, nor token or key after --purge, whatever
\* earlier uninstalls left half done (install.sh 672-726, 1147-1192).
DoneIsGone ==
    result \in {"uninstalled", "purged"} =>
        /\ serving = Absent /\ \A u \in Unit : ~service[u].active
        /\ \A i \in 1..5 : ~Exists(Removed[i])
        /\ result = "purged" => \A i \in 1..4 : ~Exists(Purged[i])

InstallInv == OwnWildcardHasTls /\ GoodIsKept /\ DoneIsGone

\* A host that was paired stays paired: whatever is installed, killed, lost
\* or uninstalled, the agent answers under the token and the certificate it
\* first had until --purge or the operator's own deletion (install.sh
\* 2112-2143, tls.rs 134-156).
PairingKept == [][
    serving' # serving /\ serving' # Absent /\ serving'.unit = "agent" =>
        /\ paired.token \in {Absent, serving'.token}
        /\ Absent \in {paired.cert, serving'.cert} \/ paired.cert = serving'.cert]_installVars
=============================================================================
