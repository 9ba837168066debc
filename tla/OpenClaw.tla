------------------------------ MODULE OpenClaw ------------------------------
(***************************************************************************)
(* The OpenClaw panel: one loop that connects to the configured gateway,   *)
(* streams what its agents do and reconnects, and the edits, saved first   *)
(* and then announced to the loop, that cut it short wherever it waits.    *)
(* Each gateway has one agent here.  Delays are exponents of two.          *)
(***************************************************************************)
EXTENDS Naturals

CONSTANTS
    Gateway,    \* addresses of gateways
    NoGateway,  \* the empty address
    NoToken,    \* connecting without a token
    MaxLevel    \* MAX_BACKOFF, in doublings

ASSUME OpenClawAssumption ==
    MaxLevel \in Nat \ {0} /\ NoGateway \notin Gateway /\ NoToken \notin {"old", "new"}

VARIABLES
    gateway,    \* the address in the settings
    bearer,     \* the token in the credential store
    announcing, \* an edit is saved and its wake is not yet given
    ocwake,     \* openclaw_wake
    opc,        \* the loop: "top", "idle", "connecting", "connected", "waiting"
    current,    \* the address the reducer is of, NoGateway before the first
    using,      \* the token of the session
    level,      \* Backoff
    lived,      \* the session has lived for STABLE_SESSION
    identity,   \* the device key is loaded or minted
    agent,      \* what each gateway's agent really does
    listed,     \* reducer: the agent has been listed
    activity,   \* reducer: what it does
    sections,   \* the panel's rows: Blank, or of which gateway and what
    connection, \* the panel's connection line
    pairing,    \* the panel's pairing block
    missed,     \* history: a report was lost on the reducer
    strikes     \* history: sessions in a row that failed young, with no restart
                \* asked for and no session that lived in between

sessionVars == <<opc, current, using, level, lived, identity>>
farmVars    == <<agent, listed, activity, missed>>
panelVars   == <<sections, connection, pairing>>
clawVars == <<gateway, bearer, announcing, ocwake, sessionVars, farmVars, panelVars, strikes>>

Blank    == [of |-> NoGateway, agent |-> "unlisted"]
Activity == {"ok", "running"}

ClawInit ==
    /\ gateway \in Gateway \union {NoGateway} /\ bearer = "old"
    /\ announcing = FALSE /\ ocwake = FALSE
    /\ opc = "top" /\ current = NoGateway /\ using = NoToken
    /\ level = 0 /\ lived = FALSE /\ identity = FALSE
    /\ agent = [g \in Gateway |-> "ok"] /\ listed = FALSE /\ activity = "ok"
    /\ missed = FALSE
    /\ sections = Blank /\ connection = "idle" /\ pairing = FALSE /\ strikes = 0

----------------------------------------------------------------------------
(* Settings.                                                               *)

\* `settings_save_openclaw`, and a token saved or cleared: saved first.
SaveGateway ==
    /\ ~announcing /\ announcing' = TRUE
    /\ \/ gateway' \in Gateway \union {NoGateway} /\ UNCHANGED bearer
       \/ bearer' \in {"old", "new"} \ {bearer} /\ UNCHANGED gateway
    /\ UNCHANGED <<ocwake, sessionVars, farmVars, panelVars, strikes>>

\* Mutant: only a loop that waits hears it.
WakesSleeper == ocwake' = (ocwake \/ opc \in {"idle", "waiting"})

WakeOpenclaw == ocwake' = TRUE

\* The wake after a save, and "Retry now" of the pairing block.
Announce ==
    /\ announcing /\ announcing' = FALSE /\ WakeOpenclaw
    /\ UNCHANGED <<gateway, bearer, sessionVars, farmVars, panelVars, strikes>>

Retry ==
    /\ pairing /\ WakeOpenclaw
    /\ UNCHANGED <<gateway, bearer, announcing, sessionVars, farmVars, panelVars, strikes>>

----------------------------------------------------------------------------
(* The loop.                                                               *)

\* Mutant: the rows go, the reducer stays.
KeepReducer == UNCHANGED <<listed, activity, missed>>

\* What the agent does as the reducer is made has not been reported to it.
NewReducer == listed' = FALSE /\ activity' = "ok" /\ missed' = TRUE

\* The configuration is read and the session begins; another address is another
\* reducer and the idle snapshot (`forget_sections`), the same one keeps both.
\* An unreadable token is no token.  Without an address the loop is idle, without a device key
\* (no stored one, and no entropy for another) it gives up until it is woken.
ClawTop ==
    /\ opc = "top" /\ lived' = FALSE
    /\ IF gateway # current
       THEN /\ current' = gateway /\ level' = 0 /\ strikes' = 0 /\ NewReducer
            /\ sections' = Blank /\ pairing' = FALSE
       ELSE UNCHANGED <<current, level, strikes, listed, activity, missed, sections, pairing>>
    /\ \/ /\ gateway = NoGateway /\ opc' = "idle" /\ connection' = "idle"
          /\ using' = NoToken /\ UNCHANGED identity
       \/ /\ gateway # NoGateway /\ opc' = "connecting" /\ connection' = "connecting"
          /\ identity' = TRUE /\ using' \in {bearer, NoToken}
       \/ /\ gateway # NoGateway /\ ~identity /\ opc' = "idle"
          /\ connection' = "disconnected" /\ using' = NoToken /\ UNCHANGED identity
    /\ UNCHANGED <<gateway, bearer, announcing, ocwake, agent>>

\* Mutant: the pairing block stays until the address changes.
KeepsAsking == UNCHANGED pairing

\* `connected`: this gateway has accepted the device.
StopsAsking == pairing' = FALSE

\* `hello-ok`, and the bootstrap requests go out.
HelloOk ==
    /\ opc = "connecting" /\ opc' = "connected"
    /\ connection' = "connected" /\ StopsAsking
    /\ UNCHANGED <<gateway, bearer, announcing, ocwake, current, using, level, lived,
                   identity, farmVars, sections, strikes>>

\* It has lived for longer than STABLE_SESSION.
LivesOn ==
    /\ opc = "connected" /\ lived' = TRUE /\ strikes' = 0
    /\ UNCHANGED <<gateway, bearer, announcing, ocwake, opc, current, using, level,
                   identity, farmVars, panelVars>>

\* Mutant: a session that got as far as `hello-ok` counts as healthy.
AnyHello == IF opc = "connected" THEN 0
            ELSE IF level < MaxLevel THEN level + 1 ELSE level

\* `delay_after` a session that ended.
NextLevel == IF lived THEN 0 ELSE IF level < MaxLevel THEN level + 1 ELSE level

\* The address is no good, the handshake fails or times out, or the socket
\* drops: the loop waits for the next attempt.
SessionEnds ==
    /\ opc \in {"connecting", "connected"} /\ opc' = "waiting" /\ level' = NextLevel
    /\ lived' = FALSE /\ using' = NoToken
    /\ connection' = "disconnected"
    /\ strikes' = IF ~lived /\ strikes < MaxLevel THEN strikes + 1 ELSE strikes
    /\ UNCHANGED <<gateway, bearer, announcing, ocwake, current, identity, farmVars,
                   sections, pairing>>

\* The gateway waits for somebody to approve the device.
PairingRequired ==
    /\ opc = "connecting" /\ opc' = "waiting" /\ using' = NoToken
    /\ connection' = "disconnected" /\ pairing' = TRUE
    /\ UNCHANGED <<gateway, bearer, announcing, ocwake, current, level, lived, identity,
                   farmVars, sections, strikes>>

DelayOver ==
    /\ opc = "waiting" /\ opc' = "top"
    /\ UNCHANGED <<gateway, bearer, announcing, ocwake, current, using, level, lived,
                   identity, farmVars, panelVars, strikes>>

\* The three places a wake is waited for: while idle, in the delay, where it
\* also resets the backoff, and in the session, which is dropped.
ClawWoken ==
    /\ ocwake /\ ocwake' = FALSE /\ opc # "top" /\ opc' = "top"
    /\ level' = IF opc = "waiting" THEN 0 ELSE level
    /\ strikes' = 0 /\ lived' = FALSE /\ using' = NoToken
    /\ UNCHANGED <<gateway, bearer, announcing, current, identity, farmVars, panelVars>>

----------------------------------------------------------------------------
(* What the gateway sends.                                                 *)

Rebuilt(l, a) == [of |-> current, agent |-> IF l THEN a ELSE "unlisted"]

\* The agent does something else: a session that is up hears of it.
AgentEvent(g) ==
    /\ \E a \in Activity \ {agent[g]} :
          /\ agent' = [agent EXCEPT ![g] = a]
          /\ IF opc = "connected" /\ current = g
             THEN /\ activity' = a /\ missed' = FALSE
                  /\ sections' = Rebuilt(listed, a)
             ELSE /\ missed' = (missed \/ current = g)
                  /\ UNCHANGED <<activity, sections>>
    /\ UNCHANGED <<gateway, bearer, announcing, ocwake, sessionVars, listed, connection,
                   pairing, strikes>>

\* The answer to `agents.list`: it names agents, not what they do.
AgentsListed ==
    /\ opc = "connected" /\ listed' = TRUE /\ sections' = Rebuilt(TRUE, activity)
    /\ UNCHANGED <<gateway, bearer, announcing, ocwake, sessionVars, agent, activity,
                   missed, connection, pairing, strikes>>

ClawLoop == ClawTop \/ DelayOver \/ ClawWoken

ClawNext ==
    \/ SaveGateway \/ Announce \/ Retry
    \/ ClawLoop \/ HelloOk \/ LivesOn \/ SessionEnds \/ PairingRequired
    \/ AgentsListed \/ \E g \in Gateway : AgentEvent(g)

\* The loop runs, a delay ends, and a command that saved goes on to wake.
ClawFairness == WF_clawVars(ClawLoop) /\ WF_clawVars(ClawWoken) /\ WF_clawVars(Announce)

ClawSpec == ClawInit /\ [][ClawNext]_clawVars /\ ClawFairness

----------------------------------------------------------------------------
(* Properties.                                                             *)

ClawTypeOK ==
    /\ gateway \in Gateway \union {NoGateway} /\ current \in Gateway \union {NoGateway}
    /\ bearer \in {"old", "new"} /\ using \in {"old", "new", NoToken}
    /\ announcing \in BOOLEAN /\ ocwake \in BOOLEAN
    /\ opc \in {"top", "idle", "connecting", "connected", "waiting"}
    /\ level \in 0..MaxLevel /\ strikes \in 0..MaxLevel
    /\ lived \in BOOLEAN /\ identity \in BOOLEAN
    /\ agent \in [Gateway -> Activity] /\ listed \in BOOLEAN /\ activity \in Activity
    /\ sections \in [of : Gateway \union {NoGateway}, agent : Activity \union {"unlisted"}]
    /\ connection \in {"idle", "connecting", "connected", "disconnected"}
    /\ pairing \in BOOLEAN /\ missed \in BOOLEAN

\* One farm's rows are never shown as another's, through any sequence of
\* edits, drops and wakes: what is shown is of the gateway the loop is on,
\* and it is what that gateway last reported unless a report was lost since
\* ("carrying them across would attribute one farm's rows to another").
RowsAreOfThisGateway ==
    /\ sections.of \in {NoGateway, current}
    /\ sections.agent \in Activity /\ ~missed => sections.agent = agent[current]
    /\ sections.agent \in Activity => sections.agent = activity

\* A gateway that accepts the handshake and drops is not hammered at the
\* floor: n sessions in a row that failed young have escalated the delay n
\* times, whatever pairing answers fell in between (backoff.rs).
NotHammered == level >= strikes

\* "A pending pairing is cleared by the gateway accepting the device", and an
\* idle panel asks nobody to approve anything (`connected`, `forget_sections`).
PairingIsCurrent == pairing => opc # "connected" /\ current # NoGateway

\* An edit reaches the loop wherever it was: in the end the session is with
\* the configured gateway and no token but the one stored, or there is none
\* (`wake_openclaw`, the race of the session against the wake).
SessionFollowsSettings ==
    <>[][UNCHANGED <<gateway, bearer>>]_clawVars /\ <>(opc # "top")
        => <>[](/\ current = gateway \/ opc = "top"
                /\ opc \in {"connecting", "connected"} => using \in {bearer, NoToken}
                /\ gateway = NoGateway => opc \in {"idle", "top"})

\* What the panel says of a gateway is of the gateway it is on, and a gateway
\* that keeps failing is left more and more alone.
ClawInv == ClawTypeOK /\ RowsAreOfThisGateway /\ NotHammered /\ PairingIsCurrent
=============================================================================
