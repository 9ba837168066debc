------------------------------ MODULE MCLoops ------------------------------
(***************************************************************************)
(* Four parts that share nothing, in one run: the OpenClaw loop, the usage *)
(* loop, the guard of unattended updates and the app's own updater.  A     *)
(* behaviour follows the part that `part` names, and the rest stays as it  *)
(* began.                                                                  *)
(***************************************************************************)
EXTENDS OpenClaw, UsageLoop, UpdateGuard, AppUpdate

CONSTANTS g1, g2

VARIABLE part

MCGateway == {g1, g2}
MCCadence == {1, 3}

loopsVars == <<clawVars, usageVars, guardVars, appVars, part>>

\* What is not followed has one beginning.
MCInit ==
    /\ part \in {"claw", "usage", "guard", "app"}
    /\ ClawInit /\ UsageInit /\ GuardInit /\ AppInit
    /\ part # "claw" => gateway = NoGateway
    /\ part # "usage" => \A h \in Half : every[h] = 1
    /\ part # "guard" => platform = "systemd" /\ ~counter /\ stamp = "none"
    /\ part # "app" => ~windows /\ feed = 1

ClawPart  == /\ part = "claw" /\ ClawNext
             /\ UNCHANGED <<usageVars, guardVars, appVars, part>>
UsagePart == /\ part = "usage" /\ UsageNext
             /\ UNCHANGED <<clawVars, guardVars, appVars, part>>
GuardPart == /\ part = "guard" /\ GuardNext
             /\ UNCHANGED <<clawVars, usageVars, appVars, part>>
AppPart   == /\ part = "app" /\ AppNext
             /\ UNCHANGED <<clawVars, usageVars, guardVars, part>>

MCNext == ClawPart \/ UsagePart \/ GuardPart \/ AppPart

MCSpec ==
    /\ MCInit /\ [][MCNext]_loopsVars
    /\ WF_clawVars(part = "claw" /\ ClawLoop)
    /\ WF_clawVars(part = "claw" /\ ClawWoken)
    /\ WF_clawVars(part = "claw" /\ Announce)
    /\ WF_usageVars(part = "usage" /\ UsageStep)
    /\ SF_usageVars(part = "usage" /\ UsageTick)
    /\ WF_usageVars(part = "usage" /\ WakeUsage)
    /\ WF_usageVars(part = "usage" /\ WakePanel)
    /\ WF_guardVars(part = "guard" /\ GuardTick)
=============================================================================
