----------------------------- MODULE MCWatches -----------------------------
(***************************************************************************)
(* What looks on: the app's watches of the hosts and of the vendors'       *)
(* status pages, and the sampler of an agent.  They share nothing, so one  *)
(* run holds them all: a behaviour follows the one that `part` names and   *)
(* the others stay as they began.                                          *)
(***************************************************************************)
EXTENDS HostWatch, VendorWatch, Sampler

CONSTANTS h1, h2, v1, v2

VARIABLE part

MCHost         == {h1, h2}
MCVendor       == {v1, v2}
MCCredentialed == {v1}

watchesVars == <<hostVars, vendorVars, samplerVars, part>>

MCInit ==
    /\ part \in {"host", "vendor", "sampler"}
    /\ HostInit /\ VendorInit /\ SamplerInit
    /\ part # "vendor" => configured = {}
    /\ part # "sampler" => mac /\ card

HostPart    == part = "host" /\ HostNext /\ UNCHANGED <<vendorVars, samplerVars, part>>
VendorPart  == part = "vendor" /\ VendorNext /\ UNCHANGED <<hostVars, samplerVars, part>>
SamplerPart == part = "sampler" /\ SamplerNext /\ UNCHANGED <<hostVars, vendorVars, part>>

MCSpec ==
    /\ MCInit /\ [][HostPart \/ VendorPart \/ SamplerPart]_watchesVars
    /\ WF_hostVars(part = "host" /\ WatchStep)
    /\ \A h \in Host : WF_hostVars(part = "host" /\ Poll(h))
    /\ WF_vendorVars(part = "vendor" /\ ServicesLoop)
    /\ WF_vendorVars(part = "vendor" /\ WakeServices)
    /\ WF_samplerVars(part = "sampler" /\ SamplerTick)
    /\ WF_samplerVars(part = "sampler" /\ SamplerLoop)
    /\ WF_samplerVars(part = "sampler" /\ ProbeStarts)
    /\ WF_samplerVars(part = "sampler" /\ (NvidiaReads \/ NvidiaFails))
=============================================================================
