--------------------------- MODULE MCAgentUpdate ---------------------------
(***************************************************************************)
(* A small instance of AgentUpdate: two updaters; three releases, a source *)
(* build and a build without a version; a feed for each release, one whose *)
(* version is not its binary's, and one that nobody signed.                *)
(***************************************************************************)
EXTENDS AgentUpdate

CONSTANTS p1, p2, r1, r2, r3, src, bare

MCProc == {p1, p2}
MCBin  == {r1, r2, r3, src, bare}
MCVer  == [b \in MCBin |-> CASE b = r1 -> 1 [] b = r2 -> 2 [] b = r3 -> 3
                             [] b = src -> SourceBuild [] OTHER -> NoVersion]
MCSigned == {r1, r2}
MCAuthentic == {[ver |-> 1, bin |-> r1], [ver |-> 2, bin |-> r2],
                [ver |-> 2, bin |-> r1], [ver |-> 3, bin |-> r3]}
MCFeeds == MCAuthentic \union {[ver |-> 3, bin |-> bare]}
\* A build without a version need not be here: a probe that fails says no more
\* of the others, and `bare` is in a feed.
MCLocal == {r1, src}
=============================================================================
