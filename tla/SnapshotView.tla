---------------------------- MODULE SnapshotView ----------------------------
(***************************************************************************)
(* What the two readers of services/versionBrowser.js make of a version    *)
(* store: browseSnapshot, which lists a snapshot, and resolveFilePath,     *)
(* which finds the bytes that preview, download and restore hand out.      *)
(*                                                                         *)
(* A source is the snapshot an answer is taken from, Current for the       *)
(* destination tree, or 0 when the file is not shown / not found.          *)
(***************************************************************************)
EXTENDS VersionStore

Newer(t) == {v \in snaps : v > t}

\* A directory entry p or p.rdelta, whatever the manifest says.
HasEntry(v, p) == full[v][p] # None \/ rdelta[v][p] # None

\* Mutant of BrowseSource: the LATEST newer version wins.
BrowseSourceLatest(t, p) ==
    LET overlay == {v \in Newer(t) : HasEntry(v, p)}
    IN  IF overlay # {} THEN Max(overlay)
        ELSE IF current[p] # None THEN Current
        ELSE IF t \in snaps /\ HasEntry(t, p) THEN t ELSE 0

\* browseSnapshot: the earliest newer version containing p overlays the
\* current tree; the requested version only fills in what is still missing.
BrowseSource(t, p) ==
    LET overlay == {v \in Newer(t) : HasEntry(v, p)}
    IN  IF overlay # {} THEN Min(overlay)
        ELSE IF current[p] # None THEN Current
        ELSE IF t \in snaps /\ HasEntry(t, p) THEN t ELSE 0

\* The walk of resolveFilePath stops at v: a full file, or a .rdelta whose
\* reconstruction does not come back null.
Provides(v, p) == full[v][p] # None \/ (rdelta[v][p] # None /\ IsDelta(v, p))

\* Mutant of ResolveSource: the newer versions are walked newest first.
ResolveSourceNewestFirst(t, p) ==
    LET newer == {v \in Newer(t) : Provides(v, p)}
    IN  IF newer # {} THEN Max(newer)
        ELSE IF t \in snaps /\ Provides(t, p) THEN t
        ELSE IF current[p] # None THEN Current ELSE 0

\* resolveFilePath: the earliest newer version, then the requested version
\* itself, then the current tree.
ResolveSource(t, p) ==
    LET newer == {v \in Newer(t) : Provides(v, p)}
    IN  IF newer # {} THEN Min(newer)
        ELSE IF t \in snaps /\ Provides(t, p) THEN t
        ELSE IF current[p] # None THEN Current ELSE 0

-----------------------------------------------------------------------------
\* The bytes an exact copy from a source has: a version's are those its run put
\* aside.  Whether a version IS exact is what RetainedExact says.
TrueBytes(src, p) ==
    IF src = 0 THEN None
    ELSE IF src = Current THEN current[p] ELSE hist[src - 1][p]

(* With nothing pruned, browsing snapshot t lists every file the           *)
(* destination held after run t, from the source that has its bytes,       *)
(* whichever runs failed, crashed or deleted files in between.             *)
BrowseIsHistory ==
    pc = "idle" =>
        \A t \in snaps, p \in Paths :
            hist[t][p] # None => TrueBytes(BrowseSource(t, p), p) = hist[t][p]

(* With nothing pruned, a download at snapshot t is taken from a source    *)
(* with the bytes of run t, for every file run t did not itself replace,   *)
(* although a crash may have left deltas without a manifest.               *)
ResolveIsHistory ==
    pc = "idle" =>
        \A t \in snaps, p \in Paths :
            hist[t][p] # None /\ ~Replaced(t, p) =>
                TrueBytes(ResolveSource(t, p), p) = hist[t][p]
=============================================================================
