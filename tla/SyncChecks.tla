----------------------------- MODULE SyncChecks -----------------------------
(***************************************************************************)
(* The decisions of a sync that read no store: who signed a pointer, is it *)
(* fresher than the active one, has it expired, is a manifest within the   *)
(* caps, which files are wanted (src/engine/sync.ts, keyring.ts).          *)
(*                                                                         *)
(* A pointer's `signature' is the key under which its own bytes verify;    *)
(* any other value verifies under no key.  A version is a sequence of      *)
(* integers, its dot-separated parts; a part that is not a number is       *)
(* negative.  A path is a sequence of segments.                            *)
(***************************************************************************)
EXTENDS FloorGate, FiniteSetsExt

CONSTANTS
    Content,    \* [Manifests -> manifest]: the body each hash names
    Caps        \* the release ceilings, a record (MAX_SYNC_FILES, ...)

-----------------------------------------------------------------------------
(* The trust root.                                                         *)

usableKeys(keyring) == keyring.keys \ keyring.revoked

assertKeyring(keyring) == usableKeys(keyring) # {}

(* With key_id only that key is tried; without one, any unrevoked key. *)
verifyWithKeyring(keyring, pointer) ==
    /\ pointer.signature \in usableKeys(keyring)
    /\ pointer.key_id \in {null, pointer.signature}

(* assertVersionPointer on what the network sent. *)
assertVersionPointer(pointer) == hasSequence(pointer)

isExpired(pointer, now) ==
    pointer.expires_at # null /\ now >= pointer.expires_at

(* The identity pin; "any" is an undefined pin, null demands a legacy
   pointer that has no identity. *)
assertExpectedIdentity(pointer, expected) ==
    expected \in {"any", pointer.bundle_id}

-----------------------------------------------------------------------------
(* Anti-rollback: each comparison says what it proved.                     *)

Freshness == {"fresh", "stale", "undecidable"}

(* null: a version that is not dot-separated numbers is not comparable. *)
parseRelease(version) ==
    IF Len(version) > 0 /\ \A i \in DOMAIN version : version[i] >= 0
    THEN version ELSE null

component(release, i) == IF i \in DOMAIN release THEN release[i] ELSE 0

(* The sign of the first difference; a missing component counts as zero. *)
releaseOlder(a, b) ==
    \E i \in 1 .. (Len(a) + Len(b)) :
        /\ component(a, i) < component(b, i)
        /\ \A j \in 1 .. (i - 1) : component(a, j) = component(b, j)

compareRelease(a, b) ==
    IF releaseOlder(a, b) THEN -1 ELSE IF releaseOlder(b, a) THEN 1 ELSE 0

sameIdentity(a, b) ==
    /\ a.manifest_hash = b.manifest_hash
    /\ a.version = b.version
    /\ a.bundle_id = b.bundle_id

sequenceFreshness(incoming, active) ==
    IF ~ hasSequence(active) THEN "undecidable"
    ELSE IF incoming.sequence > active.sequence THEN "fresh"
    ELSE IF incoming.sequence < active.sequence THEN "stale"
    ELSE IF sameIdentity(incoming, active) THEN "fresh" ELSE "stale"

versionFreshness(incoming, active) ==
    LET here  == parseRelease(incoming.version)
        there == parseRelease(active.version)
    IN  IF here = null \/ there = null THEN "undecidable"
        ELSE IF compareRelease(here, there) < 0 THEN "stale"
        ELSE IF compareRelease(here, there) > 0 THEN "fresh"
        ELSE IF incoming.manifest_hash = active.manifest_hash THEN "fresh"
        ELSE "undecidable"

(* No downgradeReason: neither comparison is stale and one proves freshness. *)
provablyFresh(incoming, active) ==
    LET verdicts == {sequenceFreshness(incoming, active),
                     versionFreshness(incoming, active)}
    IN  "stale" \notin verdicts /\ "fresh" \in verdicts

-----------------------------------------------------------------------------
(* Manifests.  A file entry is [path, size, chunks, sound]; `sound' says   *)
(* that its chunks reassemble to its signed file_sha256.                   *)

hashesOf(entry) == {entry.chunks[i].hash : i \in DOMAIN entry.chunks}

chunkRefs(files) ==
    UNION { {files[f].chunks[i] : i \in DOMAIN files[f].chunks} :
            f \in DOMAIN files }

sizeOf(entry) == MapThenSumSet(LAMBDA i : entry.chunks[i].size,
                               DOMAIN entry.chunks)

(* What the signed manifest of a pointer must satisfy before any of it is
   used: identity, caps, and sizes that add up. *)
assertManifest(manifest, pointer) ==
    LET files == manifest.files
        refs  == chunkRefs(files)
    IN  /\ manifest.schema_version = 2
        /\ Len(files) <= Caps.files
        /\ manifest.version = pointer.version
        /\ pointer.bundle_id \in {null, manifest.bundle_id}
        /\ \A f, g \in DOMAIN files : files[f].path = files[g].path => f = g
        /\ \A f \in DOMAIN files :
              /\ files[f].size <= Caps.fileBytes
              /\ sizeOf(files[f]) = files[f].size
        /\ \A r \in refs : r.size <= Caps.chunkBytes
        /\ \A r, s \in refs : r.hash = s.hash => r.size = s.size
        /\ MapThenSumSet(LAMBDA f : Len(files[f].chunks), DOMAIN files)
              <= Caps.refs
        /\ Cardinality({r.hash : r \in refs}) <= Caps.distinct
        /\ MapThenSumSet(LAMBDA f : files[f].size, DOMAIN files)
              <= Caps.totalBytes
        /\ MapThenSumSet(LAMBDA r : r.size, refs) <= Caps.totalBytes

(* A wanted path names a file, or, when it ends in "/", all files under it. *)
wantedMatches(wanted, path) ==
    IF wanted.directory
    THEN /\ Len(wanted.path) < Len(path)
         /\ SubSeq(path, 1, Len(wanted.path)) = wanted.path
    ELSE wanted.path = path

(* wantedPaths is null (undefined: every file) or a set of wanted paths; every
   one must match some file. *)
pathsFound(manifest, paths) ==
    paths # null =>
       \A wanted \in paths : \E f \in DOMAIN manifest.files :
          wantedMatches(wanted, manifest.files[f].path)

selectedFiles(manifest, paths) ==
    {f \in DOMAIN manifest.files :
        paths # null =>
           \E wanted \in paths : wantedMatches(wanted, manifest.files[f].path)}

(* The distinct chunks of the selected files, and whether they reassemble. *)
selectedChunks(m, paths) ==
    UNION {hashesOf(Content[m].files[f]) : f \in selectedFiles(Content[m], paths)}

selectionSound(m, paths) ==
    \A f \in selectedFiles(Content[m], paths) : Content[m].files[f].sound
=============================================================================
