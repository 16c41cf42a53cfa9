------------------------------ MODULE Publishing ------------------------------
(***************************************************************************)
(* Handing out builds of the extension: publish_package and unpublish in   *)
(* app/routers/extension.py, and scripts/publish_extension.py, a process   *)
(* of its own that does the same to the same directory.                    *)
(*                                                                         *)
(* A build and the manifest that names it and its digest are two files,    *)
(* written one after the other without a lock; opening a file to write it  *)
(* empties it.  Either process may die between any two steps.  A digest is *)
(* taken for the bytes it was made from; "torn" stands for bytes that are  *)
(* no build.                                                               *)
(***************************************************************************)

CONSTANTS
    Builds,
    Versions,
    Version,   \* what each build's package.json says
    Writers    \* "server", "script"

ASSUME PublishingAssumption ==
    /\ Version \in [Builds -> Versions]
    /\ Writers \subseteq {"server", "script"}
    /\ {"torn", "absent", "unknown"} \cap Builds = {}

VARIABLES
    file,     \* the package of each version
    manifest, \* latest.json
    work,     \* what each process is doing
    alone,    \* history: the operation that began last has overlapped none
    outcome   \* history: what an undisturbed operation has left to be served

publishVars == <<file, manifest, work, alone, outcome>>

Resting == [step |-> "idle", build |-> "absent", digest |-> "absent", left |-> {}]
NoManifest == [state |-> "absent", version |-> "absent", digest |-> "absent"]

PublishingInit ==
    /\ file = [v \in Versions |-> "absent"]
    /\ manifest = NoManifest
    /\ work = [w \in Writers |-> Resting]
    /\ alone = TRUE
    /\ outcome = "unknown"

Step(w, from, to) == work[w].step = from /\ work' = [work EXCEPT ![w].step = to]
Target(w) == Version[work[w].build]

\* Somebody else has the same file open: what the two write may be torn.
Contested(w, step) == \E z \in Writers \ {w} : work[z].step = step

Begun(w) ==
    /\ work[w] = Resting
    /\ alone' = \A z \in Writers : work[z] = Resting
    /\ outcome' = "unknown"

\* The upload is a package with a version; its file is opened.
PublishBegins(w, b) ==
    /\ Begun(w)
    /\ work' = [work EXCEPT ![w] = [step |-> "writing", build |-> b, digest |-> "absent", left |-> {}]]
    /\ file' = [file EXCEPT ![Version[b]] = "torn"]
    /\ UNCHANGED manifest

\* A file that was unlinked since it was opened is written in vain.
PackageWritten(w) ==
    /\ Step(w, "writing", "written")
    /\ \E bytes \in {work[w].build, "torn"} :
          /\ bytes = "torn" => Contested(w, "writing")
          /\ file' = [file EXCEPT ![Target(w)] = IF @ = "absent" THEN @ ELSE bytes]
    /\ UNCHANGED <<manifest, alone, outcome>>

\* The server hashes the bytes it was sent, the script what it finds in the
\* file it has copied, and fails if there is none.
Digest(w) == IF w = "server" THEN work[w].build ELSE file[Target(w)]

CanDigest(w) == w = "server" \/ file[Target(w)] # "absent"

ManifestOpened(w) ==
    /\ work[w].step = "written" /\ CanDigest(w)
    /\ work' = [work EXCEPT ![w].step = "announcing", ![w].digest = Digest(w)]
    /\ manifest' = [NoManifest EXCEPT !.state = "torn"]
    /\ UNCHANGED <<file, alone, outcome>>

ManifestWritten(w) ==
    /\ Step(w, "announcing", "announced")
    /\ \E state \in {"whole", "torn"} :
          /\ state = "torn" => Contested(w, "announcing")
          /\ manifest' = IF manifest.state = "absent" THEN manifest
                         ELSE [state |-> state, version |-> Target(w), digest |-> work[w].digest]
    /\ UNCHANGED <<file, alone, outcome>>

\* unpublish: the manifest goes first, then every build.
UnpublishBegins(w) ==
    /\ w = "server" /\ Begun(w)
    /\ work' = [work EXCEPT ![w].step = "announced"]
    /\ manifest' = NoManifest
    /\ UNCHANGED file

\* "One build is enough": all but the target are listed and unlinked.
StaleMutant(w) == Versions
Stale(w) == {v \in Versions : work[w].build \in Builds => v # Target(w)}

StaleListed(w) ==
    /\ work[w].step = "announced"
    /\ work' = [work EXCEPT ![w].step = "unlinking",
                            ![w].left = {v \in Stale(w) : file[v] # "absent"}]
    /\ UNCHANGED <<file, manifest, alone, outcome>>

\* Only the server forgives a file that is no longer there.
Unlinked(w, v) ==
    /\ v \in work[w].left
    /\ w = "server" \/ file[v] # "absent"
    /\ work' = [work EXCEPT ![w].left = @ \ {v}]
    /\ file' = [file EXCEPT ![v] = "absent"]
    /\ UNCHANGED <<manifest, alone, outcome>>

Finishes(w) ==
    /\ work[w].step = "unlinking" /\ work[w].left = {}
    /\ outcome' = IF alone THEN work[w].build ELSE "unknown"
    /\ work' = [work EXCEPT ![w] = Resting]
    /\ UNCHANGED <<file, manifest, alone>>

\* Killed; and how an operation ends that fails half way.
Dies(w) ==
    /\ work[w] # Resting
    /\ work' = [work EXCEPT ![w] = Resting]
    /\ UNCHANGED <<file, manifest, alone, outcome>>

PublishingNext ==
    \E w \in Writers :
        \/ \E b \in Builds : PublishBegins(w, b)
        \/ PackageWritten(w) \/ ManifestOpened(w) \/ ManifestWritten(w)
        \/ UnpublishBegins(w)
        \/ StaleListed(w) \/ (\E v \in Versions : Unlinked(w, v)) \/ Finishes(w)
        \/ Dies(w)

PublishingSpec == PublishingInit /\ [][PublishingNext]_publishVars

-----------------------------------------------------------------------------
(* Properties.                                                             *)

Contents == Builds \cup {"torn", "absent"}

PublishingTypeOK ==
    /\ file \in [Versions -> Contents]
    /\ manifest \in [state : {"whole", "torn", "absent"},
                     version : Versions \cup {"absent"}, digest : Contents]
    /\ manifest.state = "whole" => manifest.version \in Versions
    /\ work \in [Writers -> [step : {"idle", "writing", "written", "announcing",
                                     "announced", "unlinking"},
                             build : Builds \cup {"absent"}, digest : Contents,
                             left : SUBSET Versions]]
    /\ \A w \in Writers :
          /\ work[w].step \in {"writing", "written", "announcing"} => work[w].build \in Builds
          /\ work[w].step = "announcing" => work[w].digest # "absent"
    /\ alone \in BOOLEAN
    /\ outcome \in Builds \cup {"absent", "unknown"}

\* latest offers what a readable manifest names, if the file is there
\* (read_manifest, package_path).
Offered == manifest.state = "whole" /\ file[manifest.version] # "absent"

\* A client that is offered a build installs it if the digest fits.
Installable == IF Offered /\ file[manifest.version] = manifest.digest
               THEN manifest.digest ELSE "absent"

\* A publication or withdrawal that overlapped no other has its effect
\* whatever crashes, clashes and torn files came before it: the very build
\* can be installed, or none is offered (publish_package, unpublish, main).
UndisturbedHolds ==
    /\ outcome \in Builds => Installable = outcome
    /\ outcome = "absent" => ~Offered
=============================================================================
