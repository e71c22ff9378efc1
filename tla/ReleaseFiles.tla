---------------------------- MODULE ReleaseFiles ----------------------------
(***************************************************************************)
(* From the files of a release to the program of the agent, on Linux:      *)
(* parse_release_json and asset_for, the three downloads one after the     *)
(* other (apply_downloaded), verify_asset, and the installation for the    *)
(* kind that is found then.  Meanwhile the maintainer puts the files up,   *)
(* or replaces them with those of another build, one at a time, and the    *)
(* user installs the package or removes it.                                *)
(*                                                                         *)
(* A file is the build it is of.  SHA256SUMS has the hashes of the assets  *)
(* of its build, whose bytes no other build has, under names that do not   *)
(* change.  Whether a release is newer is in UpdateController.             *)
(***************************************************************************)
EXTENDS Naturals

CONSTANTS MaxBuilds, MaxMoves  \* bounds: builds, and changes of the installation

ASSUME ReleaseBoundAssumption == MaxBuilds \in Nat \ {0} /\ MaxMoves \in Nat

Kinds == {"deb", "binary"}
Files == Kinds \cup {"SHA256SUMS", "SHA256SUMS.sig"}
Absent == 0

VARIABLES
    host,     \* the build of each file of the release, Absent if it is not there
    build,    \* the build the maintainer puts up
    place,    \* the kind of installation: "deb" if /usr/bin/ha-desktop-agent exists
    moves,    \* how often it changed
    found,    \* AvailableUpdate: the kind of the asset, and which of the two other
              \* files were listed; none or one
    stage,    \* "idle", or the file to download next, or "verify"
    got,      \* the files downloaded
    program,  \* what was installed: the file's kind and build, the build that was
              \* signed, and the kind of installation; none or one
    moved     \* the kind of installation changed since `found`, for the properties only

releaseVars == <<host, build, place, moves, found, stage, got, program, moved>>

NoFiles == [f \in Files |-> Absent]

ReleaseInit ==
    /\ host = NoFiles /\ build = 1
    /\ place \in Kinds /\ moves = 0
    /\ found = {} /\ stage = "idle" /\ got = NoFiles
    /\ program = {} /\ moved = FALSE

-----------------------------------------------------------------------------
(* The agent.  A definition named Fault... is a deliberate fault, put in     *)
(* place of the one that follows it to see a property fail.                  *)

\* check_now: a release without an asset of the kind is an error.
FindRelease ==
    /\ stage = "idle" /\ program = {}
    /\ found' = IF host[place] = Absent THEN {}
                ELSE {[kind |-> place, listed |-> {f \in Files \ Kinds : host[f] # Absent}]}
    /\ moved' = FALSE
    /\ UNCHANGED <<host, build, place, moves, stage, got, program>>

BeginApply ==
    /\ stage = "idle" /\ program = {} /\ found # {}
    /\ stage' = "asset" /\ got' = NoFiles
    /\ UNCHANGED <<host, build, place, moves, found, program, moved>>

After(s) == CASE s = "asset" -> "SHA256SUMS"
              [] s = "SHA256SUMS" -> "SHA256SUMS.sig"
              [] s = "SHA256SUMS.sig" -> "verify"

\* A file that was not listed is not asked for; one that is gone, or a connection
\* that fails, ends the attempt.
DownloadNext ==
    /\ stage \notin {"idle", "verify"}
    /\ \E offer \in found :
           LET file == IF stage = "asset" THEN offer.kind ELSE stage
           IN \/ file \in offer.listed \cup Kinds /\ host[file] # Absent
                 /\ got' = [got EXCEPT ![file] = host[file]]
                 /\ stage' = After(stage)
              \/ file \in offer.listed \cup Kinds
                 /\ stage' = "idle" /\ UNCHANGED got
              \/ file \notin offer.listed \cup Kinds
                 /\ stage' = After(stage) /\ UNCHANGED got
    /\ UNCHANGED <<host, build, place, moves, found, program, moved>>

\* The hash of the asset is not compared.
FaultVerifyAsset(kind) ==
    got["SHA256SUMS"] # Absent /\ got["SHA256SUMS.sig"] = got["SHA256SUMS"]

\* The signature is of these sums, and the sums have the hash of this asset.
VerifyAsset(kind) ==
    /\ got["SHA256SUMS"] # Absent /\ got["SHA256SUMS.sig"] # Absent
    /\ got["SHA256SUMS.sig"] = got["SHA256SUMS"]
    /\ got[kind] = got["SHA256SUMS"]

\* apply_update, by the kind found now: dpkg takes a package only, a program file is
\* replaced by whatever was downloaded.
CanInstall(kind) == place = "binary" \/ kind = "deb"

VerifyAndInstall ==
    /\ stage = "verify" /\ stage' = "idle"
    /\ \E offer \in found :
           \/ /\ VerifyAsset(offer.kind) /\ CanInstall(offer.kind)
              /\ program' = {[kind |-> offer.kind, build |-> got[offer.kind],
                              signed |-> got["SHA256SUMS.sig"], onto |-> place]}
           \/ UNCHANGED program        \* or it is refused, or the installation fails
    /\ UNCHANGED <<host, build, place, moves, found, got, moved>>

-----------------------------------------------------------------------------
(* The maintainer and the user *)

PutUp(f) ==
    /\ host[f] # build
    /\ host' = [host EXCEPT ![f] = IF @ = Absent THEN build ELSE Absent]
    /\ UNCHANGED <<build, place, moves, found, stage, got, program, moved>>

Rebuild ==
    /\ build < MaxBuilds /\ build' = build + 1
    /\ UNCHANGED <<host, place, moves, found, stage, got, program, moved>>

ChangePlace ==
    /\ moves < MaxMoves /\ moves' = moves + 1
    /\ place' \in Kinds \ {place} /\ moved' = TRUE
    /\ UNCHANGED <<host, build, found, stage, got, program>>

ReleaseNext ==
    \/ FindRelease \/ BeginApply \/ DownloadNext \/ VerifyAndInstall
    \/ \E f \in Files : PutUp(f)
    \/ Rebuild \/ ChangePlace

ReleaseSpec == ReleaseInit /\ [][ReleaseNext]_releaseVars

-----------------------------------------------------------------------------
(* Properties *)

Stages == {"idle", "asset", "SHA256SUMS", "SHA256SUMS.sig", "verify"}

\* Every variable has its type, and files are downloaded of a release that was found.
ReleaseTypeOK ==
    /\ host \in [Files -> 0..MaxBuilds] /\ build \in 1..MaxBuilds
    /\ place \in Kinds /\ moves \in 0..MaxMoves /\ moved \in BOOLEAN
    /\ found \in SUBSET [kind : Kinds, listed : SUBSET (Files \ Kinds)]
    /\ \A u, v \in found : u = v
    /\ stage \in Stages /\ (stage # "idle" => found # {})
    /\ got \in [Files -> 0..MaxBuilds]
    /\ program \in SUBSET [kind : Kinds, build : 1..MaxBuilds, signed : 1..MaxBuilds,
                           onto : Kinds]

\* What is installed is a file of the build whose sums were signed, also when the
\* release is incomplete or its files are replaced between the downloads; and it is
\* of the kind of the installation it replaces, unless that changed since the
\* release was found.
InstalledWhole ==
    \A p \in program : p.build = p.signed /\ (moved \/ p.kind = p.onto)
=============================================================================
