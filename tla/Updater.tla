-------------------------------- MODULE Updater --------------------------------
(* The updater: when a check runs and what its result does to the notice         *)
(* (app_updater.rs), how a version is compared with the running one              *)
(* (platform/updater/version.rs), and how an artifact is downloaded, verified    *)
(* and staged (service.rs, staging.rs).  Every check and every download is a     *)
(* thread of its own; its outcome reaches the controller as an event of the UI   *)
(* loop, later and in any order.  A version is a record of its three numbers and *)
(* its pre-release identifiers; an artifact is genuine or it is not.             *)
EXTENDS Integers, Sequences, FiniteSets

CONSTANTS
    Releases,       \* the versions the feed can offer, oldest first
    MaxChecks,      \* bound on the checks of a behaviour
    MaxFaults       \* bound on its failed steps and crashes

VARIABLES
    running,        \* the release the process is
    ui,             \* UpdateUiState: what the controller shows, and of which release
    threads,        \* the checks and downloads under way, and their outcomes on the way
    staged,         \* <data_dir>/updates: the .part and the final file of each release
    kept,           \* history: the release last put in its place, until it is
                    \* downloaded again
    caveats,        \* history: what has happened that staging does not guard against
    count           \* history: checks and faults so far

updaterVars == <<running, ui, threads, staged, kept, caveats, count>>

Identifier == [numeric : BOOLEAN, rank : Nat]
Version == [core : [1..3 -> Nat], pre : Seq(Identifier)]

ASSUME UpdaterAssumption ==
    /\ Releases \in Seq(Version)
    /\ MaxChecks \in Nat
    /\ MaxFaults \in Nat

ReleaseIds == 1..Len(Releases)
NoFiles == [part |-> "none", final |-> "none"]
Idle == [state |-> "idle"]

(* compare_pre and Version::cmp.  An identifier is a number or a word; numbers   *)
(* come before words, a prefix before what it is a prefix of, and a release      *)
(* after all its pre-releases.                                                   *)
IdentifierBefore(x, y) ==
    IF x.numeric = y.numeric THEN x.rank < y.rank ELSE x.numeric

FirstDifference(s, t, i) ==
    /\ i \in DOMAIN s \cap DOMAIN t
    /\ s[i] # t[i]
    /\ \A j \in 1..(i - 1) : s[j] = t[j]

PreBefore(s, t) ==
    \/ \E i \in DOMAIN s : FirstDifference(s, t, i) /\ IdentifierBefore(s[i], t[i])
    \/ Len(s) < Len(t) /\ \A i \in DOMAIN s : s[i] = t[i]

\* slip: the release of a version has no rank among its pre-releases
VersionBeforeByParts(v, w) ==
    \/ \E i \in 1..3 : FirstDifference(v.core, w.core, i) /\ v.core[i] < w.core[i]
    \/ v.core = w.core /\ PreBefore(v.pre, w.pre)

VersionBefore(v, w) ==
    \/ \E i \in 1..3 : FirstDifference(v.core, w.core, i) /\ v.core[i] < w.core[i]
    \/ /\ v.core = w.core
       /\ v.pre # <<>>
       /\ w.pre = <<>> \/ PreBefore(v.pre, w.pre)

Newer(r) == VersionBefore(Releases[running], Releases[r])

UpdaterInit ==
    /\ running \in ReleaseIds
    /\ ui = Idle
    /\ threads = {}
    /\ staged = [r \in ReleaseIds |-> NoFiles]
    /\ kept = 0
    /\ caveats = {}
    /\ count = [checks |-> 0, faults |-> 0]

CanFault == count.faults < MaxFaults
OneFault == [count EXCEPT !.faults = @ + 1]

Downloads == {t \in threads : t.kind = "download"}
FreshId == CHOOSE i \in 1..(Cardinality(threads) + 1) : \A t \in threads : t.id # i
Becomes(t, u) == threads' = (threads \ {t}) \cup {u}
Step(t, step) == [t EXCEPT !.step = step]
Outcome(t, result) == [t EXCEPT !.step = "done", !.result = result]

-------------------------------------------------------------------------------

(* start_check, from the timer of the start or the daily one: a thread, whatever *)
(* else is under way.                                                            *)
StartCheck ==
    /\ count.checks < MaxChecks
    /\ count' = [count EXCEPT !.checks = @ + 1]
    /\ threads' = threads \cup
          {[id |-> FreshId, kind |-> "check", step |-> "fetch",
            release |-> 0, result |-> "none"]}
    /\ UNCHANGED <<running, ui, staged, kept, caveats>>

(* check(): the feed is what it is when it is fetched; the same or an older      *)
(* version is never offered, and a manifest without a usable entry for this      *)
(* platform is an error.                                                         *)
Check(t) ==
    /\ t.kind = "check" /\ t.step = "fetch"
    /\ \/ \E r \in ReleaseIds :
            /\ Becomes(t, [Outcome(t, IF Newer(r) THEN "available" ELSE "upToDate")
                             EXCEPT !.release = r])
            /\ UNCHANGED count
       \/ /\ CanFault
          /\ Becomes(t, Outcome(t, "failed"))
          /\ count' = OneFault
    /\ UNCHANGED <<running, ui, staged, kept, caveats>>

(* on_check_finished: the result replaces whatever was shown, a download under   *)
(* way included.                                                                 *)
OnCheckFinished(t) ==
    /\ t.kind = "check" /\ t.step = "done"
    /\ threads' = threads \ {t}
    /\ ui' = IF t.result = "available"
             THEN [state |-> "available", release |-> t.release]
             ELSE [state |-> t.result]
    /\ UNCHANGED <<running, staged, kept, caveats, count>>

(* start_download: the button of the notice does something only while an update  *)
(* is shown as available.                                                        *)
StartDownload ==
    /\ ui.state = "available"
    /\ ui' = [state |-> "downloading", release |-> ui.release]
    /\ threads' = threads \cup
          {[id |-> FreshId, kind |-> "download", step |-> "fetch",
            release |-> ui.release, result |-> "none"]}
    /\ caveats' = caveats \cup (IF Downloads # {} THEN {"overlap"} ELSE {})
    /\ UNCHANGED <<running, staged, kept, count>>

-------------------------------------------------------------------------------

(* download(): nothing is staged that is not newer than the running version, or  *)
(* whose bytes do not verify.                                                    *)
Fetch(t) ==
    /\ t.kind = "download" /\ t.step = "fetch"
    /\ \/ /\ Newer(t.release)
          /\ Becomes(t, Step(t, "create"))
          /\ UNCHANGED count
       \/ /\ CanFault
          /\ Becomes(t, Outcome(t, "failed"))
          /\ count' = OneFault
    /\ UNCHANGED <<running, ui, staged, kept, caveats>>

(* stage(): the .part is removed and written anew, ...                           *)
CreatePart(t) ==
    /\ t.step = "create"
    /\ staged' = [staged EXCEPT ![t.release].part = "torn"]
    /\ Becomes(t, Step(t, "fill"))
    /\ UNCHANGED <<running, ui, kept, caveats, count>>

(* ... (two writers of one .part leave either's bytes) ...                       *)
FillPart(t) ==
    /\ t.step = "fill"
    /\ \E part \in IF staged[t.release].part = "none" THEN {"none"}
                   ELSE IF "overlap" \in caveats THEN {"torn", "whole"} ELSE {"whole"} :
         staged' = [staged EXCEPT ![t.release].part = part]
    /\ Becomes(t, Step(t, "replace"))
    /\ UNCHANGED <<running, ui, kept, caveats, count>>

\* slip: every staged version makes way
RemoveEveryFinal(t) ==
    /\ t.step = "replace"
    /\ staged' = [r \in ReleaseIds |-> [staged[r] EXCEPT !.final = "none"]]
    /\ kept' = IF kept = t.release THEN 0 ELSE kept
    /\ Becomes(t, Step(t, "rename"))
    /\ UNCHANGED <<running, ui, caveats, count>>

(* ... a staged file of the same version makes way, from here on as good as      *)
(* gone, ...                                                                     *)
RemoveFinal(t) ==
    /\ t.step = "replace"
    /\ staged' = [staged EXCEPT ![t.release].final = "none"]
    /\ kept' = IF kept = t.release THEN 0 ELSE kept
    /\ Becomes(t, Step(t, "rename"))
    /\ UNCHANGED <<running, ui, caveats, count>>

(* ... and the .part becomes it.                                                 *)
Finalize(t) ==
    /\ t.step = "rename"
    /\ IF staged[t.release].part = "none"
       THEN Becomes(t, Outcome(t, "failed")) /\ UNCHANGED <<staged, kept>>
       ELSE /\ staged' = [staged EXCEPT ![t.release] =
                          [part |-> "none", final |-> staged[t.release].part]]
            /\ kept' = t.release
            /\ Becomes(t, Step(t, "tidy"))
    /\ UNCHANGED <<running, ui, caveats, count>>

(* cleanup_other_versions, as far as the file system lets it.                    *)
CleanupOtherVersions(t) ==
    /\ t.step = "tidy"
    /\ \E spared \in IF CanFault THEN {{}} \cup {{r} : r \in ReleaseIds \ {t.release}}
                     ELSE {{}} :
         /\ staged' = [r \in ReleaseIds |->
                       IF r \in spared \cup {t.release} THEN staged[r] ELSE NoFiles]
         /\ caveats' = caveats \cup (IF spared = {} THEN {} ELSE {"untidy"})
         /\ count' = IF spared = {} THEN count ELSE OneFault
    /\ Becomes(t, Outcome(t, "staged"))
    /\ UNCHANGED <<running, ui, kept>>

(* A step of the staging fails.                                                  *)
StagingFails(t) ==
    /\ t.step \in {"create", "fill", "replace", "rename"}
    /\ CanFault
    /\ count' = OneFault
    /\ Becomes(t, Outcome(t, "failed"))
    /\ UNCHANGED <<running, ui, staged, kept, caveats>>

OnDownloadFinished(t) ==
    /\ t.kind = "download" /\ t.step = "done"
    /\ threads' = threads \ {t}
    /\ ui' = IF t.result = "staged"
             THEN [state |-> "staged", release |-> t.release]
             ELSE [state |-> "failed"]
    /\ UNCHANGED <<running, staged, kept, caveats, count>>

(* The process ends at any point, and the next one may be a newer release.       *)
Relaunch ==
    /\ CanFault
    /\ count' = OneFault
    /\ running' \in {r \in ReleaseIds : r = running \/ Newer(r)}
    /\ ui' = Idle
    /\ threads' = {}
    /\ UNCHANGED <<staged, kept, caveats>>

UpdaterNext ==
    \/ StartCheck \/ StartDownload \/ Relaunch
    \/ \E t \in threads :
         \/ Check(t) \/ OnCheckFinished(t)
         \/ Fetch(t) \/ CreatePart(t) \/ FillPart(t) \/ RemoveFinal(t) \/ Finalize(t)
         \/ CleanupOtherVersions(t) \/ StagingFails(t) \/ OnDownloadFinished(t)

UpdaterSpec == UpdaterInit /\ [][UpdaterNext]_updaterVars

-------------------------------------------------------------------------------

(* The notice "downloaded" is about a file that is there.  staging.rs:12-14: a   *)
(* crash can never leave a half-written file under the final name, and only the  *)
(* newest staged version is kept; service.rs:93-94 and :102-107: a download that *)
(* fails leaves an update staged before it intact, and nothing is staged that is *)
(* not newer than the running version.  Newer means later in the order the       *)
(* releases were made, whatever the comparison of versions says.  The code does  *)
(* less than the two documents in two cases, excepted here.  Downloads may       *)
(* overlap: a daily check turns Downloading back into Available, the button      *)
(* starts a second download, and two writers share one .part.  And a download of *)
(* the version that is staged removes the staged file before the new one takes   *)
(* its place: one that fails or is killed in between has cost it (`kept` is      *)
(* given up there).                                                              *)
StagedIsWhole ==
    "overlap" \notin caveats =>
        /\ \A r \in ReleaseIds : staged[r].final # "torn"
        /\ kept # 0 => staged[kept].final = "whole"
        /\ ui.state = "staged" =>
              /\ staged[ui.release].final = "whole"
              /\ ui.release > running
              /\ "untidy" \notin caveats =>
                    \A r \in ReleaseIds \ {ui.release} : staged[r] = NoFiles
===============================================================================
