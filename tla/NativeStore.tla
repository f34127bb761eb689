------------------------------ MODULE NativeStore ------------------------------
(* The durable store of the native application: one JSON file with named        *)
(* sections (persistence/store.rs), the ports that each rewrite the file for     *)
(* their own section (timer, academic, Break Room, Social and the two keys of    *)
(* the shared `preferences` section), and the import of a production backup,     *)
(* which runs before any of them loads (persistence/migration.rs, main.rs).      *)
(*                                                                               *)
(* Every save is read the file, replace one section, write a sibling .tmp file,  *)
(* rename it over the target.  The process may die between any two of these      *)
(* steps, a read or a write may fail, and between two runs of the program the    *)
(* file may be damaged or rewritten by a newer build.  What is inside a section  *)
(* is a version number: the ports copy sections, they never look into those of   *)
(* others.                                                                       *)
EXTENDS Integers, FiniteSets

CONSTANTS
    Versions,     \* the contents a section can have
    MaxSaves,     \* bound on the saves of a behaviour
    MaxMishaps    \* bound on its failures: crashes, failed reads and writes, damage

ASSUME StoreAssumption == Versions \subseteq Nat \ {0} /\ Versions # {}

VARIABLES
    file,      \* store.json: its schema, and what each section holds
    tmp,       \* the sibling .tmp file: missing, torn, or complete
    phase,     \* the process: off, importing, starting, running
    mem,       \* what the controller of each section holds
    job,       \* the save on its way, and what it is for
    import,    \* this start's import: its result, the sections found and written
    saved,     \* history: what the last completed save of each section wrote
    behind,    \* history: sections whose controller does not hold what was saved
    lost,      \* history: sections given up with an unreadable file or section
    used       \* history: saves and mishaps so far

storeVars == <<file, tmp, phase, mem, job, import, saved, behind, lost, used>>

NoValue == 0             \* the section is absent
Garbled == -1            \* the section is there, and its port cannot parse it

(* The sections of StoreEnvelope.  timer and academic are typed: parsed when the *)
(* file is read.  The others travel verbatim in `other`; appearance and          *)
(* telemetry share the section `preferences`, and foreign stands for every key   *)
(* this build does not model.                                                    *)
Typed == {"timer", "academic"}
Preferences == {"appearance", "telemetry"}
Owned == Typed \cup Preferences \cup {"breakRoom", "social"}
Keys == Owned \cup {"foreign"}

(* The ports that start a fresh envelope when the file cannot be read; the two   *)
(* of social_port.rs give the save up instead.                                   *)
Replacing == {"timer", "academic", "breakRoom", "appearance"}

(* What commit_import replaces.                                                  *)
Imported == {"timer", "academic", "breakRoom", "appearance"}

Empty == [k \in Keys |-> NoValue]
NoJob == [kind |-> "none"]
NoImport == [result |-> "none", found |-> Empty, wrote |-> Empty]

Readable(f) == f.schema \in {"absent", "current"}

(* parse_envelope: a typed section that does not parse is dropped with a warning *)
(* and the others are kept as they stand.                                        *)
Cleaned(sections) ==
    [k \in Keys |->
        IF k \in Typed /\ sections[k] = Garbled THEN NoValue ELSE sections[k]]

Parsed(f) == Cleaned(f.keys)

(* What the controller of section k makes of it: anything unreadable is a fresh  *)
(* profile.                                                                      *)
Understood(f, k) ==
    IF Readable(f) /\ f.keys[k] # Garbled THEN f.keys[k] ELSE NoValue

\* slip: the appearance is written as the whole section
InsertedWhole(sections, k, v) ==
    [j \in Keys |->
        IF j = k THEN v ELSE IF {j, k} \subseteq Preferences THEN NoValue ELSE sections[j]]

(* write_appearance and write_prefs keep the keys of `preferences` they do not   *)
(* own, unless the section is not an object at all.                              *)
Inserted(sections, k, v) ==
    [j \in Keys |->
        IF j = k THEN v
        ELSE IF {j, k} \subseteq Preferences /\ sections[j] = Garbled THEN NoValue
        ELSE sections[j]]

StoreInit ==
    /\ \E first \in {"absent", "current"} :
         file = [schema |-> first,
                 keys |-> [k \in Keys |->
                             IF first = "current" THEN CHOOSE v \in Versions : TRUE
                             ELSE NoValue]]
    /\ tmp = "missing"
    /\ phase = "off"
    /\ mem = Empty
    /\ job = NoJob
    /\ import = NoImport
    /\ saved = file.keys
    /\ behind = {}
    /\ lost = {}
    /\ used = [saves |-> 0, mishaps |-> 0]

CanSave == used.saves < MaxSaves
CanFail == used.mishaps < MaxMishaps
OneSave == [used EXCEPT !.saves = @ + 1]
OneMishap == [used EXCEPT !.mishaps = @ + 1]
OneOfEach == [saves |-> used.saves + 1, mishaps |-> used.mishaps + 1]

(* Sections a rewrite of the file gives up.  Of a file that was read these are   *)
(* the typed sections that did not parse and, under a rewrite of one of its two  *)
(* keys, the rest of a `preferences` that is no object; of an unreadable one it  *)
(* is everything else.                                                           *)
Dropped(read, owned) ==
    IF ~read THEN Keys \ owned
    ELSE {k \in Keys \ owned : /\ file.keys[k] = Garbled
                               /\ \/ k \in Typed
                                  \/ k \in Preferences /\ owned \cap Preferences # {}}

(* A save begins with a read: `glitch` is a read that fails although the file is *)
(* there.  The envelope a save will write is fixed here, from what was read.     *)
BeginSave(k, v) ==
    \E glitch \in IF CanFail THEN BOOLEAN ELSE {FALSE} :
      LET read == Readable(file) /\ ~glitch
          base == IF read THEN Parsed(file) ELSE Empty
      IN /\ used' = IF glitch THEN OneOfEach ELSE OneSave
         /\ IF read \/ k \in Replacing
            THEN /\ job' = [kind |-> "save", step |-> "create", key |-> k,
                            envelope |-> Inserted(base, k, v),
                            saved |-> [saved EXCEPT ![k] = v],
                            lost |-> (lost \cup Dropped(read, {k})) \ {k}]
                 /\ UNCHANGED behind
            ELSE /\ behind' = behind \cup {k}
                 /\ UNCHANGED job

(* A controller changes its state and saves it: every persist of a port.  Social *)
(* removes its section when the identity is cleared.                             *)
Save(k) ==
    /\ phase = "running"
    /\ job = NoJob
    /\ CanSave
    /\ \E v \in Versions \cup (IF k = "social" THEN {NoValue} ELSE {}) :
         /\ v # mem[k]
         /\ mem' = [mem EXCEPT ![k] = v]
         /\ BeginSave(k, v)
    /\ UNCHANGED <<file, tmp, phase, import, saved, lost>>

(* fs::write creates and truncates the .tmp file, then fills it.                 *)
CreateTmp ==
    /\ job # NoJob /\ job.step = "create"
    /\ tmp' = "torn"
    /\ job' = [job EXCEPT !.step = "fill"]
    /\ UNCHANGED <<file, phase, mem, import, saved, behind, lost, used>>

FillTmp ==
    /\ job # NoJob /\ job.step = "fill"
    /\ tmp' = "complete"
    /\ job' = [job EXCEPT !.step = "rename"]
    /\ UNCHANGED <<file, phase, mem, import, saved, behind, lost, used>>

(* fs::rename puts the new file in the place of the old one.                     *)
Rename ==
    /\ job # NoJob /\ job.step = "rename"
    /\ file' = [schema |-> "current", keys |-> job.envelope]
    /\ tmp' = "missing"
    /\ saved' = job.saved
    /\ lost' = job.lost
    /\ CASE job.kind = "save" ->
              /\ behind' = behind \ {job.key}
              /\ job' = NoJob
              /\ UNCHANGED <<phase, import>>
         [] job.kind = "import" ->
              /\ job' = [kind |-> "readBack", step |-> "none", undo |-> job.undo]
              /\ UNCHANGED <<phase, import, behind>>
         [] job.kind = "rollBack" ->
              /\ job' = NoJob
              /\ phase' = "starting"
              /\ import' = [import EXCEPT !.result = "undone"]
              /\ UNCHANGED behind
    /\ UNCHANGED <<mem, used>>

(* The write or the rename fails: the target is as it was.  A port logs it, an   *)
(* import gives up, and a roll back ignores it.                                  *)
SaveFails ==
    /\ job # NoJob /\ job.step \in {"create", "fill", "rename"}
    /\ CanFail
    /\ job' = NoJob
    /\ IF job.kind = "save"
       THEN /\ behind' = behind \cup {job.key}
            /\ UNCHANGED <<phase, import>>
       ELSE /\ phase' = "starting"
            /\ import' = [import EXCEPT !.result =
                            IF job.kind = "import" THEN "undone" ELSE "stuck"]
            /\ UNCHANGED behind
    /\ used' = OneMishap
    /\ UNCHANGED <<file, tmp, mem, saved, lost>>

-------------------------------------------------------------------------------

(* main.rs: a requested import runs to its end before any controller loads.      *)
StartUp ==
    /\ phase = "off"
    /\ phase' \in IF CanSave THEN {"importing", "starting"} ELSE {"starting"}
    /\ UNCHANGED <<file, tmp, mem, job, import, saved, behind, lost, used>>

(* commit_import reads the store, gives up when it cannot, and otherwise saves   *)
(* an envelope with the timer, the academic data, the Break Room and, when the   *)
(* backup has one, the appearance of the backup.                                 *)
ImportWrites(appearance) == Imported \ (IF appearance THEN {} ELSE {"appearance"})

ImportEnvelope(v, timer, appearance) ==
    LET core == [k \in Keys |->
                    CASE k \in {"academic", "breakRoom"} -> v
                      [] k = "timer" -> IF timer THEN v ELSE NoValue
                      [] OTHER -> Parsed(file)[k]]
    IN  IF appearance THEN Inserted(core, "appearance", v) ELSE core

ImportPlan(v, timer, appearance) ==
    LET written == ImportWrites(appearance)
        all == ImportEnvelope(v, timer, appearance)
    IN  [kind |-> "import", step |-> "create", envelope |-> all,
         saved |-> [k \in Keys |-> IF k \in written THEN all[k] ELSE saved[k]],
         lost |-> (lost \cup Dropped(TRUE, written)) \ written,
         undo |-> [envelope |-> Parsed(file), saved |-> saved,
                   lost |-> lost \cup Dropped(TRUE, {})]]

BeginImport ==
    /\ phase = "importing"
    /\ job = NoJob
    /\ \E glitch \in IF CanFail THEN BOOLEAN ELSE {FALSE} :
         \/ /\ Readable(file) /\ ~glitch
            /\ \E v \in Versions, timer \in BOOLEAN, appearance \in BOOLEAN :
                 job' = ImportPlan(v, timer, appearance)
            /\ import' = [result |-> "writing", found |-> file.keys,
                          wrote |-> job'.envelope]
            /\ used' = OneSave
            /\ UNCHANGED phase
         \/ /\ ~Readable(file) \/ glitch
            /\ phase' = "starting"
            /\ used' = IF glitch THEN OneMishap ELSE used
            /\ UNCHANGED <<job, import>>
    /\ UNCHANGED <<file, tmp, mem, saved, behind, lost>>

(* The read-back: a store that does not load, or loads something else, is put    *)
(* back as it was found.  What was written is compared by Rename's own envelope, *)
(* so only the failed read can make the two differ here.                         *)
ReadBack ==
    /\ job.kind = "readBack"
    /\ \E glitch \in IF CanFail THEN BOOLEAN ELSE {FALSE} :
         IF glitch
         THEN /\ job' = [kind |-> "rollBack", step |-> "create",
                         envelope |-> job.undo.envelope,
                         saved |-> job.undo.saved, lost |-> job.undo.lost]
              /\ used' = OneMishap
              /\ UNCHANGED <<phase, import>>
         ELSE /\ job' = NoJob
              /\ phase' = "starting"
              /\ import' = [import EXCEPT !.result = "committed"]
              /\ UNCHANGED used
    /\ UNCHANGED <<file, tmp, mem, saved, behind, lost>>

(* Every controller loads its section.  A failed read leaves that one with the   *)
(* defaults.                                                                     *)
Load ==
    /\ phase = "starting"
    /\ \E blind \in {{}} \cup (IF CanFail THEN {{k} : k \in Owned} ELSE {}) :
         /\ mem' = [k \in Keys |-> IF k \in blind THEN NoValue ELSE Understood(file, k)]
         /\ behind' = blind \cup {k \in Owned : \/ file.keys[k] = Garbled
                                                \/ ~Readable(file)}
         /\ used' = IF blind = {} THEN used ELSE OneMishap
    /\ phase' = "running"
    /\ import' = NoImport
    /\ UNCHANGED <<file, tmp, job, saved, lost>>

(* The process ends, by itself when nothing is on its way, or at any point.      *)
Stop ==
    /\ phase # "off"
    /\ \/ job = NoJob /\ phase = "running" /\ UNCHANGED used
       \/ CanFail /\ used' = OneMishap
    /\ phase' = "off"
    /\ mem' = Empty
    /\ job' = NoJob
    /\ import' = NoImport
    /\ behind' = {}
    /\ UNCHANGED <<file, tmp, saved, lost>>

GarbledAt(hit) == [k \in Keys |-> IF k \in hit THEN Garbled ELSE file.keys[k]]

(* Between two runs: a newer build rewrites the file, the file is truncated, or  *)
(* a section is edited into something its port cannot parse.                     *)
Damage ==
    /\ phase = "off"
    /\ CanFail
    /\ file.schema = "current"
    /\ \/ \E schema \in {"future", "corrupt"} : file' = [file EXCEPT !.schema = schema]
       \/ \E k \in Keys \ {"foreign"} :
            /\ file.keys[k] \notin {NoValue, Garbled}
            /\ file' = [file EXCEPT !.keys =
                           GarbledAt(IF k \in Preferences THEN Preferences ELSE {k})]
    /\ lost' = lost \cup {k \in Keys : file'.keys[k] = Garbled}
    /\ used' = OneMishap
    /\ UNCHANGED <<tmp, phase, mem, job, import, saved, behind>>

StoreNext ==
    \/ \E k \in Owned : Save(k)
    \/ CreateTmp \/ FillTmp \/ Rename \/ SaveFails
    \/ StartUp \/ BeginImport \/ ReadBack \/ Load
    \/ Stop \/ Damage

StoreSpec == StoreInit /\ [][StoreNext]_storeVars

-------------------------------------------------------------------------------

(* No save costs a section: store.rs:11-14 promises that a save never discards   *)
(* data this build does not understand, :112-117 that a kill at any point leaves *)
(* the old file or the new one, and every port that it clobbers no other         *)
(* section.  So at every moment, whatever failed and wherever the process died,  *)
(* the file holds what the last completed save of every section wrote, the ones  *)
(* nobody here understands included; the exceptions are the sections damaged     *)
(* from outside and those given up by a port that replaced a file it could not   *)
(* read.  A running controller holds what the file holds, unless its own last    *)
(* read or save failed.                                                          *)
(* An import is written whole or not at all.  migration.rs:458-460 says that a   *)
(* failed one leaves the destination exactly as it was found; the code does less *)
(* than that in two cases, which are stated here as they are: the roll back      *)
(* of a failed read-back puts the sections back without a timer or academic      *)
(* section that did not parse, and when the roll back's own save fails, which    *)
(* `let _ =` ignores, the import stays written although it reports an error.     *)
SectionsKept ==
    /\ \A k \in Keys \ lost : file.keys[k] = saved[k]
    /\ phase = "running" /\ job = NoJob =>
         \A k \in Owned \ (lost \cup behind) : mem[k] = saved[k]
    /\ import.result = "undone" =>
         file.keys \in {import.found, Cleaned(import.found)}
    /\ import.result \in {"committed", "stuck"} => file.keys = import.wrote

(* store.rs:53-54 says of a file with a newer schema: refuse to touch it rather  *)
(* than rewrite it in a shape that might not round-trip.                         *)
FutureStoreUntouched == [][file.schema = "future" => file' = file]_file
===============================================================================
