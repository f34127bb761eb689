----------------------------- MODULE LocalProofs -----------------------------
(***************************************************************************)
(* Theorems about two parts of the native application that keep files: the *)
(* store, and below it the updater.  They share nothing.                   *)
(*                                                                         *)
(* The store: no save costs a section, for any contents of the sections    *)
(* and any number of saves and mishaps.  A job that will replace the file  *)
(* carries the envelope it will write, what will then have been saved and  *)
(* what will then be lost; the invariant says that these three agree from  *)
(* the read on, that the sections a job does not write are those of the    *)
(* file, and that an import remembers what it found and what it wrote.     *)
(*                                                                         *)
(* The updater: what its notice says of the files on the disk, for every   *)
(* list of releases whose version numbers ascend: however checks and       *)
(* downloads interleave, fail and crash, as long as no two downloads       *)
(* overlap.                                                                *)
(***************************************************************************)
EXTENDS NativeStore, Updater, FiniteSetTheorems, TLAPS

Contents == Versions \cup {NoValue, Garbled}
Sections == [Keys -> Contents]
Steps == {"create", "fill", "rename"}
Undo == [envelope : Sections, saved : Sections, lost : SUBSET Keys]

SaveJob ==
    [kind : {"save"}, step : Steps, key : Owned, envelope : Sections,
     saved : Sections, lost : SUBSET Keys]
ImportJob ==
    [kind : {"import"}, step : Steps, envelope : Sections, saved : Sections,
     lost : SUBSET Keys, undo : Undo]
ReadBackJob == [kind : {"readBack"}, step : {"none"}, undo : Undo]
RollBackJob ==
    [kind : {"rollBack"}, step : Steps, envelope : Sections, saved : Sections,
     lost : SUBSET Keys]

StoreTypeOK ==
    /\ file \in [schema : {"absent", "current", "future", "corrupt"}, keys : Sections]
    /\ tmp \in {"missing", "torn", "complete"}
    /\ phase \in {"off", "importing", "starting", "running"}
    /\ mem \in Sections
    /\ job \in {NoJob} \cup SaveJob \cup ImportJob \cup ReadBackJob \cup RollBackJob
    /\ import \in [result : {"none", "writing", "committed", "undone", "stuck"},
                   found : Sections, wrote : Sections]
    /\ saved \in Sections
    /\ behind \subseteq Owned
    /\ lost \subseteq Keys
    /\ used \in [saves : Int, mishaps : Int]

(* What would be written is what would then be saved, but for what is lost.      *)
Agrees(w) == \A k \in Keys \ w.lost : w.envelope[k] = w.saved[k]

(* Who is at work when: controllers save while the program runs, an import and   *)
(* its roll back come before, and nothing is on its way at any other time.       *)
JobFitsPhase ==
    /\ job.kind = "save" => phase = "running"
    /\ job.kind \in {"import", "readBack", "rollBack"} => phase = "importing"
    /\ import.result # "none" => phase \in {"importing", "starting"}
    /\ import.result \in {"committed", "undone", "stuck"} => phase = "starting"

JobAgrees ==
    /\ job.kind \in {"save", "import", "rollBack"} => Agrees(job)
    /\ job.kind \in {"import", "readBack"} => Agrees(job.undo)

(* A save changes its own section only, and gives up nothing it writes.          *)
SaveIsLocal ==
    job.kind = "save" =>
        /\ mem[job.key] = job.saved[job.key]
        /\ \A k \in Keys \ {job.key} : job.saved[k] = saved[k]
        /\ lost \ {job.key} \subseteq job.lost

(* The import knows what it found and what it wrote, and so does its roll back.  *)
ImportRemembers ==
    /\ job.kind = "import" =>
          file.keys = import.found /\ job.envelope = import.wrote
    /\ job.kind \in {"import", "readBack"} =>
          job.undo.envelope = Cleaned(import.found)
    /\ job.kind = "readBack" => file.keys = import.wrote
    /\ job.kind = "rollBack" =>
          job.envelope = Cleaned(import.found) /\ file.keys = import.wrote
    /\ import.result = "undone" =>
          file.keys \in {import.found, Cleaned(import.found)}
    /\ import.result \in {"committed", "stuck"} => file.keys = import.wrote

FileHoldsSaved == \A k \in Keys \ lost : file.keys[k] = saved[k]

MemoryHoldsSaved ==
    phase = "running" =>
        \A k \in Owned \ (lost \cup behind) :
            (job.kind = "save" => k # job.key) => mem[k] = saved[k]

StoreIInv ==
    /\ StoreTypeOK /\ JobFitsPhase /\ JobAgrees /\ SaveIsLocal
    /\ ImportRemembers /\ FileHoldsSaved /\ MemoryHoldsSaved
--------------------------------------------------------------------------------
(* The pure helpers.                                                             *)

LEMMA ParsedFacts ==
    ASSUME NEW f, f.keys \in Sections
    PROVE  /\ Parsed(f) \in Sections
           /\ \A k \in Typed : Parsed(f)[k] # Garbled
           /\ \A k \in Keys : k \notin Typed \/ f.keys[k] # Garbled
                                => Parsed(f)[k] = f.keys[k]
  BY DEF Parsed, Cleaned, Sections, Contents, Typed, Keys, Owned, Garbled, NoValue

LEMMA InsertedType ==
    ASSUME NEW s \in Sections, NEW k \in Keys, NEW v \in Contents
    PROVE  Inserted(s, k, v) \in Sections
  BY DEF Inserted, Sections, Contents

LEMMA EmptyType == Empty \in Sections /\ \A k \in Keys : Empty[k] = NoValue
  BY DEF Empty, Sections, Contents

(* One shape of job at a time; what a shape holds.                               *)
LEMMA JobShape ==
    ASSUME StoreTypeOK
    PROVE  /\ job = NoJob <=> job.kind = "none"
           /\ job.kind \in {"none", "save", "import", "readBack", "rollBack"}
           /\ job.kind = "save" <=> job \in SaveJob
           /\ job.kind = "import" <=> job \in ImportJob
           /\ job.kind = "readBack" <=> job \in ReadBackJob
           /\ job.kind = "rollBack" <=> job \in RollBackJob
  BY DEF StoreTypeOK, NoJob, SaveJob, ImportJob, ReadBackJob, RollBackJob

LEMMA KeysFacts ==
    /\ Typed \subseteq Keys /\ Owned \subseteq Keys /\ Preferences \subseteq Keys
    /\ Typed \cap Preferences = {} /\ Imported \subseteq Owned
  BY DEF Typed, Keys, Owned, Preferences, Imported

(* A section that a save does not write and does not give up is written as it    *)
(* was read.                                                                     *)
LEMMA InsertedKeeps ==
    ASSUME file.keys \in Sections, NEW owned \in SUBSET Keys,
           NEW k \in owned, NEW v \in Contents, NEW j \in Keys, j # k,
           j \notin Dropped(TRUE, owned), j \notin owned
    PROVE  /\ Inserted(Parsed(file), k, v)[j] = file.keys[j]
           /\ Parsed(file)[j] = file.keys[j]
<1>1. Parsed(file)[j] = file.keys[j]
  <2>1. ~(j \in Typed /\ file.keys[j] = Garbled)
    BY DEF Dropped
  <2> QED  BY <2>1, ParsedFacts
<1>2. ~({j, k} \subseteq Preferences /\ file.keys[j] = Garbled)
  BY DEF Dropped
<1> QED  BY <1>1, <1>2 DEF Inserted
--------------------------------------------------------------------------------
LEMMA StoreInitIInv == StoreInit => StoreIInv
<1> SUFFICES ASSUME StoreInit PROVE StoreIInv
  OBVIOUS
<1>1. (CHOOSE v \in Versions : TRUE) \in Versions
  BY StoreAssumption
<1>2. file \in [schema : {"absent", "current", "future", "corrupt"}, keys : Sections]
  BY <1>1 DEF StoreInit, Sections, Contents
<1>3. /\ tmp = "missing" /\ phase = "off" /\ mem = Empty /\ job = NoJob
      /\ import = NoImport /\ saved = file.keys /\ behind = {} /\ lost = {}
      /\ used = [saves |-> 0, mishaps |-> 0]
  BY DEF StoreInit
<1>4. file.keys \in Sections
  BY <1>2
<1>5. StoreTypeOK
  BY <1>2, <1>3, <1>4, EmptyType DEF StoreTypeOK, NoImport
<1>6. job.kind = "none" /\ import.result = "none"
  BY <1>3 DEF NoJob, NoImport
<1>7. JobFitsPhase /\ JobAgrees /\ SaveIsLocal /\ FileHoldsSaved /\ MemoryHoldsSaved
  BY <1>3, <1>6 DEF JobFitsPhase, JobAgrees, SaveIsLocal, FileHoldsSaved, MemoryHoldsSaved
<1>8. ImportRemembers
  BY <1>6 DEF ImportRemembers
<1> QED  BY <1>5, <1>7, <1>8 DEF StoreIInv

(* What a save that begins leaves behind.                                        *)
LEMMA SavePreserves == ASSUME StoreIInv, NEW k \in Owned, Save(k) PROVE StoreIInv'
<1>a. /\ phase = "running" /\ job = NoJob
      /\ UNCHANGED <<file, tmp, phase, import, saved, lost>>
  BY DEF Save
<1>b. PICK v \in Versions \cup {NoValue} :
          mem' = [mem EXCEPT ![k] = v] /\ BeginSave(k, v)
  BY DEF Save
<1>c. v \in Contents /\ k \in Keys
  BY <1>b, KeysFacts DEF Contents
<1>d. /\ file.keys \in Sections /\ saved \in Sections /\ mem \in Sections /\ lost \subseteq Keys
      /\ used \in [saves : Int, mishaps : Int] /\ behind \subseteq Owned
  BY DEF StoreIInv, StoreTypeOK
<1>e. mem' \in Sections /\ mem'[k] = v /\ \A j \in Keys \ {k} : mem'[j] = mem[j]
  BY <1>b, <1>c, <1>d DEF Sections
<1>f. used' \in [saves : Int, mishaps : Int]
  BY <1>b, <1>d DEF BeginSave, OneOfEach, OneSave
<1>g. import.result = "none" /\ import'.result = "none"
  BY <1>a DEF StoreIInv, JobFitsPhase
<1>1. CASE job' = job /\ behind' = behind \cup {k}
  <2>1. job' = NoJob /\ job.kind = "none" /\ job'.kind = "none"
    BY <1>1, <1>a DEF NoJob
  <2>2. StoreTypeOK'
    BY <1>1, <1>a, <1>e, <1>f DEF StoreIInv, StoreTypeOK
  <2>3. MemoryHoldsSaved'
    BY <1>1, <1>a, <1>e, <2>1, KeysFacts DEF StoreIInv, MemoryHoldsSaved
  <2>4. FileHoldsSaved' /\ ImportRemembers'
    BY <1>a, <1>1 DEF StoreIInv, FileHoldsSaved, ImportRemembers, Parsed
  <2> QED  BY <2>1, <2>2, <2>3, <2>4, <1>g
           DEF StoreIInv, JobFitsPhase, JobAgrees, SaveIsLocal
<1>2. ASSUME NEW read \in BOOLEAN,
             job' = [kind |-> "save", step |-> "create", key |-> k,
                     envelope |-> Inserted(IF read THEN Parsed(file) ELSE Empty, k, v),
                     saved |-> [saved EXCEPT ![k] = v],
                     lost |-> (lost \cup Dropped(read, {k})) \ {k}],
             behind' = behind
      PROVE  StoreIInv'
  <2> DEFINE base == IF read THEN Parsed(file) ELSE Empty
  <2>1. base \in Sections
    BY <1>d, ParsedFacts, EmptyType
  <2>2. Inserted(base, k, v) \in Sections /\ Inserted(base, k, v)[k] = v
    BY <2>1, <1>c, InsertedType DEF Inserted
  <2>3. [saved EXCEPT ![k] = v] \in Sections
    BY <1>c, <1>d DEF Sections
  <2>4. Dropped(read, {k}) \subseteq Keys
    BY DEF Dropped
  <2>5. /\ job'.kind = "save" /\ job'.key = k /\ job'.envelope = Inserted(base, k, v)
        /\ job'.saved = [saved EXCEPT ![k] = v]
        /\ job'.lost = (lost \cup Dropped(read, {k})) \ {k}
    BY <1>2
  <2>6. job' \in SaveJob
    BY <1>2, <1>d, <2>2, <2>3, <2>4 DEF SaveJob, Steps
  <2> HIDE DEF base
  <2>7. StoreTypeOK'
    BY <2>6, <1>2, <1>a, <1>e, <1>f DEF StoreIInv, StoreTypeOK
  <2>8. Agrees(job')
    <3> SUFFICES ASSUME NEW j \in Keys, j \notin job'.lost
                 PROVE  job'.envelope[j] = job'.saved[j]
      BY DEF Agrees
    <3>1. CASE j = k
      BY <3>1, <2>2, <2>5, <1>c, <1>d DEF Sections
    <3>2. CASE j # k
      <4>1. j \notin lost /\ j \notin Dropped(read, {k})
        BY <3>2, <2>5
      <4>2. read
        BY <4>1, <3>2 DEF Dropped
      <4>3. Inserted(base, k, v)[j] = file.keys[j]
        <5>1. read = TRUE /\ base = Parsed(file)
          BY <4>2 DEF base
        <5>2. j \notin Dropped(TRUE, {k}) /\ j \notin {k}
          BY <5>1, <4>1, <3>2
        <5>3. {k} \in SUBSET Keys /\ k \in {k}
          BY <1>c
        <5> QED  BY <5>1, <5>2, <5>3, <3>2, <1>c, <1>d, InsertedKeeps
      <4>4. file.keys[j] = saved[j]
        BY <4>1 DEF StoreIInv, FileHoldsSaved
      <4> QED  BY <4>3, <4>4, <2>5, <3>2, <1>d DEF Sections
    <3> QED  BY <3>1, <3>2
  <2>9. SaveIsLocal'
    BY <2>5, <1>a, <1>c, <1>d, <1>e DEF SaveIsLocal, Sections
  <2>10. MemoryHoldsSaved'
    <3>1. job.kind = "none"
      BY <1>a DEF NoJob
    <3> QED  BY <3>1, <2>5, <1>2, <1>a, <1>e, KeysFacts DEF StoreIInv, MemoryHoldsSaved
  <2>11. FileHoldsSaved' /\ ImportRemembers'
    BY <1>a, <2>5, <1>g DEF StoreIInv, FileHoldsSaved, ImportRemembers
  <2>12. JobFitsPhase' /\ JobAgrees'
    BY <1>a, <2>5, <2>8, <1>g DEF JobFitsPhase, JobAgrees
  <2> QED  BY <2>7, <2>9, <2>10, <2>11, <2>12 DEF StoreIInv
<1>3. \/ job' = job /\ behind' = behind \cup {k}
      \/ \E read \in BOOLEAN :
            /\ job' = [kind |-> "save", step |-> "create", key |-> k,
                       envelope |-> Inserted(IF read THEN Parsed(file) ELSE Empty, k, v),
                       saved |-> [saved EXCEPT ![k] = v],
                       lost |-> (lost \cup Dropped(read, {k})) \ {k}]
            /\ behind' = behind
  <2>1. PICK glitch \in BOOLEAN :
          LET read == Readable(file) /\ ~glitch
              base == IF read THEN Parsed(file) ELSE Empty
          IN  IF read \/ k \in Replacing
              THEN /\ job' = [kind |-> "save", step |-> "create", key |-> k,
                              envelope |-> Inserted(base, k, v),
                              saved |-> [saved EXCEPT ![k] = v],
                              lost |-> (lost \cup Dropped(read, {k})) \ {k}]
                   /\ UNCHANGED behind
              ELSE /\ behind' = behind \cup {k}
                   /\ UNCHANGED job
    BY <1>b DEF BeginSave
  <2> DEFINE read == Readable(file) /\ ~glitch
  <2>2. read \in BOOLEAN
    BY DEF Readable
  <2>3. CASE read \/ k \in Replacing
    BY <2>1, <2>2, <2>3
  <2>4. CASE ~(read \/ k \in Replacing)
    BY <2>1, <2>4
  <2> QED  BY <2>3, <2>4
<1> QED  BY <1>1, <1>2, <1>3

(* The steps of a job that write the .tmp file disturb nothing else.             *)
LEMMA TmpPreserves == ASSUME StoreIInv, CreateTmp \/ FillTmp PROVE StoreIInv'
<1>a. /\ UNCHANGED <<file, phase, mem, import, saved, behind, lost, used>>
      /\ job # NoJob /\ job.step \in Steps
      /\ tmp' \in {"missing", "torn", "complete"}
      /\ \E step \in Steps : job' = [job EXCEPT !.step = step]
  BY DEF CreateTmp, FillTmp, Steps
<1>b. PICK step \in Steps : job' = [job EXCEPT !.step = step]
  BY <1>a
<1>c. StoreTypeOK
  BY DEF StoreIInv
<1>d. job \in SaveJob \cup ImportJob \cup RollBackJob
  <2>1. ~(job \in ReadBackJob)
    BY <1>a DEF ReadBackJob, Steps
  <2> QED  BY <1>a, <1>c, <2>1 DEF StoreTypeOK
<1>1. CASE job \in SaveJob
  <2>1. /\ job' \in SaveJob /\ job'.kind = "save" /\ job'.key = job.key
        /\ job'.envelope = job.envelope /\ job'.saved = job.saved /\ job'.lost = job.lost
        /\ job.kind = "save"
    BY <1>1, <1>b DEF SaveJob
  <2> QED  BY <2>1, <1>a, <1>c DEF StoreIInv, StoreTypeOK, JobFitsPhase, JobAgrees, Agrees,
           SaveIsLocal, ImportRemembers, FileHoldsSaved, MemoryHoldsSaved
<1>2. CASE job \in ImportJob
  <2>1. /\ job' \in ImportJob /\ job'.kind = "import" /\ job'.undo = job.undo
        /\ job'.envelope = job.envelope /\ job'.saved = job.saved /\ job'.lost = job.lost
        /\ job.kind = "import"
    BY <1>2, <1>b DEF ImportJob
  <2> QED  BY <2>1, <1>a, <1>c DEF StoreIInv, StoreTypeOK, JobFitsPhase, JobAgrees, Agrees,
           SaveIsLocal, ImportRemembers, FileHoldsSaved, MemoryHoldsSaved
<1>3. CASE job \in RollBackJob
  <2>1. /\ job' \in RollBackJob /\ job'.kind = "rollBack"
        /\ job'.envelope = job.envelope /\ job'.saved = job.saved /\ job'.lost = job.lost
        /\ job.kind = "rollBack"
    BY <1>3, <1>b DEF RollBackJob
  <2> QED  BY <2>1, <1>a, <1>c DEF StoreIInv, StoreTypeOK, JobFitsPhase, JobAgrees, Agrees,
           SaveIsLocal, ImportRemembers, FileHoldsSaved, MemoryHoldsSaved
<1> QED  BY <1>1, <1>2, <1>3, <1>d

(* The rename makes the file what the job promised it would be.                  *)
LEMMA RenamePreserves == ASSUME StoreIInv, Rename PROVE StoreIInv'
<1>a. /\ job # NoJob /\ job.step = "rename"
      /\ file' = [schema |-> "current", keys |-> job.envelope]
      /\ tmp' = "missing" /\ saved' = job.saved /\ lost' = job.lost
      /\ UNCHANGED <<mem, used>>
  BY DEF Rename
<1>c. StoreTypeOK
  BY DEF StoreIInv
<1>d. job.kind \in {"save", "import", "rollBack"}
  <2>1. ~(job \in ReadBackJob)
    BY <1>a DEF ReadBackJob
  <2> QED  BY <1>a, <1>c, <2>1, JobShape
<1>e. job.envelope \in Sections /\ job.saved \in Sections /\ job.lost \subseteq Keys
  <2>1. job \in SaveJob \cup ImportJob \cup RollBackJob
    BY <1>c, <1>d, JobShape
  <2> QED  BY <2>1 DEF SaveJob, ImportJob, RollBackJob
<1>f. /\ file' \in [schema : {"absent", "current", "future", "corrupt"}, keys : Sections]
      /\ file'.keys = job.envelope
  BY <1>a, <1>e
<1>g. FileHoldsSaved'
  BY <1>a, <1>d, <1>f DEF StoreIInv, JobAgrees, Agrees, FileHoldsSaved
<1>1. CASE job.kind = "save"
  <2>1. /\ behind' = behind \ {job.key} /\ job' = NoJob /\ UNCHANGED <<phase, import>>
        /\ job'.kind = "none"
    BY <1>1 DEF Rename, NoJob
  <2>2. phase = "running" /\ import.result = "none" /\ job.key \in Owned
    <3>1. job \in SaveJob
      BY <1>c, <1>1, JobShape
    <3> QED  BY <3>1, <1>1 DEF StoreIInv, JobFitsPhase, SaveJob
  <2>3. StoreTypeOK'
    BY <1>a, <1>c, <1>e, <1>f, <2>1 DEF StoreTypeOK
  <2>4. MemoryHoldsSaved'
    <3> SUFFICES ASSUME NEW k \in Owned, k \notin job.lost, k \notin behind \ {job.key}
                 PROVE  mem[k] = job.saved[k]
      BY <1>a, <2>1 DEF MemoryHoldsSaved
    <3>1. CASE k = job.key
      BY <3>1, <1>1 DEF StoreIInv, SaveIsLocal
    <3>2. CASE k # job.key
      <4>1. k \notin lost /\ k \notin behind /\ job.saved[k] = saved[k]
        BY <3>2, <1>1, KeysFacts DEF StoreIInv, SaveIsLocal
      <4> QED  BY <4>1, <3>2, <2>2 DEF StoreIInv, MemoryHoldsSaved
    <3> QED  BY <3>1, <3>2
  <2> QED  BY <1>g, <2>1, <2>2, <2>3, <2>4
           DEF StoreIInv, JobFitsPhase, JobAgrees, SaveIsLocal, ImportRemembers
<1>2. CASE job.kind = "import"
  <2>1. /\ job' = [kind |-> "readBack", step |-> "none", undo |-> job.undo]
        /\ UNCHANGED <<phase, import, behind>>
    BY <1>2 DEF Rename
  <2>2. job.undo \in Undo
    <3>1. job \in ImportJob
      BY <1>c, <1>2, JobShape
    <3> QED  BY <3>1 DEF ImportJob
  <2>3. job' \in ReadBackJob /\ job'.kind = "readBack" /\ job'.undo = job.undo
    BY <2>1, <2>2 DEF ReadBackJob
  <2>4. StoreTypeOK'
    BY <1>a, <1>c, <1>e, <1>f, <2>1, <2>3 DEF StoreTypeOK
  <2>5. /\ phase = "importing" /\ file'.keys = job.envelope
        /\ import.result \notin {"committed", "undone", "stuck"}
    BY <1>2, <1>f DEF StoreIInv, JobFitsPhase
  <2> QED  BY <1>g, <1>2, <2>1, <2>3, <2>4, <2>5
           DEF StoreIInv, JobFitsPhase, JobAgrees, SaveIsLocal, ImportRemembers,
               MemoryHoldsSaved
<1>3. CASE job.kind = "rollBack"
  <2>1. /\ job' = NoJob /\ phase' = "starting" /\ UNCHANGED behind
        /\ import' = [import EXCEPT !.result = "undone"]
        /\ job'.kind = "none"
    BY <1>3 DEF Rename, NoJob
  <2>2. import' \in [result : {"none", "writing", "committed", "undone", "stuck"},
                     found : Sections, wrote : Sections]
        /\ import'.result = "undone" /\ import'.found = import.found
        /\ import'.wrote = import.wrote
    BY <2>1, <1>c DEF StoreTypeOK
  <2>3. StoreTypeOK'
    BY <1>a, <1>c, <1>e, <1>f, <2>1, <2>2 DEF StoreTypeOK
  <2>4. file'.keys = Cleaned(import.found)
    BY <1>3, <1>f DEF StoreIInv, ImportRemembers
  <2>6. ImportRemembers'
    BY <2>1, <2>2, <2>4 DEF ImportRemembers
  <2> QED  BY <1>g, <2>1, <2>2, <2>3, <2>6
           DEF StoreIInv, JobFitsPhase, JobAgrees, SaveIsLocal, MemoryHoldsSaved
<1> QED  BY <1>1, <1>2, <1>3, <1>d

(* A save that fails leaves the file as it was.                                  *)
LEMMA FailurePreserves == ASSUME StoreIInv, SaveFails PROVE StoreIInv'
<1>a. /\ job # NoJob /\ job.step \in Steps /\ job' = NoJob
      /\ UNCHANGED <<file, tmp, mem, saved, lost>>
      /\ used' = OneMishap
  BY DEF SaveFails, Steps
<1>c. StoreTypeOK
  BY DEF StoreIInv
<1>d. job.kind \in {"save", "import", "rollBack"} /\ job'.kind = "none"
  <2>1. ~(job \in ReadBackJob)
    BY <1>a DEF ReadBackJob, Steps
  <2> QED  BY <1>a, <1>c, <2>1, JobShape DEF NoJob
<1>e. used' \in [saves : Int, mishaps : Int]
  BY <1>a, <1>c DEF StoreTypeOK, OneMishap
<1>f. FileHoldsSaved' /\ SaveIsLocal' /\ JobAgrees'
  BY <1>a, <1>d DEF StoreIInv, FileHoldsSaved, SaveIsLocal, JobAgrees
<1>1. CASE job.kind = "save"
  <2>1. behind' = behind \cup {job.key} /\ UNCHANGED <<phase, import>>
    BY <1>1 DEF SaveFails
  <2>2. job.key \in Owned
    BY <1>c, <1>1, JobShape DEF SaveJob
  <2>3. StoreTypeOK'
    BY <1>a, <1>c, <1>e, <2>1, <2>2 DEF StoreTypeOK
  <2>4. MemoryHoldsSaved' /\ JobFitsPhase'
    BY <1>1, <1>a, <1>d, <2>1 DEF StoreIInv, MemoryHoldsSaved, JobFitsPhase
  <2>5. ImportRemembers'
    BY <1>a, <1>d, <2>1 DEF StoreIInv, ImportRemembers
  <2> QED  BY <1>f, <2>3, <2>4, <2>5 DEF StoreIInv
<1>2. CASE job.kind # "save"
  <2>1. /\ phase' = "starting" /\ UNCHANGED behind
        /\ import' = [import EXCEPT !.result =
                         IF job.kind = "import" THEN "undone" ELSE "stuck"]
    BY <1>2 DEF SaveFails
  <2>2. /\ import' \in [result : {"none", "writing", "committed", "undone", "stuck"},
                        found : Sections, wrote : Sections]
        /\ import'.found = import.found /\ import'.wrote = import.wrote
        /\ import'.result = IF job.kind = "import" THEN "undone" ELSE "stuck"
    BY <2>1, <1>c DEF StoreTypeOK
  <2>3. StoreTypeOK'
    BY <1>a, <1>c, <1>e, <2>1, <2>2 DEF StoreTypeOK
  <2>4. ImportRemembers'
    <3>1. file' = file /\ job'.kind = "none"
      BY <1>a, <1>d
    <3>2. CASE job.kind = "import"
      BY <3>1, <3>2, <2>2 DEF StoreIInv, ImportRemembers
    <3>3. CASE job.kind = "rollBack"
      BY <3>1, <3>3, <2>2 DEF StoreIInv, ImportRemembers
    <3> QED  BY <1>2, <1>d, <3>2, <3>3
  <2> QED  BY <1>d, <1>f, <2>1, <2>3, <2>4 DEF StoreIInv, MemoryHoldsSaved, JobFitsPhase
<1> QED  BY <1>1, <1>2

(* The import plans to replace what the backup brings, and remembers the rest.   *)
LEMMA ImportPreserves == ASSUME StoreIInv, BeginImport PROVE StoreIInv'
<1>a. /\ phase = "importing" /\ job = NoJob
      /\ UNCHANGED <<file, tmp, mem, saved, behind, lost>>
  BY DEF BeginImport
<1>c. StoreTypeOK /\ job.kind = "none"
  BY <1>a DEF StoreIInv, NoJob
<1>d. /\ file.keys \in Sections /\ saved \in Sections /\ lost \subseteq Keys
      /\ import.result \notin {"committed", "undone", "stuck"}
  BY <1>a, <1>c DEF StoreTypeOK, StoreIInv, JobFitsPhase
<1>e. used' \in [saves : Int, mishaps : Int]
  BY <1>c DEF StoreTypeOK, BeginImport, OneSave, OneMishap
<1> DEFINE was == Parsed(file)
<1>f. \/ \E v \in Versions, timer \in BOOLEAN, appearance \in BOOLEAN :
           /\ job' = ImportPlan(v, timer, appearance)
           /\ import' = [result |-> "writing", found |-> file.keys,
                         wrote |-> job'.envelope]
           /\ phase' = phase
      \/ phase' = "starting" /\ job' = job /\ import' = import
  BY Zenon DEF BeginImport
<1>1. CASE phase' = "starting" /\ job' = job /\ import' = import
  <2>1. StoreTypeOK'
    BY <1>1, <1>a, <1>c, <1>e DEF StoreTypeOK
  <2> QED  BY <1>1, <1>a, <1>c, <2>1 DEF StoreIInv, JobFitsPhase, JobAgrees, SaveIsLocal,
           ImportRemembers, FileHoldsSaved, MemoryHoldsSaved
<1>2. ASSUME NEW v \in Versions, NEW timer \in BOOLEAN, NEW appearance \in BOOLEAN,
             job' = ImportPlan(v, timer, appearance),
             import' = [result |-> "writing", found |-> file.keys,
                        wrote |-> job'.envelope],
             phase' = phase
      PROVE  StoreIInv'
  <2> DEFINE c == [k \in Keys |-> CASE k \in {"academic", "breakRoom"} -> v
                                    [] k = "timer" -> IF timer THEN v ELSE NoValue
                                    [] OTHER -> was[k]]
             e == ImportEnvelope(v, timer, appearance)
             w == ImportWrites(appearance)
             s == [k \in Keys |-> IF k \in w THEN e[k] ELSE saved[k]]
             l == (lost \cup Dropped(TRUE, w)) \ w
             u == [envelope |-> was, saved |-> saved, lost |-> lost \cup Dropped(TRUE, {})]
  <2>1. was \in Sections /\ \A k \in Typed : was[k] # Garbled
    BY <1>d, ParsedFacts
  <2>2. c \in Sections
    BY <2>1 DEF Sections, Contents
  <2>3. e \in Sections
    BY <2>2, InsertedType DEF ImportEnvelope, Contents, Keys, Owned, Preferences
  <2>4. w \subseteq Keys /\ Dropped(TRUE, w) \subseteq Keys /\ Dropped(TRUE, {}) \subseteq Keys
    BY KeysFacts DEF Dropped, ImportWrites
  <2>5. ASSUME NEW k \in Keys, k \notin w
        PROVE  c[k] = was[k]
    <3>1. k \notin {"academic", "breakRoom", "timer"}
      BY <2>5 DEF ImportWrites, Imported
    <3> QED  BY <3>1
  <2>6. ASSUME NEW k \in Keys, k \notin l PROVE e[k] = s[k]
    <3>1. CASE k \in w
      BY <3>1
    <3>2. CASE k \notin w
      <4>1. k \notin lost /\ k \notin Dropped(TRUE, w)
        BY <2>6, <3>2
      <4>2. file.keys[k] = saved[k]
        BY <4>1 DEF StoreIInv, FileHoldsSaved
      <4>3. was[k] = file.keys[k]
        <5>1. ~(k \in Typed /\ file.keys[k] = Garbled)
          BY <4>1, <3>2 DEF Dropped
        <5> QED  BY <5>1, <1>d, ParsedFacts
      <4>4. e[k] = c[k]
        <5>1. CASE ~appearance
          BY <5>1 DEF ImportEnvelope
        <5>2. CASE appearance
          <6>1. "appearance" \in w \cap Preferences /\ k # "appearance"
            BY <5>2, <3>2 DEF ImportWrites, Imported, Preferences
          <6>2. ~(k \in Preferences /\ file.keys[k] = Garbled)
            BY <6>1, <4>1, <3>2 DEF Dropped
          <6>3. c[k] = was[k]
            BY <2>5, <3>2
          <6>4. ~({k, "appearance"} \subseteq Preferences /\ c[k] = Garbled)
            BY <6>2, <6>3, <4>3
          <6>5. Inserted(c, "appearance", v)[k] = c[k]
            BY <6>1, <6>4 DEF Inserted
          <6> QED  BY <5>2, <6>5 DEF ImportEnvelope
        <5> QED  BY <5>1, <5>2
      <4>5. s[k] = saved[k] /\ c[k] = was[k]
        BY <3>2, <2>5
      <4> QED  BY <4>2, <4>3, <4>4, <4>5
    <3> QED  BY <3>1, <3>2
  <2>7. s \in Sections
    BY <2>3, <1>d DEF Sections
  <2>8. ASSUME NEW k \in Keys, k \notin u.lost PROVE was[k] = saved[k]
    <3>1. k \notin lost /\ ~(k \in Typed /\ file.keys[k] = Garbled)
      BY <2>8 DEF Dropped
    <3>2. was[k] = file.keys[k]
      BY <3>1, <1>d, ParsedFacts
    <3> QED  BY <3>1, <3>2 DEF StoreIInv, FileHoldsSaved
  <2>9. u \in Undo /\ Agrees(u) /\ u.envelope = was
    BY <2>1, <2>4, <2>8, <1>d DEF Undo, Agrees
  <2> HIDE DEF u, s, e, w, c, was
  <2>10. job' = [kind |-> "import", step |-> "create", envelope |-> e, saved |-> s,
                 lost |-> l, undo |-> u]
    BY <1>2 DEF ImportPlan, u, s, e, w, was
  <2>11. /\ job' \in ImportJob /\ job'.kind = "import" /\ job'.envelope = e
         /\ job'.saved = s /\ job'.lost = l /\ job'.undo = u
    BY <2>10, <2>3, <2>4, <2>7, <2>9, <1>d DEF ImportJob, Steps
  <2>12. Agrees(job')
    BY <2>6, <2>11 DEF Agrees
  <2>13. /\ import' \in [result : {"none", "writing", "committed", "undone", "stuck"},
                         found : Sections, wrote : Sections]
         /\ import'.result = "writing" /\ import'.found = file.keys
         /\ import'.wrote = e
    BY <1>2, <1>d, <2>3, <2>11
  <2>14. StoreTypeOK'
    BY <2>11, <2>13, <1>2, <1>a, <1>c, <1>e DEF StoreTypeOK
  <2>15. ImportRemembers'
    BY <2>9, <2>11, <2>13, <1>a DEF ImportRemembers, was, Parsed
  <2> QED  BY <2>9, <2>11, <2>12, <2>13, <2>14, <2>15, <1>2, <1>a
           DEF StoreIInv, JobFitsPhase, JobAgrees, SaveIsLocal, FileHoldsSaved,
               MemoryHoldsSaved
<1> QED  BY <1>1, <1>2, <1>f

(* The read-back commits, or plans to put back what was found.                   *)
LEMMA ReadBackPreserves == ASSUME StoreIInv, ReadBack PROVE StoreIInv'
<1>a. /\ job.kind = "readBack"
      /\ UNCHANGED <<file, tmp, mem, saved, behind, lost>>
  BY DEF ReadBack
<1>c. StoreTypeOK /\ job \in ReadBackJob /\ phase = "importing"
      /\ import.result \notin {"committed", "undone", "stuck"}
  BY <1>a, JobShape DEF StoreIInv, JobFitsPhase
<1>e. used' \in [saves : Int, mishaps : Int]
  BY <1>c DEF StoreTypeOK, ReadBack, OneMishap
<1>1. CASE /\ job' = [kind |-> "rollBack", step |-> "create",
                      envelope |-> job.undo.envelope,
                      saved |-> job.undo.saved, lost |-> job.undo.lost]
           /\ UNCHANGED <<phase, import>>
  <2>1. job.undo \in Undo
    BY <1>c DEF ReadBackJob
  <2>2. /\ job' \in RollBackJob /\ job'.kind = "rollBack"
        /\ job'.envelope = job.undo.envelope /\ job'.saved = job.undo.saved
        /\ job'.lost = job.undo.lost
    BY <1>1, <2>1 DEF RollBackJob, Undo, Steps
  <2>3. StoreTypeOK'
    BY <1>1, <1>a, <1>c, <1>e, <2>2 DEF StoreTypeOK
  <2> QED  BY <1>1, <1>a, <1>c, <2>2, <2>3
           DEF StoreIInv, JobFitsPhase, JobAgrees, Agrees, SaveIsLocal, ImportRemembers,
               FileHoldsSaved, MemoryHoldsSaved
<1>2. CASE /\ job' = NoJob /\ phase' = "starting"
           /\ import' = [import EXCEPT !.result = "committed"]
  <2>1. job'.kind = "none"
    BY <1>2 DEF NoJob
  <2>2. /\ import' \in [result : {"none", "writing", "committed", "undone", "stuck"},
                        found : Sections, wrote : Sections]
        /\ import'.result = "committed" /\ import'.found = import.found
        /\ import'.wrote = import.wrote
    BY <1>2, <1>c DEF StoreTypeOK
  <2>3. StoreTypeOK'
    BY <1>2, <1>a, <1>c, <1>e, <2>2 DEF StoreTypeOK
  <2> QED  BY <1>2, <1>a, <2>1, <2>2, <2>3
           DEF StoreIInv, JobFitsPhase, JobAgrees, SaveIsLocal, ImportRemembers,
               FileHoldsSaved, MemoryHoldsSaved
<1> QED  BY <1>1, <1>2 DEF ReadBack

(* Every controller holds what it loaded, unless it could not.                   *)
LEMMA LoadPreserves == ASSUME StoreIInv, Load PROVE StoreIInv'
<1>a. /\ phase = "starting" /\ phase' = "running" /\ import' = NoImport
      /\ UNCHANGED <<file, tmp, job, saved, lost>>
  BY DEF Load
<1>b. PICK blind \in SUBSET Owned :
         /\ mem' = [k \in Keys |-> IF k \in blind THEN NoValue ELSE Understood(file, k)]
         /\ behind' = blind \cup {k \in Owned : \/ file.keys[k] = Garbled
                                                \/ ~Readable(file)}
         /\ used' = IF blind = {} THEN used ELSE OneMishap
  BY DEF Load
<1>c. StoreTypeOK /\ file.keys \in Sections
  BY DEF StoreIInv, StoreTypeOK
<1>d. mem' \in Sections /\ behind' \subseteq Owned /\ used' \in [saves : Int, mishaps : Int]
  <2>1. used' \in [saves : Int, mishaps : Int]
    BY <1>b, <1>c DEF StoreTypeOK, OneMishap
  <2>2. \A k \in Keys : Understood(file, k) \in Contents
    BY <1>c DEF Understood, Sections, Contents
  <2>3. mem' \in Sections
    BY <1>b, <2>2 DEF Sections, Contents
  <2> QED  BY <1>b, <2>1, <2>3
<1>e. job.kind = "none"
  BY <1>a, <1>c, JobShape DEF StoreIInv, JobFitsPhase
<1>f. import'.result = "none"
  BY <1>a DEF NoImport
<1>1. StoreTypeOK'
  BY <1>a, <1>c, <1>d, EmptyType DEF StoreTypeOK, NoImport
<1>2. MemoryHoldsSaved'
  <2> SUFFICES ASSUME NEW k \in Owned, k \notin lost, k \notin behind'
               PROVE  mem'[k] = saved[k]
    BY <1>a DEF MemoryHoldsSaved
  <2>1. k \notin blind /\ file.keys[k] # Garbled /\ Readable(file) /\ k \in Keys
    BY <1>b, KeysFacts
  <2>2. mem'[k] = file.keys[k]
    BY <2>1, <1>b DEF Understood
  <2> QED  BY <2>1, <2>2 DEF StoreIInv, FileHoldsSaved
<1>3. ImportRemembers'
  BY <1>a, <1>e, <1>f DEF ImportRemembers
<1> QED  BY <1>a, <1>e, <1>f, <1>1, <1>2, <1>3
         DEF StoreIInv, JobFitsPhase, JobAgrees, SaveIsLocal, FileHoldsSaved

(* The process ends and forgets; the file stays.                                 *)
LEMMA StopPreserves == ASSUME StoreIInv, Stop PROVE StoreIInv'
<1>a. /\ phase' = "off" /\ mem' = Empty /\ job' = NoJob /\ import' = NoImport /\ behind' = {}
      /\ UNCHANGED <<file, tmp, saved, lost>>
  BY DEF Stop
<1>b. used' \in [saves : Int, mishaps : Int]
  BY DEF Stop, StoreIInv, StoreTypeOK, OneMishap
<1>c. job'.kind = "none" /\ import'.result = "none"
  BY <1>a DEF NoJob, NoImport
<1>1. StoreTypeOK'
  BY <1>a, <1>b, EmptyType DEF StoreIInv, StoreTypeOK, NoImport
<1>2. ImportRemembers'
  BY <1>c DEF ImportRemembers
<1> QED  BY <1>a, <1>c, <1>1, <1>2
         DEF StoreIInv, JobFitsPhase, JobAgrees, SaveIsLocal, FileHoldsSaved, MemoryHoldsSaved

(* Damage between two runs is counted as lost.                                   *)
LEMMA DamagePreserves == ASSUME StoreIInv, Damage PROVE StoreIInv'
<1>a. /\ phase = "off" /\ lost' = lost \cup {k \in Keys : file'.keys[k] = Garbled}
      /\ used' = OneMishap
      /\ UNCHANGED <<tmp, phase, mem, job, import, saved, behind>>
  BY DEF Damage
<1>b. StoreTypeOK /\ file.keys \in Sections
  BY DEF StoreIInv, StoreTypeOK
<1>c. job.kind = "none" /\ import.result = "none"
  BY <1>a, <1>b, JobShape DEF StoreIInv, JobFitsPhase
<1>d. /\ file' \in [schema : {"absent", "current", "future", "corrupt"}, keys : Sections]
      /\ \A k \in Keys : file'.keys[k] = file.keys[k] \/ file'.keys[k] = Garbled
  <2>1. CASE \E schema \in {"future", "corrupt"} : file' = [file EXCEPT !.schema = schema]
    BY <2>1, <1>b DEF StoreTypeOK
  <2>2. ASSUME NEW hit, file' = [file EXCEPT !.keys = GarbledAt(hit)]
        PROVE  /\ file' \in [schema : {"absent", "current", "future", "corrupt"},
                             keys : Sections]
               /\ \A k \in Keys : file'.keys[k] = file.keys[k] \/ file'.keys[k] = Garbled
    <3>1. /\ GarbledAt(hit) \in Sections
          /\ \A k \in Keys : GarbledAt(hit)[k] = file.keys[k] \/ GarbledAt(hit)[k] = Garbled
      BY <1>b DEF GarbledAt, Sections, Contents
    <3> QED  BY <2>2, <3>1, <1>b DEF StoreTypeOK
  <2>3. \/ \E schema \in {"future", "corrupt"} : file' = [file EXCEPT !.schema = schema]
        \/ \E hit : file' = [file EXCEPT !.keys = GarbledAt(hit)]
    BY Zenon DEF Damage
  <2> QED  BY <2>1, <2>2, <2>3
<1>1. StoreTypeOK'
  BY <1>a, <1>b, <1>d DEF StoreTypeOK, OneMishap
<1>2. FileHoldsSaved'
  BY <1>a, <1>d DEF StoreIInv, FileHoldsSaved
<1> QED  BY <1>a, <1>c, <1>1, <1>2
         DEF StoreIInv, JobFitsPhase, JobAgrees, SaveIsLocal, ImportRemembers, MemoryHoldsSaved

LEMMA StoreStepIInv == StoreIInv /\ [StoreNext]_storeVars => StoreIInv'
<1> SUFFICES ASSUME StoreIInv, [StoreNext]_storeVars PROVE StoreIInv'
  OBVIOUS
<1>1. ASSUME NEW k \in Owned, Save(k) PROVE StoreIInv'
  BY <1>1, SavePreserves
<1>2. CASE StartUp
  <2>1. StoreTypeOK'
    BY <1>2 DEF StartUp, StoreIInv, StoreTypeOK
  <2>2. JobFitsPhase' /\ MemoryHoldsSaved'
    BY <1>2 DEF StartUp, StoreIInv, JobFitsPhase, MemoryHoldsSaved
  <2> QED  BY <1>2, <2>1, <2>2 DEF StartUp, StoreIInv, JobAgrees, Agrees, SaveIsLocal,
           ImportRemembers, FileHoldsSaved
<1>3. CASE UNCHANGED storeVars
  BY <1>3 DEF storeVars, StoreIInv, StoreTypeOK, JobFitsPhase, JobAgrees, Agrees, SaveIsLocal,
     ImportRemembers, FileHoldsSaved, MemoryHoldsSaved
<1> QED  BY <1>1, <1>2, <1>3, TmpPreserves, RenamePreserves, FailurePreserves,
         ImportPreserves, ReadBackPreserves, LoadPreserves, StopPreserves, DamagePreserves
         DEF StoreNext

LEMMA StoreInvariant == StoreSpec => []StoreIInv
  BY StoreInitIInv, StoreStepIInv, PTL DEF StoreSpec

(* Every variable of the store keeps its type: no save is on its way without     *)
(* the envelope it was fixed to write, whatever crashes and fails.               *)
THEOREM StoreTypeCorrect == StoreSpec => []StoreTypeOK
<1>1. StoreIInv => StoreTypeOK
  BY DEF StoreIInv
<1> QED  BY <1>1, StoreInvariant, PTL

(* Whatever failed and wherever the process died, the file holds what the last   *)
(* completed save of every section wrote, and the running controllers hold what  *)
(* the file holds.  An import that was undone left the sections as it found      *)
(* them, but for a timer or academic section that did not parse; one that        *)
(* committed, or could not be rolled back, is there as a whole.                  *)
THEOREM NoSectionIsLost == StoreSpec => []SectionsKept
<1>1. StoreIInv => SectionsKept
  <2> SUFFICES ASSUME StoreIInv PROVE SectionsKept
    OBVIOUS
  <2>1. job = NoJob => job.kind # "save"
    BY DEF NoJob
  <2> QED  BY <2>1 DEF StoreIInv, FileHoldsSaved, MemoryHoldsSaved, ImportRemembers,
           SectionsKept
<1> QED  BY <1>1, StoreInvariant, PTL
----------------------------------------------------------------------------
(* The updater.  The feed numbers its releases upwards.                    *)
ReleasesInOrder ==
    \A i, j \in ReleaseIds : i < j => VersionBefore(Releases[i], Releases[j])
----------------------------------------------------------------------------
(* The comparison of versions never says of two that each is older.        *)

LEMMA OneFirstDifference ==
    ASSUME NEW s, NEW t, NEW i \in Nat \ {0}, NEW j \in Nat \ {0},
           FirstDifference(s, t, i), FirstDifference(t, s, j)
    PROVE  i = j
<1>1. CASE i < j
  <2>1. i \in 1..(j - 1)
    BY <1>1
  <2> QED
    BY <2>1 DEF FirstDifference
<1>2. CASE j < i
  <2>1. j \in 1..(i - 1)
    BY <1>2
  <2> QED
    BY <2>1 DEF FirstDifference
<1> QED
  BY <1>1, <1>2

LEMMA IdentifierAsymmetric ==
    ASSUME NEW x \in Identifier, NEW y \in Identifier
    PROVE  ~(IdentifierBefore(x, y) /\ IdentifierBefore(y, x))
<1>1. /\ x.numeric \in BOOLEAN /\ y.numeric \in BOOLEAN
      /\ x.rank \in Nat /\ y.rank \in Nat
  BY DEF Identifier
<1>2. CASE x.numeric = y.numeric
  <2>1. /\ IdentifierBefore(x, y) <=> x.rank < y.rank
        /\ IdentifierBefore(y, x) <=> y.rank < x.rank
    BY <1>2 DEF IdentifierBefore
  <2> QED
    BY <1>1, <2>1
<1>3. CASE x.numeric # y.numeric
  BY <1>1, <1>3 DEF IdentifierBefore
<1> QED
  BY <1>2, <1>3

LEMMA PreAsymmetric ==
    ASSUME NEW s \in Seq(Identifier), NEW t \in Seq(Identifier),
           PreBefore(s, t), PreBefore(t, s)
    PROVE  FALSE
<1>1. /\ Len(s) \in Nat /\ Len(t) \in Nat
      /\ DOMAIN s = 1..Len(s) /\ DOMAIN t = 1..Len(t)
      /\ \A i \in 1..Len(s) : s[i] \in Identifier
      /\ \A i \in 1..Len(t) : t[i] \in Identifier
  OBVIOUS
<1>2. ASSUME NEW i \in DOMAIN s, FirstDifference(s, t, i), IdentifierBefore(s[i], t[i])
      PROVE  FALSE
  <2>1. i \in Nat \ {0} /\ i \in DOMAIN t /\ s[i] # t[i]
    BY <1>1, <1>2 DEF FirstDifference
  <2>2. CASE \E j \in DOMAIN t : FirstDifference(t, s, j) /\ IdentifierBefore(t[j], s[j])
    <3>1. PICK j \in DOMAIN t : FirstDifference(t, s, j) /\ IdentifierBefore(t[j], s[j])
      BY <2>2
    <3>2. j = i
      BY <1>1, <1>2, <2>1, <3>1, OneFirstDifference
    <3> QED
      BY <1>1, <1>2, <2>1, <3>1, <3>2, IdentifierAsymmetric
  <2>3. CASE Len(t) < Len(s) /\ \A j \in DOMAIN t : t[j] = s[j]
    BY <2>1, <2>3
  <2> QED
    BY <2>2, <2>3 DEF PreBefore
<1>3. CASE Len(s) < Len(t) /\ \A i \in DOMAIN s : s[i] = t[i]
  <2>1. \A j : ~FirstDifference(t, s, j)
    BY <1>3 DEF FirstDifference
  <2> QED
    BY <1>1, <1>3, <2>1 DEF PreBefore
<1> QED
  BY <1>2, <1>3 DEF PreBefore

LEMMA VersionAsymmetric ==
    ASSUME NEW v \in Version, NEW w \in Version,
           VersionBefore(v, w), VersionBefore(w, v)
    PROVE  FALSE
<1>1. /\ v.core \in [1..3 -> Nat] /\ w.core \in [1..3 -> Nat]
      /\ v.pre \in Seq(Identifier) /\ w.pre \in Seq(Identifier)
  BY DEF Version
<1>2. ASSUME NEW i \in 1..3, FirstDifference(v.core, w.core, i), v.core[i] < w.core[i]
      PROVE  FALSE
  <2>1. v.core # w.core
    BY <1>2 DEF FirstDifference
  <2>2. PICK j \in 1..3 : FirstDifference(w.core, v.core, j) /\ w.core[j] < v.core[j]
    BY <2>1 DEF VersionBefore
  <2>3. i = j
    BY <1>2, <2>2, OneFirstDifference
  <2> QED
    BY <1>1, <1>2, <2>2, <2>3
<1>3. /\ v.core = w.core /\ v.pre # <<>> /\ (w.pre = <<>> \/ PreBefore(v.pre, w.pre))
  BY <1>2 DEF VersionBefore
<1>4. /\ w.pre # <<>> /\ (v.pre = <<>> \/ PreBefore(w.pre, v.pre))
  <2>1. \A j \in 1..3 : ~FirstDifference(w.core, v.core, j)
    BY <1>3 DEF FirstDifference
  <2> QED
    BY <2>1 DEF VersionBefore
<1> QED
  BY <1>1, <1>3, <1>4, PreAsymmetric

(* What the comparison calls newer was released later.                     *)
LEMMA NewerIsLater ==
    ASSUME ReleasesInOrder, running \in ReleaseIds, NEW r \in ReleaseIds, Newer(r)
    PROVE  r > running
<1>1. /\ Len(Releases) \in Nat
      /\ \A i \in ReleaseIds : Releases[i] \in Version /\ i \in Nat
  BY UpdaterAssumption DEF ReleaseIds
<1>2. r # running
  BY <1>1, VersionAsymmetric DEF Newer
<1>3. ~(r < running)
  BY <1>1, VersionAsymmetric DEF Newer, ReleasesInOrder
<1> QED
  BY <1>1, <1>2, <1>3
----------------------------------------------------------------------------
(* The types of the variables.                                             *)

Files == {"none", "torn", "whole"}

CheckThread ==
    [id : Nat, kind : {"check"}, step : {"fetch", "done"},
     release : 0..Len(Releases), result : {"none", "available", "upToDate", "failed"}]
DownloadThread ==
    [id : Nat, kind : {"download"},
     step : {"fetch", "create", "fill", "replace", "rename", "tidy", "done"},
     release : ReleaseIds, result : {"none", "failed", "staged"}]

(* A finished check has a result, and an available one names its release.  *)
Sound(t) ==
    t.kind = "check" /\ t.step = "done" =>
        /\ t.result # "none"
        /\ t.result = "available" => t.release \in ReleaseIds

Shown ==
    [state : {"idle", "upToDate", "failed"}]
        \cup [state : {"available", "downloading", "staged"}, release : ReleaseIds]

UpdaterTypeOK ==
    /\ running \in ReleaseIds
    /\ ui \in Shown
    /\ threads \subseteq CheckThread \cup DownloadThread
    /\ IsFiniteSet(threads)
    /\ \A t \in threads : Sound(t)
    /\ staged \in [ReleaseIds -> [part : Files, final : Files]]
    /\ kept \in ReleaseIds \cup {0}
    /\ caveats \subseteq {"overlap", "untidy"}
    /\ count \in [checks : 0..MaxChecks, faults : 0..MaxFaults]

(* The inductive invariant: while no two downloads have overlapped, there  *)
(* is one at most, it writes only what is newer than the process, and each *)
(* of its steps finds the files as the step before left them.              *)
Succeeded(t) == t.step = "done" /\ t.result = "staged"
AtTheFiles(t) ==
    t.step \in {"create", "fill", "replace", "rename", "tidy"} \/ Succeeded(t)
OthersGone(r) == \A s \in ReleaseIds \ {r} : staged[s] = NoFiles

OneDownload == \A s, t \in Downloads : s = t
FinalsWhole == \A r \in ReleaseIds : staged[r].final # "torn"
KeptWhole == kept # 0 => staged[kept].final = "whole"
FilesFollow(t) ==
    /\ AtTheFiles(t) => t.release > running
    /\ t.step \in {"replace", "rename"} => staged[t.release].part # "torn"
    /\ t.step = "tidy" => kept = t.release
    /\ t.step = "tidy" \/ Succeeded(t) => staged[t.release].final = "whole"
    /\ Succeeded(t) /\ "untidy" \notin caveats => OthersGone(t.release)
NoticeHolds ==
    ui.state = "staged" =>
        /\ Downloads = {}
        /\ staged[ui.release].final = "whole"
        /\ ui.release > running
        /\ "untidy" \notin caveats => OthersGone(ui.release)

Orderly ==
    /\ OneDownload
    /\ FinalsWhole
    /\ KeptWhole
    /\ \A t \in Downloads : FilesFollow(t)
    /\ NoticeHolds

UpdaterIInv == UpdaterTypeOK /\ ("overlap" \notin caveats => Orderly)
----------------------------------------------------------------------------
(* The threads: their ids, and what adding, changing and ending one does   *)
(* to the set of them and to the downloads among them.                     *)

LEMMA FreshIdTyped ==
    ASSUME IsFiniteSet(threads)
    PROVE  FreshId \in Nat
<1> DEFINE Ids == 1..(Cardinality(threads) + 1)
<1>1. Cardinality(threads) \in Nat
  BY FS_CardinalityType
<1>2. IsFiniteSet(Ids) /\ Cardinality(Ids) = Cardinality(threads) + 1
  BY <1>1, FS_Interval
<1>3. \E i \in Ids : \A t \in threads : t.id # i
  <2> SUFFICES ASSUME \A i \in Ids : \E t \in threads : t.id = i
               PROVE  FALSE
    OBVIOUS
  <2> DEFINE f == [i \in Ids |-> CHOOSE t \in threads : t.id = i]
  <2>1. \A i \in Ids : f[i] \in threads /\ f[i].id = i
    OBVIOUS
  <2>2. f \in [Ids -> threads]
    BY <2>1
  <2>3. Cardinality(Ids) > Cardinality(threads)
    BY <1>1, <1>2
  <2> HIDE DEF Ids, f
  <2>4. PICK i, j \in Ids : i # j /\ f[i] = f[j]
    BY <1>2, <2>2, <2>3, FS_PigeonHole
  <2> QED
    BY <2>1, <2>4
<1>4. FreshId \in Ids
  BY <1>3 DEF FreshId
<1> QED
  BY <1>1, <1>4

LEMMA AddingAThread ==
    ASSUME UpdaterTypeOK, NEW u \in CheckThread \cup DownloadThread, Sound(u),
           threads' = threads \cup {u}
    PROVE  /\ threads' \subseteq CheckThread \cup DownloadThread
           /\ IsFiniteSet(threads')
           /\ \A t \in threads' : Sound(t)
<1>1. IsFiniteSet(threads')
  BY FS_AddElement DEF UpdaterTypeOK
<1> QED
  BY <1>1 DEF UpdaterTypeOK

LEMMA EndingAThread ==
    ASSUME UpdaterTypeOK, NEW t, threads' = threads \ {t}
    PROVE  /\ threads' \subseteq CheckThread \cup DownloadThread
           /\ IsFiniteSet(threads')
           /\ \A s \in threads' : Sound(s)
<1>1. IsFiniteSet(threads')
  BY FS_Subset DEF UpdaterTypeOK
<1> QED
  BY <1>1 DEF UpdaterTypeOK

LEMMA ChangingAThread ==
    ASSUME UpdaterTypeOK, NEW t, NEW u \in CheckThread \cup DownloadThread, Sound(u),
           Becomes(t, u)
    PROVE  /\ threads' \subseteq CheckThread \cup DownloadThread
           /\ IsFiniteSet(threads')
           /\ \A s \in threads' : Sound(s)
<1>1. IsFiniteSet(threads \ {t})
  BY FS_Subset DEF UpdaterTypeOK
<1>2. IsFiniteSet(threads')
  BY <1>1, FS_AddElement DEF Becomes
<1> QED
  BY <1>2 DEF UpdaterTypeOK, Becomes

(* A check that goes on leaves the downloads alone; a download that goes   *)
(* on is the only one, if it was.                                          *)
LEMMA DownloadGoesOn ==
    ASSUME OneDownload, NEW t \in Downloads, NEW u, u.kind = "download", Becomes(t, u)
    PROVE  Downloads' = {u}
BY DEF OneDownload, Downloads, Becomes

LEMMA CheckGoesOn ==
    ASSUME NEW t, t.kind = "check", NEW u, u.kind = "check", Becomes(t, u)
    PROVE  Downloads' = Downloads
BY DEF Downloads, Becomes

(* A thread at the files is a download.                                    *)
LEMMA FilesAreForDownloads ==
    ASSUME UpdaterTypeOK, NEW t \in threads,
           t.step \in {"create", "fill", "replace", "rename", "tidy"}
    PROVE  t \in DownloadThread /\ t \in Downloads /\ t.release \in ReleaseIds
BY DEF UpdaterTypeOK, CheckThread, DownloadThread, Downloads

LEMMA NextDownload ==
    ASSUME NEW t \in DownloadThread
    PROVE  /\ \A step \in {"create", "fill", "replace", "rename", "tidy"} :
                 /\ Step(t, step) \in DownloadThread
                 /\ Sound(Step(t, step))
                 /\ Step(t, step).kind = "download"
                 /\ Step(t, step).step = step
                 /\ Step(t, step).release = t.release
           /\ \A result \in {"failed", "staged"} :
                 /\ Outcome(t, result) \in DownloadThread
                 /\ Sound(Outcome(t, result))
                 /\ Outcome(t, result).kind = "download"
                 /\ Outcome(t, result).step = "done"
                 /\ Outcome(t, result).result = result
                 /\ Outcome(t, result).release = t.release
BY DEF DownloadThread, Step, Outcome, Sound
----------------------------------------------------------------------------
(* Type correctness, by action.                                            *)

LEMMA InitTyped == UpdaterInit => UpdaterTypeOK
<1> SUFFICES ASSUME UpdaterInit PROVE UpdaterTypeOK
  OBVIOUS
<1>1. IsFiniteSet(threads)
  BY FS_EmptySet DEF UpdaterInit
<1>2. NoFiles \in [part : Files, final : Files]
  BY DEF NoFiles, Files
<1>3. ui \in Shown
  BY DEF UpdaterInit, Shown, Idle
<1>4. count \in [checks : 0..MaxChecks, faults : 0..MaxFaults]
  BY UpdaterAssumption DEF UpdaterInit
<1> QED
  BY <1>1, <1>2, <1>3, <1>4 DEF UpdaterInit, UpdaterTypeOK

LEMMA OneFaultTyped ==
    ASSUME UpdaterTypeOK, CanFault
    PROVE  OneFault \in [checks : 0..MaxChecks, faults : 0..MaxFaults]
BY UpdaterAssumption DEF UpdaterTypeOK, CanFault, OneFault

LEMMA StartCheckTyped == UpdaterTypeOK /\ StartCheck => UpdaterTypeOK'
<1> SUFFICES ASSUME UpdaterTypeOK, StartCheck PROVE UpdaterTypeOK'
  OBVIOUS
<1> DEFINE u == [id |-> FreshId, kind |-> "check", step |-> "fetch",
                 release |-> 0, result |-> "none"]
<1>1. u \in CheckThread /\ Sound(u)
  <2>1. FreshId \in Nat
    BY FreshIdTyped DEF UpdaterTypeOK
  <2>2. 0 \in 0..Len(Releases)
    BY UpdaterAssumption
  <2> QED
    BY <2>1, <2>2 DEF CheckThread, Sound
<1>2. threads' = threads \cup {u}
  BY DEF StartCheck
<1> HIDE DEF u
<1>3. /\ threads' \subseteq CheckThread \cup DownloadThread
      /\ IsFiniteSet(threads')
      /\ \A t \in threads' : Sound(t)
  BY <1>1, <1>2, AddingAThread
<1>4. count' \in [checks : 0..MaxChecks, faults : 0..MaxFaults]
  BY UpdaterAssumption DEF StartCheck, UpdaterTypeOK
<1> QED
  BY <1>3, <1>4 DEF StartCheck, UpdaterTypeOK, Sound

LEMMA StartDownloadTyped == UpdaterTypeOK /\ StartDownload => UpdaterTypeOK'
<1> SUFFICES ASSUME UpdaterTypeOK, StartDownload PROVE UpdaterTypeOK'
  OBVIOUS
<1> DEFINE u == [id |-> FreshId, kind |-> "download", step |-> "fetch",
                 release |-> ui.release, result |-> "none"]
<1>1. ui.release \in ReleaseIds
  BY DEF StartDownload, UpdaterTypeOK, Shown
<1>2. u \in DownloadThread /\ Sound(u)
  <2>1. FreshId \in Nat
    BY FreshIdTyped DEF UpdaterTypeOK
  <2> QED
    BY <1>1, <2>1 DEF DownloadThread, Sound
<1>3. threads' = threads \cup {u}
  BY DEF StartDownload
<1> HIDE DEF u
<1>4. /\ threads' \subseteq CheckThread \cup DownloadThread
      /\ IsFiniteSet(threads')
      /\ \A t \in threads' : Sound(t)
  BY <1>2, <1>3, AddingAThread
<1>5. ui' \in Shown
  BY <1>1 DEF StartDownload, Shown
<1>6. caveats' \subseteq {"overlap", "untidy"}
  BY DEF StartDownload, UpdaterTypeOK
<1> QED
  BY <1>4, <1>5, <1>6 DEF StartDownload, UpdaterTypeOK, Sound

LEMMA CheckTyped ==
    ASSUME UpdaterTypeOK, NEW t \in threads, Check(t)
    PROVE  UpdaterTypeOK'
<1>1. t \in CheckThread
  BY DEF Check, UpdaterTypeOK, DownloadThread
<1>2. /\ threads' \subseteq CheckThread \cup DownloadThread
      /\ IsFiniteSet(threads')
      /\ \A s \in threads' : Sound(s)
  <2>1. CASE \E r \in ReleaseIds :
               Becomes(t, [Outcome(t, IF Newer(r) THEN "available" ELSE "upToDate")
                             EXCEPT !.release = r])
    <3>1. PICK r \in ReleaseIds :
               Becomes(t, [Outcome(t, IF Newer(r) THEN "available" ELSE "upToDate")
                             EXCEPT !.release = r])
      BY <2>1
    <3> DEFINE result == IF Newer(r) THEN "available" ELSE "upToDate"
               u == [Outcome(t, result) EXCEPT !.release = r]
    <3>2. result \in {"available", "upToDate"}
      OBVIOUS
    <3>3. r \in 0..Len(Releases)
      BY UpdaterAssumption DEF ReleaseIds
    <3> HIDE DEF result
    <3>4. u \in CheckThread /\ Sound(u)
      BY <1>1, <3>2, <3>3 DEF CheckThread, Outcome, Sound
    <3>5. Becomes(t, u)
      BY <3>1 DEF result
    <3> HIDE DEF u
    <3> QED
      BY <3>4, <3>5, ChangingAThread
  <2>2. CASE Becomes(t, Outcome(t, "failed"))
    <3>1. Outcome(t, "failed") \in CheckThread /\ Sound(Outcome(t, "failed"))
      BY <1>1 DEF CheckThread, Outcome, Sound
    <3> QED
      BY <2>2, <3>1, ChangingAThread
  <2> QED
    BY <2>1, <2>2 DEF Check
<1>3. count' \in [checks : 0..MaxChecks, faults : 0..MaxFaults]
  BY OneFaultTyped DEF Check, UpdaterTypeOK
<1> QED
  BY <1>2, <1>3 DEF Check, UpdaterTypeOK, Sound

LEMMA OnCheckFinishedTyped ==
    ASSUME UpdaterTypeOK, NEW t \in threads, OnCheckFinished(t)
    PROVE  UpdaterTypeOK'
<1>1. t \in CheckThread /\ Sound(t)
  BY DEF OnCheckFinished, UpdaterTypeOK, DownloadThread
<1>2. ui' \in Shown
  BY <1>1 DEF OnCheckFinished, Shown, CheckThread, Sound
<1>3. /\ threads' \subseteq CheckThread \cup DownloadThread
      /\ IsFiniteSet(threads')
      /\ \A s \in threads' : Sound(s)
  BY EndingAThread DEF OnCheckFinished
<1> QED
  BY <1>2, <1>3 DEF OnCheckFinished, UpdaterTypeOK, Sound

LEMMA OnDownloadFinishedTyped ==
    ASSUME UpdaterTypeOK, NEW t \in threads, OnDownloadFinished(t)
    PROVE  UpdaterTypeOK'
<1>1. t \in DownloadThread
  BY DEF OnDownloadFinished, UpdaterTypeOK, CheckThread
<1>2. ui' \in Shown
  BY <1>1 DEF OnDownloadFinished, Shown, DownloadThread
<1>3. /\ threads' \subseteq CheckThread \cup DownloadThread
      /\ IsFiniteSet(threads')
      /\ \A s \in threads' : Sound(s)
  BY EndingAThread DEF OnDownloadFinished
<1> QED
  BY <1>2, <1>3 DEF OnDownloadFinished, UpdaterTypeOK, Sound

LEMMA FetchTyped ==
    ASSUME UpdaterTypeOK, NEW t \in threads, Fetch(t)
    PROVE  UpdaterTypeOK'
<1>1. t \in DownloadThread
  BY DEF Fetch, UpdaterTypeOK, CheckThread
<1>2. /\ threads' \subseteq CheckThread \cup DownloadThread
      /\ IsFiniteSet(threads')
      /\ \A s \in threads' : Sound(s)
  BY <1>1, NextDownload, ChangingAThread DEF Fetch
<1>3. count' \in [checks : 0..MaxChecks, faults : 0..MaxFaults]
  BY OneFaultTyped DEF Fetch, UpdaterTypeOK
<1> QED
  BY <1>2, <1>3 DEF Fetch, UpdaterTypeOK, Sound

LEMMA CreatePartTyped ==
    ASSUME UpdaterTypeOK, NEW t \in threads, CreatePart(t)
    PROVE  UpdaterTypeOK'
<1>1. t \in DownloadThread /\ t.release \in ReleaseIds
  BY FilesAreForDownloads DEF CreatePart
<1>2. /\ threads' \subseteq CheckThread \cup DownloadThread
      /\ IsFiniteSet(threads')
      /\ \A s \in threads' : Sound(s)
  BY <1>1, NextDownload, ChangingAThread DEF CreatePart
<1>3. staged' \in [ReleaseIds -> [part : Files, final : Files]]
  BY <1>1 DEF CreatePart, UpdaterTypeOK, Files
<1> QED
  BY <1>2, <1>3 DEF CreatePart, UpdaterTypeOK, Sound

LEMMA FillPartTyped ==
    ASSUME UpdaterTypeOK, NEW t \in threads, FillPart(t)
    PROVE  UpdaterTypeOK'
<1>1. t \in DownloadThread /\ t.release \in ReleaseIds
  BY FilesAreForDownloads DEF FillPart
<1>2. /\ threads' \subseteq CheckThread \cup DownloadThread
      /\ IsFiniteSet(threads')
      /\ \A s \in threads' : Sound(s)
  BY <1>1, NextDownload, ChangingAThread DEF FillPart
<1>3. PICK part \in Files : staged' = [staged EXCEPT ![t.release].part = part]
  BY DEF FillPart, Files
<1>4. staged' \in [ReleaseIds -> [part : Files, final : Files]]
  BY <1>1, <1>3 DEF UpdaterTypeOK
<1> QED
  BY <1>2, <1>4 DEF FillPart, UpdaterTypeOK, Sound

LEMMA RemoveFinalTyped ==
    ASSUME UpdaterTypeOK, NEW t \in threads, RemoveFinal(t)
    PROVE  UpdaterTypeOK'
<1>1. t \in DownloadThread /\ t.release \in ReleaseIds
  BY FilesAreForDownloads DEF RemoveFinal
<1>2. /\ threads' \subseteq CheckThread \cup DownloadThread
      /\ IsFiniteSet(threads')
      /\ \A s \in threads' : Sound(s)
  BY <1>1, NextDownload, ChangingAThread DEF RemoveFinal
<1>3. staged' \in [ReleaseIds -> [part : Files, final : Files]]
  BY <1>1 DEF RemoveFinal, UpdaterTypeOK, Files
<1> QED
  BY <1>2, <1>3 DEF RemoveFinal, UpdaterTypeOK, Sound

LEMMA FinalizeTyped ==
    ASSUME UpdaterTypeOK, NEW t \in threads, Finalize(t)
    PROVE  UpdaterTypeOK'
<1>1. t \in DownloadThread /\ t.release \in ReleaseIds
  BY FilesAreForDownloads DEF Finalize
<1>2. /\ threads' \subseteq CheckThread \cup DownloadThread
      /\ IsFiniteSet(threads')
      /\ \A s \in threads' : Sound(s)
  BY <1>1, NextDownload, ChangingAThread DEF Finalize
<1>3. staged' \in [ReleaseIds -> [part : Files, final : Files]]
  BY <1>1 DEF Finalize, UpdaterTypeOK, Files
<1>4. kept' \in ReleaseIds \cup {0}
  BY <1>1, FilesAreForDownloads DEF Finalize, UpdaterTypeOK
<1> QED
  BY <1>2, <1>3, <1>4 DEF Finalize, UpdaterTypeOK, Sound

LEMMA CleanupOtherVersionsTyped ==
    ASSUME UpdaterTypeOK, NEW t \in threads, CleanupOtherVersions(t)
    PROVE  UpdaterTypeOK'
<1>1. t \in DownloadThread /\ t.release \in ReleaseIds
  BY FilesAreForDownloads DEF CleanupOtherVersions
<1>2. /\ threads' \subseteq CheckThread \cup DownloadThread
      /\ IsFiniteSet(threads')
      /\ \A s \in threads' : Sound(s)
  BY <1>1, NextDownload, ChangingAThread DEF CleanupOtherVersions
<1>3. PICK spared \in IF CanFault THEN {{}} \cup {{r} : r \in ReleaseIds \ {t.release}}
                      ELSE {{}} :
         /\ staged' = [r \in ReleaseIds |->
                       IF r \in spared \cup {t.release} THEN staged[r] ELSE NoFiles]
         /\ caveats' = caveats \cup (IF spared = {} THEN {} ELSE {"untidy"})
         /\ count' = IF spared = {} THEN count ELSE OneFault
  BY DEF CleanupOtherVersions
<1>4. staged' \in [ReleaseIds -> [part : Files, final : Files]]
  BY <1>3 DEF UpdaterTypeOK, NoFiles, Files
<1>5. caveats' \subseteq {"overlap", "untidy"}
  BY <1>3 DEF UpdaterTypeOK
<1>6. count' \in [checks : 0..MaxChecks, faults : 0..MaxFaults]
  BY <1>3, OneFaultTyped DEF UpdaterTypeOK
<1> QED
  BY <1>2, <1>4, <1>5, <1>6 DEF CleanupOtherVersions, UpdaterTypeOK, Sound

LEMMA StagingFailsTyped ==
    ASSUME UpdaterTypeOK, NEW t \in threads, StagingFails(t)
    PROVE  UpdaterTypeOK'
<1>1. t \in DownloadThread
  BY FilesAreForDownloads DEF StagingFails
<1>2. /\ threads' \subseteq CheckThread \cup DownloadThread
      /\ IsFiniteSet(threads')
      /\ \A s \in threads' : Sound(s)
  BY <1>1, NextDownload, ChangingAThread DEF StagingFails
<1>3. count' \in [checks : 0..MaxChecks, faults : 0..MaxFaults]
  BY OneFaultTyped DEF StagingFails
<1> QED
  BY <1>2, <1>3 DEF StagingFails, UpdaterTypeOK, Sound

LEMMA RelaunchTyped == UpdaterTypeOK /\ Relaunch => UpdaterTypeOK'
<1> SUFFICES ASSUME UpdaterTypeOK, Relaunch PROVE UpdaterTypeOK'
  OBVIOUS
<1>1. IsFiniteSet(threads')
  BY FS_EmptySet DEF Relaunch
<1>2. ui' \in Shown
  BY DEF Relaunch, Shown, Idle
<1>3. count' \in [checks : 0..MaxChecks, faults : 0..MaxFaults]
  BY OneFaultTyped DEF Relaunch
<1> QED
  BY <1>1, <1>2, <1>3 DEF Relaunch, UpdaterTypeOK, Sound

LEMMA StepTyped == UpdaterTypeOK /\ [UpdaterNext]_updaterVars => UpdaterTypeOK'
<1> SUFFICES ASSUME UpdaterTypeOK, [UpdaterNext]_updaterVars PROVE UpdaterTypeOK'
  OBVIOUS
<1>1. CASE UNCHANGED updaterVars
  BY <1>1 DEF updaterVars, UpdaterTypeOK, Sound
<1>2. CASE \E t \in threads :
              \/ Check(t) \/ OnCheckFinished(t) \/ Fetch(t) \/ CreatePart(t)
              \/ FillPart(t) \/ RemoveFinal(t) \/ Finalize(t)
              \/ CleanupOtherVersions(t) \/ StagingFails(t) \/ OnDownloadFinished(t)
  BY <1>2, CheckTyped, OnCheckFinishedTyped, FetchTyped, CreatePartTyped, FillPartTyped,
     RemoveFinalTyped, FinalizeTyped, CleanupOtherVersionsTyped, StagingFailsTyped,
     OnDownloadFinishedTyped
<1> QED
  BY <1>1, <1>2, StartCheckTyped, StartDownloadTyped, RelaunchTyped DEF UpdaterNext

(* Every variable of the updater keeps its type, for any list of releases: *)
(* a notice of an update names one, and no check ends without a result.    *)
THEOREM UpdaterTypeCorrect == UpdaterSpec => []UpdaterTypeOK
<1> QED
  BY InitTyped, StepTyped, PTL DEF UpdaterSpec
----------------------------------------------------------------------------
(* The order of the files, by action.  A step that overlaps no downloads   *)
(* has not overlapped any before it.                                       *)

LEMMA InitOrderly == UpdaterInit => UpdaterIInv
<1> SUFFICES ASSUME UpdaterInit PROVE UpdaterIInv
  OBVIOUS
<1>1. Downloads = {}
  BY DEF UpdaterInit, Downloads
<1>2. \A r \in ReleaseIds : staged[r].final = "none"
  BY DEF UpdaterInit, NoFiles
<1>3. ui.state # "staged"
  BY DEF UpdaterInit, Idle
<1>4. KeptWhole
  BY DEF UpdaterInit, KeptWhole
<1> QED
  BY <1>1, <1>2, <1>3, <1>4, InitTyped
     DEF UpdaterIInv, Orderly, OneDownload, FinalsWhole, NoticeHolds

(* A step that leaves the files, the process and the downloads alone, and  *)
(* shows nothing as staged that was not, keeps their order.                *)
LEMMA NothingMoves ==
    ASSUME Orderly, Downloads' = Downloads, UNCHANGED <<running, staged, kept, caveats>>,
           ui' = ui \/ ui'.state # "staged"
    PROVE  Orderly'
<1>1. OneDownload' /\ FinalsWhole' /\ KeptWhole'
  BY DEF Orderly, OneDownload, FinalsWhole, KeptWhole
<1>2. \A t : FilesFollow(t) => FilesFollow(t)'
  BY DEF FilesFollow, AtTheFiles, Succeeded, OthersGone
<1>3. NoticeHolds'
  BY DEF Orderly, NoticeHolds, OthersGone
<1> QED
  BY <1>1, <1>2, <1>3 DEF Orderly

(* A step of the only download, while nothing is shown as staged: what is  *)
(* left to show is that the finals stay whole and the files follow it.     *)
LEMMA DownloadMoves ==
    ASSUME Orderly, NEW t \in Downloads, NEW u, u.kind = "download", Becomes(t, u),
           UNCHANGED ui, FinalsWhole', KeptWhole', FilesFollow(u)'
    PROVE  Orderly'
<1>1. Downloads' = {u}
  BY DownloadGoesOn DEF Orderly
<1>2. ui'.state # "staged"
  BY DEF Orderly, NoticeHolds
<1> QED
  BY <1>1, <1>2 DEF Orderly, OneDownload, NoticeHolds

LEMMA StartCheckOrderly ==
    ASSUME UpdaterTypeOK, Orderly, StartCheck
    PROVE  Orderly'
<1>1. Downloads' = Downloads
  BY DEF StartCheck, Downloads
<1> QED
  BY <1>1, NothingMoves DEF StartCheck

LEMMA CheckOrderly ==
    ASSUME UpdaterTypeOK, Orderly, NEW t \in threads, Check(t)
    PROVE  Orderly'
<1>1. t \in CheckThread
  BY DEF Check, UpdaterTypeOK, DownloadThread
<1>2. \A result : Outcome(t, result) \in [id : Nat, kind : {"check"}, step : {"done"},
                                          release : 0..Len(Releases), result : {result}]
  BY <1>1 DEF CheckThread, Outcome
<1>3. \A result, r : [Outcome(t, result) EXCEPT !.release = r].kind = "check"
  BY <1>2
<1>4. Downloads' = Downloads
  BY <1>1, <1>2, <1>3, CheckGoesOn DEF Check, CheckThread
<1> QED
  BY <1>4, NothingMoves DEF Check

LEMMA OnCheckFinishedOrderly ==
    ASSUME UpdaterTypeOK, Orderly, NEW t \in threads, OnCheckFinished(t)
    PROVE  Orderly'
<1>1. Downloads' = Downloads
  BY DEF OnCheckFinished, Downloads
<1>2. t.result \in {"none", "available", "upToDate", "failed"}
  BY DEF OnCheckFinished, UpdaterTypeOK, CheckThread, DownloadThread
<1>3. ui'.state # "staged"
  BY <1>2 DEF OnCheckFinished
<1> QED
  BY <1>1, <1>3, NothingMoves DEF OnCheckFinished

LEMMA StartDownloadOrderly ==
    ASSUME UpdaterTypeOK, Orderly, StartDownload, "overlap" \notin caveats'
    PROVE  Orderly'
<1>1. PICK u : /\ u.kind = "download" /\ ~AtTheFiles(u) /\ u.step = "fetch"
               /\ threads' = threads \cup {u}
  BY DEF StartDownload, AtTheFiles, Succeeded
<1>2. Downloads = {}
  BY DEF StartDownload
<1>3. Downloads' = {u}
  BY <1>1, <1>2 DEF Downloads
<1>4. FilesFollow(u)'
  BY <1>1 DEF FilesFollow, AtTheFiles, Succeeded
<1>5. ui'.state # "staged"
  BY DEF StartDownload
<1>6. FinalsWhole' /\ KeptWhole'
  BY DEF Orderly, FinalsWhole, KeptWhole, StartDownload
<1> QED
  BY <1>3, <1>4, <1>5, <1>6 DEF Orderly, OneDownload, NoticeHolds

LEMMA FetchOrderly ==
    ASSUME ReleasesInOrder, UpdaterTypeOK, Orderly, NEW t \in threads, Fetch(t)
    PROVE  Orderly'
<1>1. t \in DownloadThread /\ t \in Downloads
  BY DEF Fetch, UpdaterTypeOK, CheckThread, Downloads
<1>2. t.release \in ReleaseIds
  BY <1>1 DEF DownloadThread
<1>3. FinalsWhole' /\ KeptWhole'
  BY DEF Fetch, Orderly, FinalsWhole, KeptWhole
<1>4. CASE Newer(t.release) /\ Becomes(t, Step(t, "create"))
  <2>1. t.release > running
    BY <1>2, <1>4, NewerIsLater DEF UpdaterTypeOK
  <2>2. FilesFollow(Step(t, "create"))'
    BY <1>1, <2>1, NextDownload DEF FilesFollow, Succeeded, Fetch
  <2> QED
    BY <1>1, <1>3, <1>4, <2>2, DownloadMoves, NextDownload DEF Fetch
<1>5. CASE Becomes(t, Outcome(t, "failed"))
  <2>1. FilesFollow(Outcome(t, "failed"))'
    BY <1>1, NextDownload DEF FilesFollow, AtTheFiles, Succeeded
  <2> QED
    BY <1>1, <1>3, <1>5, <2>1, DownloadMoves, NextDownload DEF Fetch
<1> QED
  BY <1>4, <1>5 DEF Fetch

LEMMA CreatePartOrderly ==
    ASSUME UpdaterTypeOK, Orderly, NEW t \in threads, CreatePart(t)
    PROVE  Orderly'
<1>1. t \in DownloadThread /\ t \in Downloads /\ t.release \in ReleaseIds
  BY FilesAreForDownloads DEF CreatePart
<1>2. FilesFollow(t) /\ t.release > running
  BY <1>1 DEF Orderly, FilesFollow, AtTheFiles, CreatePart
<1>3. FinalsWhole' /\ KeptWhole'
  BY <1>1 DEF CreatePart, Orderly, FinalsWhole, KeptWhole, UpdaterTypeOK
<1>4. FilesFollow(Step(t, "fill"))'
  BY <1>1, <1>2, NextDownload DEF FilesFollow, Succeeded, CreatePart
<1> QED
  BY <1>1, <1>3, <1>4, DownloadMoves, NextDownload DEF CreatePart

LEMMA FillPartOrderly ==
    ASSUME UpdaterTypeOK, "overlap" \notin caveats, Orderly, NEW t \in threads, FillPart(t)
    PROVE  Orderly'
<1>1. t \in DownloadThread /\ t \in Downloads /\ t.release \in ReleaseIds
  BY FilesAreForDownloads DEF FillPart
<1>2. t.release > running
  BY <1>1 DEF Orderly, FilesFollow, AtTheFiles, FillPart
<1>3. PICK part \in {"none", "whole"} : staged' = [staged EXCEPT ![t.release].part = part]
  BY DEF FillPart
<1>4. FinalsWhole' /\ staged'[t.release].part # "torn"
  BY <1>1, <1>3 DEF Orderly, FinalsWhole, UpdaterTypeOK
<1>6. KeptWhole'
  BY <1>1, <1>3 DEF Orderly, KeptWhole, UpdaterTypeOK, FillPart
<1>5. FilesFollow(Step(t, "replace"))'
  BY <1>1, <1>2, <1>4, NextDownload DEF FilesFollow, Succeeded, FillPart
<1> QED
  BY <1>1, <1>4, <1>5, <1>6, DownloadMoves, NextDownload DEF FillPart

LEMMA RemoveFinalOrderly ==
    ASSUME UpdaterTypeOK, Orderly, NEW t \in threads, RemoveFinal(t)
    PROVE  Orderly'
<1>1. t \in DownloadThread /\ t \in Downloads /\ t.release \in ReleaseIds
  BY FilesAreForDownloads DEF RemoveFinal
<1>2. t.release > running /\ staged[t.release].part # "torn"
  BY <1>1 DEF Orderly, FilesFollow, AtTheFiles, RemoveFinal
<1>3. FinalsWhole' /\ KeptWhole'
      /\ staged'[t.release].part = staged[t.release].part
  BY <1>1 DEF Orderly, FinalsWhole, KeptWhole, UpdaterTypeOK, RemoveFinal
<1>4. FilesFollow(Step(t, "rename"))'
  BY <1>1, <1>2, <1>3, NextDownload DEF FilesFollow, Succeeded, RemoveFinal
<1> QED
  BY <1>1, <1>3, <1>4, DownloadMoves, NextDownload DEF RemoveFinal

LEMMA FinalizeOrderly ==
    ASSUME UpdaterTypeOK, Orderly, NEW t \in threads, Finalize(t)
    PROVE  Orderly'
<1>1. t \in DownloadThread /\ t \in Downloads /\ t.release \in ReleaseIds
  BY FilesAreForDownloads DEF Finalize
<1>2. t.release > running /\ staged[t.release].part # "torn"
  BY <1>1 DEF Orderly, FilesFollow, AtTheFiles, Finalize
<1>3. CASE staged[t.release].part = "none"
  <2>1. Becomes(t, Outcome(t, "failed")) /\ UNCHANGED <<staged, kept>>
    BY <1>3 DEF Finalize
  <2>2. FinalsWhole' /\ KeptWhole'
    BY <2>1 DEF Orderly, FinalsWhole, KeptWhole
  <2>3. FilesFollow(Outcome(t, "failed"))'
    BY <1>1, NextDownload DEF FilesFollow, AtTheFiles, Succeeded
  <2> QED
    BY <1>1, <2>1, <2>2, <2>3, DownloadMoves, NextDownload DEF Finalize
<1>4. CASE staged[t.release].part # "none"
  <2>1. Becomes(t, Step(t, "tidy"))
        /\ staged' = [staged EXCEPT ![t.release] =
                        [part |-> "none", final |-> staged[t.release].part]]
        /\ kept' = t.release
    BY <1>4 DEF Finalize
  <2>2. staged[t.release].part = "whole"
    BY <1>1, <1>2, <1>4 DEF UpdaterTypeOK, Files
  <2>3. FinalsWhole' /\ staged'[t.release].final = "whole"
    BY <1>1, <2>1, <2>2 DEF Orderly, FinalsWhole, UpdaterTypeOK
  <2>5. KeptWhole'
    BY <2>1, <2>3 DEF KeptWhole
  <2>4. FilesFollow(Step(t, "tidy"))'
    BY <1>1, <1>2, <2>1, <2>3, NextDownload DEF FilesFollow, Succeeded, Finalize
  <2> QED
    BY <1>1, <2>1, <2>3, <2>4, <2>5, DownloadMoves, NextDownload DEF Finalize
<1> QED
  BY <1>3, <1>4

LEMMA CleanupOtherVersionsOrderly ==
    ASSUME UpdaterTypeOK, Orderly, NEW t \in threads, CleanupOtherVersions(t)
    PROVE  Orderly'
<1>1. t \in DownloadThread /\ t \in Downloads /\ t.release \in ReleaseIds
  BY FilesAreForDownloads DEF CleanupOtherVersions
<1>2. t.release > running /\ staged[t.release].final = "whole" /\ kept = t.release
  BY <1>1 DEF Orderly, FilesFollow, AtTheFiles, CleanupOtherVersions
<1>3. PICK spared \in IF CanFault THEN {{}} \cup {{r} : r \in ReleaseIds \ {t.release}}
                      ELSE {{}} :
         /\ staged' = [r \in ReleaseIds |->
                       IF r \in spared \cup {t.release} THEN staged[r] ELSE NoFiles]
         /\ caveats' = caveats \cup (IF spared = {} THEN {} ELSE {"untidy"})
  BY DEF CleanupOtherVersions
<1>4. FinalsWhole' /\ staged'[t.release].final = "whole"
  BY <1>1, <1>2, <1>3 DEF Orderly, FinalsWhole, NoFiles
<1>7. KeptWhole'
  BY <1>2, <1>4 DEF CleanupOtherVersions, KeptWhole
<1>5. "untidy" \notin caveats' => OthersGone(t.release)'
  BY <1>1, <1>3 DEF OthersGone
<1>6. FilesFollow(Outcome(t, "staged"))'
  <2>1. OthersGone(Outcome(t, "staged").release)' <=> OthersGone(t.release)'
    BY <1>1, NextDownload DEF OthersGone
  <2> QED
    BY <1>1, <1>2, <1>4, <1>5, <2>1, NextDownload DEF FilesFollow, CleanupOtherVersions
<1> QED
  BY <1>1, <1>4, <1>6, <1>7, DownloadMoves, NextDownload DEF CleanupOtherVersions

LEMMA StagingFailsOrderly ==
    ASSUME UpdaterTypeOK, Orderly, NEW t \in threads, StagingFails(t)
    PROVE  Orderly'
<1>1. t \in DownloadThread /\ t \in Downloads
  BY FilesAreForDownloads DEF StagingFails
<1>2. FinalsWhole' /\ KeptWhole'
  BY DEF StagingFails, Orderly, FinalsWhole, KeptWhole
<1>3. FilesFollow(Outcome(t, "failed"))'
  BY <1>1, NextDownload DEF FilesFollow, AtTheFiles, Succeeded
<1> QED
  BY <1>1, <1>2, <1>3, DownloadMoves, NextDownload DEF StagingFails

LEMMA OnDownloadFinishedOrderly ==
    ASSUME UpdaterTypeOK, Orderly, NEW t \in threads, OnDownloadFinished(t)
    PROVE  Orderly'
<1>1. t \in Downloads
  BY DEF OnDownloadFinished, Downloads
<1>2. Downloads' = {}
  BY <1>1 DEF OnDownloadFinished, Orderly, OneDownload, Downloads
<1>3. FinalsWhole' /\ KeptWhole'
  BY DEF OnDownloadFinished, Orderly, FinalsWhole, KeptWhole
<1>4. NoticeHolds'
  <2>1. CASE t.result = "staged"
    <3>1. /\ Succeeded(t) /\ AtTheFiles(t) /\ FilesFollow(t)
          /\ ui' = [state |-> "staged", release |-> t.release]
      BY <1>1, <2>1 DEF OnDownloadFinished, Succeeded, AtTheFiles, Orderly
    <3>2. /\ t.release > running /\ staged[t.release].final = "whole"
          /\ "untidy" \notin caveats => OthersGone(t.release)
      BY <3>1 DEF FilesFollow
    <3> QED
      BY <1>2, <3>1, <3>2 DEF NoticeHolds, OthersGone, OnDownloadFinished
  <2>2. CASE t.result # "staged"
    BY <2>2 DEF OnDownloadFinished, NoticeHolds
  <2> QED
    BY <2>1, <2>2
<1> QED
  BY <1>2, <1>3, <1>4 DEF Orderly, OneDownload

LEMMA RelaunchOrderly ==
    ASSUME UpdaterTypeOK, Orderly, Relaunch
    PROVE  Orderly'
<1>1. Downloads' = {}
  BY DEF Relaunch, Downloads
<1>2. ui'.state # "staged"
  BY DEF Relaunch, Idle
<1>3. FinalsWhole' /\ KeptWhole'
  BY DEF Relaunch, Orderly, FinalsWhole, KeptWhole
<1> QED
  BY <1>1, <1>2, <1>3 DEF Orderly, OneDownload, NoticeHolds

LEMMA StepOrderly ==
    ReleasesInOrder /\ UpdaterIInv /\ [UpdaterNext]_updaterVars => UpdaterIInv'
<1> SUFFICES ASSUME ReleasesInOrder, UpdaterIInv, [UpdaterNext]_updaterVars,
                    "overlap" \notin caveats'
             PROVE  Orderly'
  BY StepTyped DEF UpdaterIInv
<1>1. CASE UNCHANGED updaterVars
  <2>1. Downloads' = Downloads /\ Orderly
    BY <1>1 DEF updaterVars, Downloads, UpdaterIInv
  <2> QED
    BY <1>1, <2>1, NothingMoves DEF updaterVars
<1>2. CASE UpdaterNext
  <2>1. "overlap" \notin caveats
    BY <1>2
       DEF UpdaterNext, StartCheck, Check, OnCheckFinished, StartDownload, Fetch, CreatePart,
           FillPart, RemoveFinal, Finalize, CleanupOtherVersions, StagingFails,
           OnDownloadFinished, Relaunch
  <2>2. UpdaterTypeOK /\ Orderly
    BY <2>1 DEF UpdaterIInv
  <2>3. CASE \E t \in threads :
                \/ Check(t) \/ OnCheckFinished(t) \/ Fetch(t) \/ CreatePart(t)
                \/ FillPart(t) \/ RemoveFinal(t) \/ Finalize(t)
                \/ CleanupOtherVersions(t) \/ StagingFails(t) \/ OnDownloadFinished(t)
    BY <2>1, <2>2, <2>3, CheckOrderly, OnCheckFinishedOrderly, FetchOrderly,
       CreatePartOrderly, FillPartOrderly, RemoveFinalOrderly, FinalizeOrderly,
       CleanupOtherVersionsOrderly, StagingFailsOrderly, OnDownloadFinishedOrderly
  <2> QED
    BY <1>2, <2>2, <2>3, StartCheckOrderly, StartDownloadOrderly, RelaunchOrderly
       DEF UpdaterNext
<1> QED
  BY <1>1, <1>2

(* What the notice "downloaded" says holds, and a release once staged stays *)
(* until another is in its place or it is itself downloaded again, for      *)
(* every list of releases in the order of their versions, however checks,   *)
(* downloads, failures and restarts interleave, as long as no two downloads *)
(* have overlapped.                                                         *)
THEOREM StagedStaysWhole ==
    ASSUME ReleasesInOrder
    PROVE  UpdaterSpec => []StagedIsWhole
<1>1. UpdaterIInv /\ [UpdaterNext]_updaterVars => UpdaterIInv'
  BY StepOrderly
<1>2. UpdaterIInv => StagedIsWhole
  BY DEF UpdaterIInv, Orderly, FinalsWhole, KeptWhole, NoticeHolds, OthersGone,
     StagedIsWhole
<1> QED
  BY InitOrderly, <1>1, <1>2, PTL DEF UpdaterSpec
=============================================================================
