---------------------------- MODULE Collection ----------------------------
(***************************************************************************)
(* How a pass of one AddonCompliance collects its Lua validations: it      *)
(* reads one reference after the other, a GitRepository by fetching its    *)
(* artifact into a temporary directory, and puts the sections of each in   *)
(* one map, which becomes the status.  ComplianceMaps abstracts this to    *)
(* the data of each reference and the order of its sections.               *)
(*                                                                         *)
(* A change of a reference makes the compliance be reconciled, which       *)
(* ComplianceMaps shows.  Time is left out: whether a pass that failed is  *)
(* repeated at once or after twenty seconds.                               *)
(***************************************************************************)
EXTENDS Integers, FiniteSets, Sequences

CONSTANTS
  Name,          \* names of objects, namespaces included
  Section,       \* the policies
  Blank,         \* a section of comments and empty lines
  Root,          \* the path that is not given
  References,    \* LuaValidationRefs
  Versions,      \* source -> what it may be
  Budget         \* how often a call fails, a source changes, the process dies

Counters == {"failures", "fetches", "changes", "crashes"}
Kind == {"ConfigMap", "Secret", "GitRepository", "OCIRepository", "Bucket"}
Source == {<<References[i].kind, References[i].name>> : i \in DOMAIN References}

\* A source may be absent.  It may have no content yet: a Secret of another type,
\* a Flux source without an artifact.  A file is the path of its directory and its
\* name there; it holds sections.
Absent == [present |-> FALSE, usable |-> FALSE, files |-> [f \in {} |-> <<>>]]
IsVersion(v) ==
  /\ v.present \in BOOLEAN /\ v.usable \in BOOLEAN /\ (v.usable => v.present)
  /\ IsFiniteSet(DOMAIN v.files)
  /\ \A f \in DOMAIN v.files : v.files[f] \in Seq(Section \cup {Blank})

ASSUME CollectionAssumption ==
  /\ Blank \notin Section
  /\ References \in Seq([kind : Kind, name : Name, path : STRING])
  /\ \A s \in Source : \A v \in Versions[s] : IsVersion(v)
  /\ Budget \in [Counters -> Nat]

VARIABLES
  source,       \* the sources, as they are now
  queued,       \* whether the compliance is in the work queue
  pc, at,       \* of the pass; the reference it reads
  artifact,     \* the files of the artifact that is being fetched
  validations,  \* what the pass collected so far
  dirs,         \* how many temporary directories exist
  status,       \* Status.LuaValidations
  left,         \* what remains of Budget
  found, seen,  \* history: the sections the pass read, per reference, and of which files
  saved, shown  \* history: those of the pass that wrote the status

pass == <<pc, at, artifact, validations, found, seen>>
written == <<status, saved, shown>>
vars == <<source, queued, pass, dirs, written, left>>

Nothing == [k \in {} |-> Blank]
Spend(counter) == left[counter] > 0 /\ left' = [left EXCEPT ![counter] = @ - 1]

Init ==
  /\ source \in [Source -> UNION {Versions[s] : s \in Source}]
  /\ \A s \in Source : source[s] \in Versions[s]
  /\ queued = TRUE
  /\ pc = "idle" /\ at = 1 /\ artifact = Absent.files
  /\ validations = Nothing /\ found = <<>> /\ seen = <<>>
  /\ dirs = 0
  /\ status = Nothing /\ saved = <<>> /\ shown = <<>>
  /\ left = Budget

-----------------------------------------------------------------------------
(* Users, Flux, and the end of the process, whose directories go with its    *)
(* container.                                                                *)

Change(s, version) ==
  /\ version # source[s]
  /\ Spend("changes")
  /\ source' = [source EXCEPT ![s] = version]
  /\ queued' = TRUE
  /\ UNCHANGED <<pass, dirs, written>>

Crash ==
  /\ Spend("crashes")
  /\ queued' = TRUE
  /\ pc' = "idle" /\ dirs' = 0
  /\ UNCHANGED <<source, at, artifact, validations, found, seen, written>>

-----------------------------------------------------------------------------
(* Content.                                                                  *)

\* collectContent: the files in any order, the sections of each in their order.
Policies(files) ==
  {p \in UNION {{f} \X DOMAIN files[f] : f \in DOMAIN files} : files[p[1]][p[2]] # Blank}
InOrder(walk, i, j) ==
  walk[i][1] = walk[j][1] => /\ walk[i][2] < walk[j][2]
                             /\ \A k \in i..j : walk[k][1] = walk[i][1]
Walks(files) ==
  LET n == Cardinality(Policies(files))
  IN  {walk \in [1..n -> Policies(files)] : \A j \in 1..n : \A i \in 1..j - 1 : InOrder(walk, i, j)}
CollectContent(files) ==
  {[i \in DOMAIN walk |-> files[walk[i][1]][walk[i][2]]] : walk \in Walks(files)}

\* walkDir: the files at or below the path.
WalkDir(files, path) ==
  [f \in {g \in DOMAIN files : path = Root \/ g[1] = path} |-> files[f]]

\* Mutant of Key: a ConfigMap and a Secret of one name share their keys.
KeyWithoutKind(ref, n) == <<"", ref.name, n>>

\* kind:namespace/name-n.  The path is not in it.
Key(ref, n) == <<ref.kind, ref.name, n>>

\* The loops over the sections and the references: what a key holds is replaced.
AddSections(ref, sections) ==
  LET new == {Key(ref, n) : n \in 1..Len(sections)}
  IN  [k \in DOMAIN validations \cup new |->
        IF k \in new THEN sections[k[3]] ELSE validations[k]]

-----------------------------------------------------------------------------
(* collectLuaValidations.                                                    *)

Ref == References[at]
Version == source[<<Ref.kind, Ref.name>>]
Reading == pc = "collect" /\ at \leq Len(References)

Start ==
  /\ pc = "idle"
  /\ queued
  /\ queued' = FALSE
  /\ pc' = "collect" /\ at' = 1
  /\ validations' = Nothing /\ found' = <<>> /\ seen' = <<>>
  /\ UNCHANGED <<source, artifact, dirs, written, left>>

\* Mutant of Fails: nobody comes back to it.
FailsForGood == pc' = "idle" /\ UNCHANGED <<queued, at, artifact, validations, found, seen>>

\* Mutant of Fails: what cannot be read counts as absent.
FailsAsAbsent ==
  /\ pc' = "collect" /\ at' = at + 1 /\ found' = Append(found, <<>>)
  /\ seen' = Append(seen, Absent.files)
  /\ UNCHANGED <<queued, artifact, validations>>

\* The pass ends, to be repeated; the status keeps what it had.
Fails == pc' = "idle" /\ queued' = TRUE /\ UNCHANGED <<at, artifact, validations, found, seen>>

Collected(sections) ==
  /\ validations' = AddSections(Ref, sections)
  /\ found' = Append(found, sections)
  /\ pc' = "collect" /\ at' = at + 1
  /\ UNCHANGED <<queued, artifact>>

\* The policies of these files, if any, in one of their orders.
CollectedFrom(files) ==
  /\ \E sections \in CollectContent(files) : Collected(sections)
  /\ seen' = Append(seen, files)

\* collectContentOfConfigMap, collectContentOfSecret.
ReadObject ==
  /\ Reading
  /\ Ref.kind \in {"ConfigMap", "Secret"}
  /\ \/ /\ ~Version.present
        /\ CollectedFrom(Absent.files) /\ UNCHANGED left
     \/ /\ Version.present /\ Version.usable
        /\ CollectedFrom(Version.files) /\ UNCHANGED left
     \/ /\ Version.present /\ ~Version.usable
        /\ Fails /\ UNCHANGED left
     \/ Spend("failures") /\ Fails
  /\ UNCHANGED <<source, dirs, written>>

\* The empty cases of collectValidations.
SkipSource ==
  /\ Reading
  /\ Ref.kind \in {"OCIRepository", "Bucket"}
  /\ CollectedFrom(Absent.files)
  /\ UNCHANGED <<source, dirs, written, left>>

\* getSource.  A GitRepository must be there, its artifact need not.
GetSource ==
  /\ Reading
  /\ Ref.kind = "GitRepository"
  /\ \/ /\ Version.present /\ Version.usable
        /\ pc' = "mkdir" /\ artifact' = Version.files
        /\ UNCHANGED <<queued, at, validations, found, seen, left>>
     \/ /\ Version.present /\ ~Version.usable
        /\ CollectedFrom(Absent.files) /\ UNCHANGED left
     \/ ~Version.present /\ Fails /\ UNCHANGED left
     \/ Spend("failures") /\ Fails
  /\ UNCHANGED <<source, dirs, written>>

\* Mutant of MkdirTemp: the directory is taken for granted.
MkdirNone ==
  /\ pc = "mkdir"
  /\ pc' = "fetch"
  /\ UNCHANGED <<source, queued, at, artifact, validations, found, seen, dirs, written, left>>

MkdirTemp ==
  /\ pc = "mkdir"
  /\ \/ /\ pc' = "fetch" /\ dirs' = dirs + 1
        /\ UNCHANGED <<queued, at, artifact, validations, found, seen, left>>
     \/ Spend("failures") /\ Fails /\ UNCHANGED dirs
  /\ UNCHANGED <<source, written>>

\* The digest tells one artifact from another.  If it cannot be fetched, because
\* it was replaced, say, the directory stays.
Fetch ==
  /\ pc = "fetch"
  /\ \/ /\ pc' = "walk"
        /\ UNCHANGED <<queued, at, artifact, validations, found, seen, left>>
     \/ Spend("fetches") /\ Fails
  /\ UNCHANGED <<source, dirs, written>>

PathExists == Ref.path = Root \/ \E f \in DOMAIN artifact : f[1] = Ref.path

\* Mutant of Walk: the directory is not removed when the path is missing.
WalkOrLeave ==
  /\ pc = "walk"
  /\ IF PathExists
     THEN CollectedFrom(WalkDir(artifact, Ref.path)) /\ dirs' = dirs - 1
     ELSE Fails /\ UNCHANGED dirs
  /\ UNCHANGED <<source, written, left>>

\* The path is looked up, its files are read, the directory is removed.
Walk ==
  /\ pc = "walk"
  /\ \/ /\ PathExists
        /\ CollectedFrom(WalkDir(artifact, Ref.path)) /\ UNCHANGED left
     \/ ~PathExists /\ Fails /\ UNCHANGED left
     \/ Spend("failures") /\ Fails
  /\ dirs' = dirs - 1
  /\ UNCHANGED <<source, written>>

\* Mutant of Save: the compliance leaves the work queue when its pass is over.
SaveAndForget ==
  /\ pc = "collect"
  /\ at > Len(References)
  /\ pc' = "idle" /\ queued' = FALSE
  /\ status' = validations /\ saved' = found /\ shown' = seen
  /\ UNCHANGED <<source, at, artifact, validations, found, seen, dirs, left>>

\* The status is written unless Close fails, also if annotateClusters fails.
Save ==
  /\ pc = "collect"
  /\ at > Len(References)
  /\ pc' = "idle"
  /\ \/ /\ status' = validations /\ saved' = found /\ shown' = seen
        /\ \/ UNCHANGED <<queued, left>>
           \/ Spend("failures") /\ queued' = TRUE
     \/ Spend("failures") /\ queued' = TRUE /\ UNCHANGED written
  /\ UNCHANGED <<source, at, artifact, validations, found, seen, dirs>>

PassStep ==
  Start \/ ReadObject \/ SkipSource \/ GetSource \/ MkdirTemp \/ Fetch \/ Walk \/ Save

Next ==
  \/ \E s \in Source : \E version \in Versions[s] : Change(s, version)
  \/ Crash
  \/ PassStep

Spec == Init /\ [][Next]_vars

\* A worker takes what is queued and goes on with its pass.
LiveSpec == Spec /\ WF_vars(PassStep)

-----------------------------------------------------------------------------
(* Properties. *)

\* Every variable keeps its type; the pass has read the references before its own.
TypeOK ==
  /\ DOMAIN source = Source /\ \A s \in Source : source[s] \in Versions[s]
  /\ queued \in BOOLEAN
  /\ pc \in {"idle", "collect", "mkdir", "fetch", "walk"}
  /\ at \in 1..Len(References) + 1
  /\ pc \in {"mkdir", "fetch", "walk"} => at \leq Len(References)
  /\ dirs \in Nat
  /\ left \in [Counters -> Nat]

\* The name of section n of reference i; those of all its sections.
Named(i, n) == <<References[i].kind, References[i].name, n>>
Names(i, sections) == {Named(i, n) : n \in 1..Len(sections)}

\* Content holds, under its name, each section of the references read, and
\* nothing else.  Of references that share a name, with other paths of one
\* repository, the later one's sections replace the earlier one's.
Replaced(read, i, n) ==
  \E j \in i + 1..Len(read) : Named(j, n) = Named(i, n) /\ n \leq Len(read[j])
Holds(content, read) ==
  /\ DOMAIN content = UNION {Names(i, read[i]) : i \in 1..Len(read)}
  /\ \A i \in 1..Len(read) : \A n \in 1..Len(read[i]) :
       Replaced(read, i, n) \/ content[Named(i, n)] = read[i][n]

\* The status is always what one pass read of all references, the policies of their
\* files, whatever failed in the middle of the passes since
\* (addoncompliance_controller.go:505-523, 213-220).
StatusWhole ==
  \/ status = Nothing /\ saved = <<>> /\ shown = <<>>
  \/ /\ Len(saved) = Len(References) /\ Holds(status, saved)
     /\ \A i \in 1..Len(References) : saved[i] \in CollectContent(shown[i])

\* A temporary directory is in use, or was left by a fetch that failed
\* (addoncompliance_controller.go:608-613; utils.go:203-210).
InUse == IF pc \in {"fetch", "walk"} THEN 1 ELSE 0
NoLeak == dirs \leq InUse + Budget["fetches"] - left["fetches"]

\* What a pass that reads reference i now would read: the path narrows down the
\* files of a GitRepository only.
ContentOf(i) ==
  LET version == source[<<References[i].kind, References[i].name>>]
  IN  CASE version.usable /\ References[i].kind \in {"ConfigMap", "Secret"} -> version.files
        [] version.usable /\ References[i].kind = "GitRepository" ->
             WalkDir(version.files, References[i].path)
        [] OTHER -> Absent.files

\* The status has the sections of reference i, if no other one has its name, each as
\* often as its source has it now, and no blank one.
Alone(i) == \A j \in 1..Len(References) : Named(j, 1) = Named(i, 1) => j = i
Occurrences(files, section) ==
  {p \in UNION {{f} \X DOMAIN files[f] : f \in DOMAIN files} : files[p[1]][p[2]] = section}
UpToDate(i) ==
  LET own == {k \in DOMAIN status : <<k[1], k[2]>> = <<References[i].kind, References[i].name>>}
  IN  \A section \in Section \cup {Blank} :
        Cardinality({k \in own : status[k] = section}) =
          IF section = Blank THEN 0 ELSE Cardinality(Occurrences(ContentOf(i), section))

\* When no pass runs and none is due, the status is up to date, however the sources
\* changed while the passes before read them and whatever failed in these
\* (addoncompliance_controller.go:505-523, 213-220; utils.go:196-216).
QuietUpToDate ==
  pc = "idle" /\ ~queued => \A i \in 1..Len(References) : Alone(i) => UpToDate(i)

\* What the references have now, and what a pass is bound to read of those it began
\* with: an artifact is that of the moment it was looked up.
Current == [i \in 1..Len(References) |-> ContentOf(i)]
View == CASE pc = "idle" -> <<>>
          [] pc = "collect" -> seen
          [] OTHER -> Append(seen, WalkDir(artifact, Ref.path))

\* That a GitRepository is read in several calls, while it may change, cannot be
\* told from one read when its artifact was looked up: a pass reads each reference
\* in one step and replaces the whole status, and of what changes meanwhile nothing is
\* lost (addoncompliance_controller.go:505-523, 602-636).
Atomic == INSTANCE AtomicCollection
            WITH content <- Current, reading <- pc # "idle", view <- View
AtomicSpec == Atomic!Spec

\* If each reference can finally be read, the status comes to be up to date.
Readable(i) ==
  LET version == source[<<References[i].kind, References[i].name>>]
  IN  CASE References[i].kind = "Secret" -> version.present => version.usable
        [] References[i].kind = "GitRepository" ->
             version.present /\ (version.usable =>
               References[i].path = Root \/ \E f \in DOMAIN version.files : f[1] = References[i].path)
        [] OTHER -> TRUE
EventuallyCollected ==
  <>[](\A i \in 1..Len(References) : Readable(i)) =>
    <>[](\A i \in 1..Len(References) : Alone(i) => UpToDate(i))
=============================================================================
