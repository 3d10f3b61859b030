-------------------------- MODULE CollectionProofs --------------------------
(***************************************************************************)
(* What holds for any references, sources, failures and restarts: the      *)
(* status is what one pass read of all references, as if each in one step, *)
(* it is up to date when nothing is due, and only a failed fetch leaves a  *)
(* directory.                                                              *)
(***************************************************************************)
EXTENDS Collection, FiniteSetTheorems, TLAPS

\* What may be read: the files of a version of a source, or those below a path.
Artifacts == {Absent.files} \cup UNION {{v.files : v \in Versions[s]} : s \in Source}
Contents ==
  Artifacts \cup
    {WalkDir(files, References[i].path) : files \in Artifacts, i \in 1..Len(References)}

\* What the pass read so far, one list of sections per reference.
Read ==
  /\ found \in Seq(Seq(Section)) /\ seen \in Seq(Contents)
  /\ pc # "idle" =>
       /\ Len(found) = at - 1 /\ Len(seen) = at - 1
       /\ Holds(validations, found)
       /\ \A j \in 1..at - 1 : found[j] \in CollectContent(seen[j])

\* The artifact being fetched is one of a version of its source.
Fetched == artifact \in Artifacts

\* A directory in use exists; no more fetches fail than may.
Bounds == InUse \leq dirs /\ left["fetches"] \leq Budget["fetches"]

IInv == TypeOK /\ Read /\ Fetched /\ Bounds /\ StatusWhole /\ NoLeak

\* References are finitely many, each names a source.
LEMMA ReferenceTypes ==
  /\ Len(References) \in Nat
  /\ \A i \in 1..Len(References) :
       /\ References[i].kind \in Kind /\ References[i].name \in Name
       /\ <<References[i].kind, References[i].name>> \in Source
<1> DEFINE T == [kind : Kind, name : Name, path : STRING]
<1>1. References \in Seq(T)
  BY CollectionAssumption
<1> HIDE DEF T
<1>2. /\ DOMAIN References = 1..Len(References) /\ Len(References) \in Nat
      /\ \A i \in 1..Len(References) : References[i] \in T
  BY <1>1
<1>3. \A r \in T : r.kind \in Kind /\ r.name \in Name
  BY DEF T
<1>4. \A i \in 1..Len(References) : <<References[i].kind, References[i].name>> \in Source
  BY <1>2 DEF Source
<1> QED BY <1>2, <1>3, <1>4

\* The positions of sections in finitely many files are finitely many.
LEMMA PoliciesFinite ==
  ASSUME NEW files, IsFiniteSet(DOMAIN files),
         \A f \in DOMAIN files : files[f] \in Seq(Section \cup {Blank})
  PROVE  IsFiniteSet(Policies(files))
<1> DEFINE of == [f \in DOMAIN files |-> {f} \X DOMAIN files[f]]
           parts == {{f} \X DOMAIN files[f] : f \in DOMAIN files}
<1>1. ASSUME NEW f \in DOMAIN files
      PROVE  IsFiniteSet({f} \X DOMAIN files[f])
  <2>1. DOMAIN files[f] = 1..Len(files[f]) /\ Len(files[f]) \in Nat
    OBVIOUS
  <2>2. IsFiniteSet(1..Len(files[f]))
    BY <2>1, FS_Interval
  <2>3. IsFiniteSet({f})
    BY FS_Singleton
  <2> QED BY <2>1, <2>2, <2>3, FS_Product
<1>2. of \in Surjection(DOMAIN files, parts)
  BY DEF Surjection
<1>3. IsFiniteSet(parts)
  BY <1>2, FS_Surjection
<1>4. IsFiniteSet(UNION parts)
  BY <1>1, <1>3, FS_UNION
<1> QED BY <1>4, FS_Subset DEF Policies

\* Whatever the order of the files, the result is a list of policies.
LEMMA CollectContentType ==
  ASSUME NEW files, IsFiniteSet(DOMAIN files),
         \A f \in DOMAIN files : files[f] \in Seq(Section \cup {Blank}),
         NEW sections \in CollectContent(files)
  PROVE  sections \in Seq(Section)
<1>1. Cardinality(Policies(files)) \in Nat
  BY PoliciesFinite, FS_CardinalityType
<1>2. PICK walk \in Walks(files) :
        sections = [i \in DOMAIN walk |-> files[walk[i][1]][walk[i][2]]]
  BY DEF CollectContent
<1>3. walk \in [1..Cardinality(Policies(files)) -> Policies(files)]
  BY DEF Walks
<1>4. ASSUME NEW p \in Policies(files)
      PROVE  files[p[1]][p[2]] \in Section
  <2>1. PICK f \in DOMAIN files : p \in {f} \X DOMAIN files[f]
    BY DEF Policies
  <2>2. p[1] = f /\ p[2] \in DOMAIN files[f] /\ files[f] \in Seq(Section \cup {Blank})
    BY <2>1
  <2>3. files[p[1]][p[2]] # Blank
    BY DEF Policies
  <2> QED BY <2>2, <2>3
<1>5. sections \in [1..Cardinality(Policies(files)) -> Section]
  BY <1>2, <1>3, <1>4
<1> QED BY <1>1, <1>5

\* A bounded counter stays a natural number when one more use is made of it.
LEMMA SpendType ==
  ASSUME TypeOK, NEW counter \in Counters, Spend(counter)
  PROVE  /\ left' \in [Counters -> Nat]
         /\ left'["fetches"] = IF counter = "fetches" THEN left["fetches"] - 1 ELSE left["fetches"]
         /\ left'["fetches"] \in Nat /\ left["fetches"] \in Nat
BY DEF TypeOK, Spend, Counters

\* Temporary directories, as numbers.
LEMMA Numbers ==
  ASSUME TypeOK
  PROVE  /\ dirs \in Nat /\ left["fetches"] \in Nat /\ Budget["fetches"] \in Nat
         /\ at \in Nat /\ InUse \in {0, 1}
BY CollectionAssumption, ReferenceTypes DEF TypeOK, InUse, Counters

\* What may be read is files of sections.
LEMMA ContentsType ==
  ASSUME NEW files \in Contents
  PROVE  /\ IsFiniteSet(DOMAIN files)
         /\ \A f \in DOMAIN files : files[f] \in Seq(Section \cup {Blank})
         /\ CollectContent(files) \subseteq Seq(Section)
<1>1. ASSUME NEW of \in Artifacts
      PROVE  IsFiniteSet(DOMAIN of) /\ \A f \in DOMAIN of : of[f] \in Seq(Section \cup {Blank})
  <2>1. CASE of = Absent.files
    <3>1. DOMAIN of = {}
      BY <2>1 DEF Absent
    <3> QED BY <3>1, FS_EmptySet
  <2>2. CASE \E s \in Source : \E v \in Versions[s] : of = v.files
    BY <2>2, CollectionAssumption DEF IsVersion
  <2> QED BY <2>1, <2>2 DEF Artifacts
<1>2. PICK of \in Artifacts :
        DOMAIN files \subseteq DOMAIN of /\ \A f \in DOMAIN files : files[f] = of[f]
  <2>1. CASE files \in Artifacts
    BY <2>1
  <2>2. ASSUME NEW of \in Artifacts, NEW path, files = WalkDir(of, path)
        PROVE  DOMAIN files \subseteq DOMAIN of /\ \A f \in DOMAIN files : files[f] = of[f]
    BY <2>2 DEF WalkDir
  <2> QED BY <2>1, <2>2 DEF Contents
<1>3. /\ IsFiniteSet(DOMAIN files)
      /\ \A f \in DOMAIN files : files[f] \in Seq(Section \cup {Blank})
  BY <1>1, <1>2, FS_Subset
<1> QED BY <1>3, CollectContentType

\* The files of one more reference are read, in this order of their sections.
CollectedAs(files, sections) == Collected(sections) /\ seen' = Append(seen, files)

\* One more reference is read: what was collected still holds all of them.
LEMMA AddedHolds ==
  ASSUME at \in 1..Len(References), pc # "idle", Read, NEW files \in Contents,
         NEW sections \in CollectContent(files), CollectedAs(files, sections)
  PROVE  Read'
<1> DEFINE L == Len(found)
<1>0. /\ Len(found) = at - 1 /\ found \in Seq(Seq(Section)) /\ Holds(validations, found)
      /\ sections \in Seq(Section) /\ Collected(sections)
  BY ContentsType DEF Read, CollectedAs
<1>1. /\ found' \in Seq(Seq(Section)) /\ Len(found') = L + 1 /\ L \in Nat
      /\ found'[L + 1] = sections /\ \A i \in 1..L : found'[i] = found[i]
      /\ at = L + 1 /\ at' = L + 2
  BY <1>0, ReferenceTypes DEF Collected
<1>2. \A n : Named(at, n) = Key(Ref, n)
  BY DEF Named, Key, Ref
<1>3. validations' = AddSections(Ref, sections)
  BY <1>0 DEF Collected
<1> DEFINE new == Names(at, sections)
<1>4. validations' = [k \in DOMAIN validations \cup new |->
                       IF k \in new THEN sections[k[3]] ELSE validations[k]]
  BY <1>2, <1>3 DEF AddSections, Names
<1>5. DOMAIN validations' = UNION {Names(i, found'[i]) : i \in 1..Len(found')}
  <2>1. DOMAIN validations = UNION {Names(i, found[i]) : i \in 1..L}
    BY <1>0 DEF Holds
  <2>2. DOMAIN validations' = DOMAIN validations \cup Names(at, sections)
    BY <1>4
  <2>3. \A i : i \in 1..Len(found') <=> i \in 1..L \/ i = at
    BY <1>1
  <2>4. /\ \A i \in 1..L : Names(i, found'[i]) = Names(i, found[i])
        /\ Names(at, found'[at]) = Names(at, sections)
    BY <1>1
  <2> QED BY <2>1, <2>2, <2>3, <2>4
<1>6. ASSUME NEW i \in 1..Len(found'), NEW n \in 1..Len(found'[i]),
             ~Replaced(found', i, n)
      PROVE  validations'[Named(i, n)] = found'[i][n]
  <2>1. CASE i = L + 1
    <3>1. Named(i, n) \in new /\ Named(i, n)[3] = n
      BY <1>1, <2>1 DEF Named, Names
    <3> QED BY <1>1, <1>4, <2>1, <3>1
  <2>2. CASE i \in 1..L
    <3>1. Named(i, n) \in DOMAIN validations
      <4>1. Named(i, n) \in Names(i, found[i])
        BY <1>1, <2>2 DEF Names
      <4> QED BY <1>0, <2>2, <4>1 DEF Holds
    <3>2. Named(i, n) \notin new
      <4>1. ASSUME NEW m \in 1..Len(sections), Named(i, n) = Named(at, m)
            PROVE  FALSE
        <5>1. m = n
          BY <4>1 DEF Named
        <5>2. at \in i + 1..Len(found')
          BY <1>1, <2>2
        <5>3. Named(at, n) = Named(i, n)
          BY <4>1, <5>1
        <5>4. n \leq Len(found'[at])
          BY <1>1, <5>1
        <5>5. Replaced(found', i, n)
          BY <5>2, <5>3, <5>4 DEF Replaced
        <5> QED BY <1>6, <5>5
      <4> QED BY <4>1 DEF Names
    <3>3. ~Replaced(found, i, n)
      <4>1. SUFFICES ASSUME NEW j \in i + 1..L, Named(j, n) = Named(i, n), n \leq Len(found[j])
                     PROVE  FALSE
        BY DEF Replaced
      <4>2. j \in i + 1..Len(found') /\ found'[j] = found[j]
        BY <1>1, <2>2
      <4>3. Replaced(found', i, n)
        BY <4>1, <4>2 DEF Replaced
      <4> QED BY <1>6, <4>3
    <3>4. validations[Named(i, n)] = found[i][n]
      BY <1>0, <1>1, <1>6, <2>2, <3>3 DEF Holds
    <3> QED BY <1>1, <1>4, <2>2, <3>1, <3>2, <3>4
  <2> QED BY <1>1, <2>1, <2>2
<1>7. Holds(validations', found')
  BY <1>5, <1>6 DEF Holds
<1>8. /\ seen' \in Seq(Contents) /\ Len(seen') = L + 1 /\ seen'[L + 1] = files
      /\ \A i \in 1..L : seen'[i] = seen[i] /\ found[i] \in CollectContent(seen[i])
  BY <1>1 DEF CollectedAs, Read
<1>9. \A j \in 1..L + 1 : found'[j] \in CollectContent(seen'[j])
  <2> SUFFICES ASSUME NEW j \in 1..L + 1 PROVE found'[j] \in CollectContent(seen'[j])
    OBVIOUS
  <2>1. j = L + 1 \/ j \in 1..L
    BY <1>1
  <2> QED BY <1>1, <1>8, <2>1
<1>10. Len(found') = at' - 1 /\ Len(seen') = at' - 1 /\ at' - 1 = L + 1
  BY <1>1, <1>8
<1> QED BY <1>1, <1>7, <1>8, <1>9, <1>10 DEF Read

\* A pass that ends in an error changes neither status nor content.
LEMMA FailsKeeps ==
  ASSUME IInv, Fails, UNCHANGED <<source, written>>, dirs' \in Nat,
         left' \in [Counters -> Nat], left'["fetches"] \leq Budget["fetches"],
         dirs' \leq Budget["fetches"] - left'["fetches"]
  PROVE  IInv'
<1>1. TypeOK'
  BY DEF IInv, TypeOK, Fails
<1>2. Read' /\ Fetched'
  BY DEF IInv, Read, Fetched, Fails
<1>3. StatusWhole'
  BY DEF IInv, StatusWhole, written
<1>4. InUse' = 0
  BY DEF InUse, Fails
<1>5. Bounds' /\ NoLeak'
  <2>1. left'["fetches"] \in Nat /\ Budget["fetches"] \in Nat
    BY Numbers DEF IInv, Counters
  <2> QED BY <1>4, <2>1 DEF Bounds, NoLeak
<1> QED BY <1>1, <1>2, <1>3, <1>5 DEF IInv

\* A reference was read; the directory it needed, if any, is gone.
LEMMA CollectedKeeps ==
  ASSUME IInv, pc # "idle", at \leq Len(References), NEW files \in Contents,
         NEW sections \in CollectContent(files), CollectedAs(files, sections),
         UNCHANGED <<source, written, left>>, dirs' = dirs - InUse
  PROVE  IInv'
<1>1. Read'
  <2>1. at \in 1..Len(References)
    BY ReferenceTypes DEF IInv, TypeOK
  <2> QED BY <2>1, AddedHolds DEF IInv
<1>2. dirs' \in Nat /\ InUse' = 0 /\ at' \in 1..Len(References) + 1
  BY Numbers, ReferenceTypes DEF IInv, TypeOK, Bounds, CollectedAs, Collected, InUse
<1>3. TypeOK'
  BY <1>2 DEF IInv, TypeOK, CollectedAs, Collected
<1>4. Fetched' /\ StatusWhole'
  BY DEF IInv, Fetched, StatusWhole, CollectedAs, Collected, written
<1>5. Bounds' /\ NoLeak'
  BY <1>2, Numbers DEF IInv, Bounds, NoLeak
<1> QED BY <1>1, <1>3, <1>4, <1>5 DEF IInv

\* Nobody but the pass has directories.
LEMMA OthersStep ==
  ASSUME IInv, Crash \/ \E s \in Source : \E version \in Versions[s] : Change(s, version)
  PROVE  IInv'
<1>1. CASE Crash
  <2>1. /\ left' \in [Counters -> Nat] /\ left'["fetches"] = left["fetches"]
        /\ dirs' = 0 /\ InUse' = 0
    BY <1>1, SpendType DEF Crash, IInv, Counters, InUse
  <2>2. TypeOK'
    BY <1>1, <2>1 DEF Crash, IInv, TypeOK
  <2>3. Read' /\ Fetched' /\ StatusWhole'
    BY <1>1 DEF Crash, IInv, Read, Fetched, StatusWhole, written
  <2>4. Bounds' /\ NoLeak'
    BY <2>1, Numbers DEF IInv, Bounds, NoLeak
  <2> QED BY <2>2, <2>3, <2>4 DEF IInv
<1>2. ASSUME NEW s \in Source, NEW version \in Versions[s], Change(s, version)
      PROVE  IInv'
  <2>1. /\ left' \in [Counters -> Nat] /\ left'["fetches"] = left["fetches"]
        /\ queued' = TRUE /\ UNCHANGED <<pass, dirs, written>>
    BY <1>2, SpendType DEF Change, IInv, Counters
  <2>3. DOMAIN source' = Source /\ \A t \in Source : source'[t] \in Versions[t]
    BY <1>2 DEF Change, IInv, TypeOK
  <2>4. TypeOK'
    BY <2>1, <2>3 DEF IInv, TypeOK, pass
  <2>5. Read' /\ Fetched' /\ StatusWhole'
    BY <2>1 DEF IInv, Read, Fetched, StatusWhole, pass, written
  <2>6. Bounds' /\ NoLeak'
    BY <2>1 DEF IInv, Bounds, NoLeak, InUse, pass
  <2> QED BY <2>4, <2>5, <2>6 DEF IInv
<1> QED BY <1>1, <1>2

\* A pass starts with nothing.
LEMMA StartStep ==
  ASSUME IInv, Start
  PROVE  IInv'
<1>1. TypeOK'
  <2>1. at' \in 1..Len(References) + 1
    BY ReferenceTypes DEF Start
  <2>2. UNCHANGED <<source, dirs, left>> /\ pc' = "collect" /\ queued' = FALSE
    BY DEF Start
  <2> QED BY <2>1, <2>2 DEF IInv, TypeOK
<1>2. Read'
  BY DEF Start, Read, Holds, Nothing
<1>3. Fetched' /\ StatusWhole'
  BY DEF Start, IInv, Fetched, StatusWhole, written
<1>4. Bounds' /\ NoLeak'
  BY DEF Start, IInv, Bounds, NoLeak, InUse
<1> QED BY <1>1, <1>2, <1>3, <1>4 DEF IInv

\* A call that fails, other than a fetch.
LEMMA FailedCall ==
  ASSUME IInv, Spend("failures") \/ UNCHANGED left, Fails, UNCHANGED <<source, written>>,
         dirs' = dirs - InUse
  PROVE  IInv'
<1>1. left' \in [Counters -> Nat] /\ left'["fetches"] = left["fetches"]
  BY SpendType DEF IInv, TypeOK, Counters
<1>2. dirs' \in Nat /\ dirs' \leq Budget["fetches"] - left["fetches"]
  BY Numbers DEF IInv, Bounds, NoLeak
<1> QED BY <1>1, <1>2, FailsKeeps DEF IInv, Bounds

\* A reference without a directory is read.
LEMMA ReadStep ==
  ASSUME IInv, ReadObject \/ SkipSource \/ GetSource
  PROVE  IInv'
<1>1. /\ pc = "collect" /\ InUse = 0 /\ at \leq Len(References)
      /\ UNCHANGED <<source, dirs, written>>
  BY DEF ReadObject, SkipSource, GetSource, Reading, InUse
<1>2. dirs' = dirs - InUse
  BY <1>1, Numbers DEF IInv
<1>3. Version.files \in Artifacts /\ Absent.files \in Artifacts /\ Artifacts \subseteq Contents
  <2>1. at \in 1..Len(References)
    BY <1>1, ReferenceTypes DEF IInv, TypeOK
  <2>2. PICK s \in Source : Version \in Versions[s]
    BY <2>1, ReferenceTypes DEF IInv, TypeOK, Version, Ref
  <2> QED BY <2>2 DEF Artifacts, Contents
<1>4. \/ \E files \in {Version.files, Absent.files} : CollectedFrom(files) /\ UNCHANGED left
      \/ Fails /\ (Spend("failures") \/ UNCHANGED left)
      \/ /\ pc' = "mkdir" /\ artifact' = Version.files
         /\ UNCHANGED <<queued, at, validations, found, seen, left>>
  BY DEF ReadObject, SkipSource, GetSource
<1>5. ASSUME NEW files \in {Version.files, Absent.files}, CollectedFrom(files), UNCHANGED left
      PROVE  IInv'
  <2>1. PICK sections \in CollectContent(files) : CollectedAs(files, sections)
    BY <1>5 DEF CollectedFrom, CollectedAs
  <2>2. pc # "idle" /\ files \in Contents /\ UNCHANGED <<source, written, left>>
    BY <1>1, <1>3, <1>5
  <2> QED BY <1>1, <1>2, <2>1, <2>2, CollectedKeeps
<1>6. CASE Fails /\ (Spend("failures") \/ UNCHANGED left)
  BY <1>1, <1>2, <1>6, FailedCall
<1>7. CASE /\ pc' = "mkdir" /\ artifact' = Version.files
           /\ UNCHANGED <<queued, at, validations, found, seen, left>>
  <2>1. TypeOK'
    BY <1>1, <1>7 DEF IInv, TypeOK
  <2>2. Read'
    BY <1>1, <1>7 DEF IInv, Read
  <2>3. Fetched'
    BY <1>3, <1>7 DEF Fetched
  <2>4. StatusWhole'
    BY <1>1 DEF IInv, StatusWhole, written
  <2>5. Bounds' /\ NoLeak'
    BY <1>1, <1>7 DEF IInv, Bounds, NoLeak, InUse
  <2> QED BY <2>1, <2>2, <2>3, <2>4, <2>5 DEF IInv
<1> QED BY <1>4, <1>5, <1>6, <1>7

\* A directory is made, filled and removed.
LEMMA FluxStep ==
  ASSUME IInv, MkdirTemp \/ Fetch \/ Walk
  PROVE  IInv'
<1>1. CASE MkdirTemp
  <2>1. pc = "mkdir" /\ InUse = 0 /\ UNCHANGED <<source, written>>
    BY <1>1 DEF MkdirTemp, InUse
  <2>2. CASE /\ pc' = "fetch" /\ dirs' = dirs + 1
             /\ UNCHANGED <<queued, at, artifact, validations, found, seen, left>>
    <3>1. TypeOK'
      BY <2>1, <2>2 DEF IInv, TypeOK
    <3>2. Read' /\ Fetched' /\ StatusWhole'
      BY <2>1, <2>2 DEF IInv, Read, Fetched, StatusWhole, written
    <3>3. InUse' = 1
      BY <2>2 DEF InUse
    <3>4. Bounds' /\ NoLeak'
      BY <2>1, <2>2, <3>3, Numbers DEF IInv, Bounds, NoLeak
    <3> QED BY <3>1, <3>2, <3>4 DEF IInv
  <2>3. CASE Spend("failures") /\ Fails /\ UNCHANGED dirs
    <3>1. dirs' = dirs - InUse
      BY <2>1, <2>3, Numbers DEF IInv
    <3> QED BY <2>1, <2>3, <3>1, FailedCall
  <2> QED BY <1>1, <2>2, <2>3 DEF MkdirTemp
<1>2. CASE Fetch
  <2>1. pc = "fetch" /\ InUse = 1 /\ UNCHANGED <<source, dirs, written>>
    BY <1>2 DEF Fetch, InUse
  <2>2. CASE pc' = "walk" /\ UNCHANGED <<queued, at, artifact, validations, found, seen, left>>
    <3>1. TypeOK'
      BY <2>1, <2>2 DEF IInv, TypeOK
    <3>2. Read' /\ Fetched' /\ StatusWhole'
      BY <2>1, <2>2 DEF IInv, Read, Fetched, StatusWhole, written
    <3>3. Bounds' /\ NoLeak'
      BY <2>1, <2>2 DEF IInv, Bounds, NoLeak, InUse
    <3> QED BY <3>1, <3>2, <3>3 DEF IInv
  <2>3. CASE Spend("fetches") /\ Fails
    <3>1. left' \in [Counters -> Nat] /\ left'["fetches"] = left["fetches"] - 1
      BY <2>3, SpendType DEF IInv, Counters
    <3>2. /\ dirs' \in Nat /\ left'["fetches"] \leq Budget["fetches"]
          /\ dirs' \leq Budget["fetches"] - left'["fetches"]
      BY <2>1, <3>1, Numbers DEF IInv, Bounds, NoLeak
    <3> QED BY <2>1, <2>3, <3>1, <3>2, FailsKeeps
  <2> QED BY <1>2, <2>2, <2>3 DEF Fetch
<1>3. CASE Walk
  <2>1. /\ pc = "walk" /\ InUse = 1 /\ dirs' = dirs - InUse /\ UNCHANGED <<source, written>>
        /\ at \leq Len(References)
    BY <1>3 DEF Walk, InUse, IInv, TypeOK
  <2>2. CASE CollectedFrom(WalkDir(artifact, Ref.path)) /\ UNCHANGED left
    <3>1. at \in 1..Len(References) /\ artifact \in Artifacts
      BY <2>1, ReferenceTypes DEF IInv, TypeOK, Fetched
    <3>2. WalkDir(artifact, Ref.path) \in Contents
      BY <3>1 DEF Contents, Ref
    <3>3. PICK sections \in CollectContent(WalkDir(artifact, Ref.path)) :
            CollectedAs(WalkDir(artifact, Ref.path), sections)
      BY <2>2 DEF CollectedFrom, CollectedAs
    <3> QED BY <2>1, <2>2, <3>2, <3>3, CollectedKeeps
  <2>3. CASE Fails /\ (Spend("failures") \/ UNCHANGED left)
    BY <2>1, <2>3, FailedCall
  <2> QED BY <1>3, <2>2, <2>3 DEF Walk
<1> QED BY <1>1, <1>2, <1>3

\* All references were read: what was collected becomes the status, or not.
LEMMA SaveStep ==
  ASSUME IInv, Save
  PROVE  IInv'
<1>1. /\ pc = "collect" /\ at > Len(References) /\ pc' = "idle"
      /\ UNCHANGED <<source, at, artifact, validations, found, seen, dirs>>
      /\ InUse = 0 /\ InUse' = 0
  BY DEF Save, InUse
<1>2. left' \in [Counters -> Nat] /\ left'["fetches"] = left["fetches"]
  BY SpendType DEF Save, IInv, TypeOK, Counters
<1>3. queued' \in BOOLEAN
  BY DEF Save, IInv, TypeOK
<1>4. TypeOK'
  BY <1>1, <1>2, <1>3 DEF IInv, TypeOK
<1>5. Read' /\ Fetched'
  BY <1>1 DEF IInv, Read, Fetched
<1>6. /\ Len(found) = Len(References) /\ Holds(validations, found)
      /\ \A i \in 1..Len(References) : found[i] \in CollectContent(seen[i])
  BY <1>1, ReferenceTypes DEF IInv, TypeOK, Read
<1>7. StatusWhole'
  <2>1. \/ status' = validations /\ saved' = found /\ shown' = seen
        \/ UNCHANGED written
    BY DEF Save
  <2> QED BY <1>6, <2>1 DEF IInv, StatusWhole, written
<1>8. Bounds' /\ NoLeak'
  BY <1>1, <1>2 DEF IInv, Bounds, NoLeak
<1> QED BY <1>4, <1>5, <1>7, <1>8 DEF IInv

\* The strengthening is inductive.
LEMMA IInvHolds == Spec => []IInv
<1>1. Init => IInv
  <2> SUFFICES ASSUME Init PROVE IInv
    OBVIOUS
  <2>1. left = Budget /\ left \in [Counters -> Nat] /\ left["fetches"] \in Nat
    BY CollectionAssumption DEF Init, Counters
  <2>2. TypeOK
    BY <2>1, ReferenceTypes DEF Init, TypeOK
  <2>3. Read /\ Fetched /\ StatusWhole
    <3>1. Read
      BY DEF Init, Read
    <3>2. Fetched
      BY DEF Init, Fetched, Artifacts
    <3>3. StatusWhole
      BY DEF Init, StatusWhole
    <3> QED BY <3>1, <3>2, <3>3
  <2>4. Bounds /\ NoLeak
    BY <2>1 DEF Init, Bounds, NoLeak, InUse
  <2> QED BY <2>2, <2>3, <2>4 DEF IInv
<1>2. IInv /\ [Next]_vars => IInv'
  <2> SUFFICES ASSUME IInv, [Next]_vars PROVE IInv'
    OBVIOUS
  <2>1. CASE UNCHANGED vars
    <3>1. TypeOK' /\ Read' /\ Fetched'
      BY <2>1 DEF vars, pass, written, IInv, TypeOK, Read, Fetched
    <3>2. StatusWhole' /\ Bounds' /\ NoLeak'
      BY <2>1 DEF vars, pass, written, IInv, StatusWhole, Bounds, NoLeak, InUse
    <3> QED BY <3>1, <3>2 DEF IInv
  <2> QED BY <2>1, OthersStep, StartStep, ReadStep, FluxStep, SaveStep DEF Next, PassStep
<1> QED BY <1>1, <1>2, PTL DEF Spec

\* Types; the pass is at one of its references.
THEOREM CollectionTypeCorrect == Spec => []TypeOK
<1>1. IInv => TypeOK
  BY DEF IInv
<1> QED BY <1>1, IInvHolds, PTL

\* The status is what one pass read of all references, under their names.
THEOREM StatusWholeHolds == Spec => []StatusWhole
<1>1. IInv => StatusWhole
  BY DEF IInv
<1> QED BY <1>1, IInvHolds, PTL

\* Only a failed fetch leaves a directory behind.
THEOREM NoLeakHolds == Spec => []NoLeak
<1>1. IInv => NoLeak
  BY DEF IInv
<1> QED BY <1>1, IInvHolds, PTL

-----------------------------------------------------------------------------
(* A pass is like one that reads each reference in one step. *)

\* What the references have is files of sections.
LEMMA CurrentType ==
  ASSUME TypeOK
  PROVE  /\ Current \in Seq(Contents) /\ Len(Current) = Len(References)
         /\ \A i \in 1..Len(References) : Current[i] = ContentOf(i)
<1>1. ASSUME NEW i \in 1..Len(References)
      PROVE  ContentOf(i) \in Contents
  <2> DEFINE version == source[<<References[i].kind, References[i].name>>]
  <2>1. version.files \in Artifacts /\ Absent.files \in Artifacts
    BY ReferenceTypes DEF TypeOK, Artifacts
  <2>2. WalkDir(version.files, References[i].path) \in Contents
    BY <2>1 DEF Contents
  <2>3. ContentOf(i) \in {version.files, WalkDir(version.files, References[i].path), Absent.files}
    BY DEF ContentOf
  <2> QED BY <2>1, <2>2, <2>3 DEF Contents
<1>2. Current \in [1..Len(References) -> Contents]
  BY <1>1 DEF Current
<1> QED BY <1>2, ReferenceTypes DEF Current

\* What a reference's content is, by its kind.
LEMMA ContentByKind ==
  ASSUME TypeOK, at \in 1..Len(References)
  PROVE  /\ ~Version.present => ~Version.usable
         /\ ~Version.usable => ContentOf(at) = Absent.files
         /\ Ref.kind \in {"OCIRepository", "Bucket"} => ContentOf(at) = Absent.files
         /\ Version.usable /\ Ref.kind \in {"ConfigMap", "Secret"} => ContentOf(at) = Version.files
         /\ Version.usable /\ Ref.kind = "GitRepository" =>
              ContentOf(at) = WalkDir(Version.files, Ref.path)
<1>1. IsVersion(Version)
  BY ReferenceTypes, CollectionAssumption DEF TypeOK, Version, Ref
<1>2. ~Version.present => ~Version.usable
  BY <1>1 DEF IsVersion
<1>3. ContentOf(at) =
        CASE Version.usable /\ Ref.kind \in {"ConfigMap", "Secret"} -> Version.files
          [] Version.usable /\ Ref.kind = "GitRepository" -> WalkDir(Version.files, Ref.path)
          [] OTHER -> Absent.files
  BY DEF ContentOf, Version, Ref
<1>4. Version.usable \in BOOLEAN
  BY <1>1 DEF IsVersion
<1> QED BY <1>2, <1>3, <1>4

\* What a pass is bound to read: it has read the references before its own, and
\* looked up the artifact of this one.
LEMMA ViewType ==
  ASSUME IInv
  PROVE  /\ View \in Seq(Contents)
         /\ pc = "collect" => Len(View) = at - 1
<1>1. seen \in Seq(Contents) /\ (pc # "idle" => Len(seen) = at - 1)
  BY DEF IInv, Read
<1>2. CASE pc = "idle"
  BY <1>2 DEF View
<1>3. CASE pc = "collect"
  BY <1>1, <1>3 DEF View
<1>4. CASE pc \in {"mkdir", "fetch", "walk"}
  <2>1. at \in 1..Len(References) /\ artifact \in Artifacts
    BY <1>4, ReferenceTypes DEF IInv, TypeOK, Fetched
  <2>2. WalkDir(artifact, Ref.path) \in Contents
    BY <2>1 DEF Contents, Ref
  <2> QED BY <1>1, <1>4, <2>2 DEF View
<1> QED BY <1>2, <1>3, <1>4 DEF IInv, TypeOK

\* A call that fails gives the pass up.
LEMMA GiveUpStep ==
  ASSUME pc' = "idle", queued', UNCHANGED <<source, shown>>
  PROVE  Atomic!GiveUp
<1>1. UNCHANGED Current /\ View' = <<>>
  BY DEF Current, ContentOf, View
<1> QED BY <1>1 DEF Atomic!GiveUp

\* A pass reads all of a reference as its source has it, or looks its artifact up,
\* which is all it will read, or fails.
LEMMA ReadAtOnce ==
  ASSUME IInv, ReadObject \/ SkipSource \/ GetSource
  PROVE  Atomic!Read \/ Atomic!GiveUp
<1>1. /\ pc = "collect" /\ at \in 1..Len(References) /\ UNCHANGED <<source, shown>>
      /\ Len(View) = at - 1 /\ View = seen
  BY ReferenceTypes, ViewType DEF ReadObject, SkipSource, GetSource, Reading, IInv, TypeOK,
                                  written, View
<1>2. \/ CollectedFrom(ContentOf(at))
      \/ Fails
      \/ /\ pc' = "mkdir" /\ UNCHANGED <<queued, at, seen>>
         /\ WalkDir(artifact', Ref.path) = ContentOf(at)
  <2>1. CASE ReadObject
    BY <1>1, <2>1, ContentByKind DEF ReadObject, IInv
  <2>2. CASE SkipSource
    BY <1>1, <2>2, ContentByKind DEF SkipSource, IInv
  <2>3. CASE GetSource
    BY <1>1, <2>3, ContentByKind DEF GetSource, IInv
  <2> QED BY <2>1, <2>2, <2>3
<1>3. /\ UNCHANGED Current /\ Len(Current) = Len(References) /\ Current[at] = ContentOf(at)
      /\ Len(View) + 1 = at /\ Len(View) < Len(References)
  BY <1>1, CurrentType, ReferenceTypes DEF Current, ContentOf, IInv
<1>4. CASE CollectedFrom(ContentOf(at))
  <2>1. pc' = "collect" /\ UNCHANGED queued /\ seen' = Append(seen, ContentOf(at))
    BY <1>4 DEF CollectedFrom, Collected
  <2>2. View' = Append(View, ContentOf(at))
    BY <1>1, <2>1 DEF View
  <2> QED BY <1>1, <1>3, <2>1, <2>2 DEF Atomic!Read
<1>5. CASE Fails
  BY <1>1, <1>5, GiveUpStep DEF Fails
<1>6. CASE /\ pc' = "mkdir" /\ UNCHANGED <<queued, at, seen>>
           /\ WalkDir(artifact', Ref.path) = ContentOf(at)
  <2>1. View' = Append(View, ContentOf(at))
    BY <1>1, <1>6 DEF View, Ref
  <2> QED BY <1>1, <1>3, <1>6, <2>1 DEF Atomic!Read
<1> QED BY <1>2, <1>4, <1>5, <1>6

\* Nothing is to be seen of the directory and of what is done with it.
LEMMA FetchUnseen ==
  ASSUME MkdirTemp \/ Fetch \/ Walk
  PROVE  UNCHANGED Atomic!vars \/ Atomic!GiveUp
<1>1. pc \in {"mkdir", "fetch", "walk"} /\ UNCHANGED <<source, shown>>
  BY DEF MkdirTemp, Fetch, Walk, written
<1>2. UNCHANGED Current
  BY <1>1 DEF Current, ContentOf
<1>3. CASE Fails
  BY <1>1, <1>3, GiveUpStep DEF Fails
<1>4. CASE pc' \in {"fetch", "walk"} /\ UNCHANGED <<queued, at, artifact, seen>>
  <2>1. UNCHANGED View
    BY <1>1, <1>4 DEF View, Ref
  <2> QED BY <1>1, <1>2, <1>4, <2>1 DEF Atomic!vars
<1>5. CASE CollectedFrom(WalkDir(artifact, Ref.path))
  <2>1. /\ pc' = "collect" /\ UNCHANGED queued
        /\ seen' = Append(seen, WalkDir(artifact, Ref.path))
    BY <1>5 DEF CollectedFrom, Collected
  <2>2. UNCHANGED View
    BY <1>1, <2>1 DEF View
  <2> QED BY <1>1, <1>2, <2>1, <2>2 DEF Atomic!vars
<1> QED BY <1>3, <1>4, <1>5 DEF MkdirTemp, Fetch, Walk

\* Every step is one of AtomicCollection, or changes nothing there.
LEMMA AtomicStep ==
  ASSUME IInv, TypeOK', [Next]_vars
  PROVE  [Atomic!Next]_Atomic!vars
<1>1. (TypeOK => Len(Current) = Len(References))'
  BY CurrentType, PTL
<1>2. Len(Current') = Len(Current)
  BY <1>1, CurrentType DEF IInv
<1>3. CASE UNCHANGED vars
  <2>1. UNCHANGED <<Current, View>>
    BY <1>3 DEF Current, ContentOf, View, Ref, vars, pass
  <2> QED BY <1>3, <2>1 DEF vars, pass, written, Atomic!vars
<1>4. CASE \E s \in Source : \E version \in Versions[s] : Change(s, version)
  <2>1. queued' = TRUE /\ UNCHANGED <<pc, shown>> /\ UNCHANGED View
    BY <1>4 DEF Change, pass, written, View, Ref
  <2> QED BY <1>2, <2>1 DEF Atomic!Change, Atomic!Next
<1>5. CASE Crash
  BY <1>5, GiveUpStep DEF Crash, written, Atomic!Next
<1>6. CASE Start
  <2>1. /\ pc = "idle" /\ queued /\ queued' = FALSE /\ pc' = "collect" /\ seen' = <<>>
        /\ UNCHANGED <<source, shown>>
    BY <1>6 DEF Start, written
  <2>2. UNCHANGED Current /\ View' = <<>>
    BY <2>1 DEF Current, ContentOf, View
  <2> QED BY <2>1, <2>2 DEF Atomic!Begin, Atomic!Next
<1>7. CASE Save
  <2>1. pc = "collect" /\ at > Len(References) /\ pc' = "idle" /\ UNCHANGED source
    BY <1>7 DEF Save
  <2>2. \/ shown' = seen /\ queued' \in {queued, TRUE}
        \/ queued' /\ UNCHANGED shown
    BY <1>7 DEF Save, written
  <2>3. UNCHANGED Current /\ View = seen /\ View' = <<>>
    BY <2>1 DEF Current, ContentOf, View
  <2>4. Len(View) = Len(Current)
    BY <2>1, CurrentType, ViewType, ReferenceTypes DEF IInv, TypeOK
  <2>5. CASE shown' = seen /\ queued' \in {queued, TRUE}
    BY <2>1, <2>3, <2>4, <2>5 DEF Atomic!Publish, Atomic!Next
  <2>6. CASE queued' /\ UNCHANGED shown
    BY <2>1, <2>6, GiveUpStep DEF Atomic!Next
  <2> QED BY <2>2, <2>5, <2>6
<1>8. CASE ReadObject \/ SkipSource \/ GetSource \/ MkdirTemp \/ Fetch \/ Walk
  BY <1>8, ReadAtOnce, FetchUnseen DEF Atomic!Next
<1> QED BY <1>3, <1>4, <1>5, <1>6, <1>7, <1>8 DEF Next, PassStep

\* The calls of a pass, with what fails and changes between them, implement the
\* collection that reads each reference in one step.
THEOREM CollectionIsAtomic == Spec => AtomicSpec
<1>1. Init => Atomic!Init
  BY DEF Init, Atomic!Init, View
<1>2. IInv /\ TypeOK' /\ [Next]_vars => [Atomic!Next]_Atomic!vars
  BY AtomicStep
<1>3. IInv => TypeOK
  BY DEF IInv
<1> QED BY <1>1, <1>2, <1>3, IInvHolds, PTL DEF Spec, AtomicSpec, Atomic!Spec

-----------------------------------------------------------------------------
(* The status is up to date when nothing is due. *)

\* As long as no change makes the compliance due: what the pass read is what the
\* sources have, and so is what the last pass saved.
Fresh ==
  ~queued => /\ \A j \in 1..Len(View) : View[j] = Current[j]
             /\ pc = "idle" => shown = Current

\* AtomicCollection has it, and Collection from there.
LEMMA FreshStep ==
  ASSUME IInv, Fresh, [Atomic!Next]_Atomic!vars
  PROVE  Fresh'
<1> SUFFICES ASSUME ~queued' PROVE /\ \A j \in 1..Len(View') : View'[j] = Current'[j]
                                   /\ pc' = "idle" => shown' = Current'
  BY DEF Fresh
<1>1. View \in Seq(Contents) /\ Current \in Seq(Contents)
  BY CurrentType, ViewType DEF IInv
<1>2. CASE UNCHANGED Atomic!vars
  BY <1>2 DEF Atomic!vars, Fresh
<1>3. CASE Atomic!Change \/ Atomic!GiveUp
  BY <1>3 DEF Atomic!Change, Atomic!GiveUp
<1>4. CASE Atomic!Begin
  BY <1>4 DEF Atomic!Begin
<1>5. CASE Atomic!Read
  <2>1. /\ pc' # "idle" /\ ~queued /\ Current' = Current
        /\ View' = Append(View, Current[Len(View) + 1]) /\ Len(View) < Len(Current)
    BY <1>5 DEF Atomic!Read
  <2>2. \A j \in 1..Len(View) : View[j] = Current[j]
    BY <2>1 DEF Fresh
  <2>3. /\ Len(View') = Len(View) + 1 /\ Len(View) \in Nat
        /\ View'[Len(View) + 1] = Current[Len(View) + 1]
        /\ \A j \in 1..Len(View) : View'[j] = View[j]
    BY <1>1, <2>1
  <2>4. \A j \in 1..Len(View) + 1 : j \in 1..Len(View) \/ j = Len(View) + 1
    BY <2>3
  <2> QED BY <2>1, <2>2, <2>3, <2>4
<1>6. CASE Atomic!Publish
  <2>0. queued' = queued \/ queued' = TRUE
    BY <1>6 DEF Atomic!Publish
  <2>1. ~queued /\ shown' = View /\ Len(View) = Len(Current) /\ Current' = Current /\ View' = <<>>
    BY <1>6, <2>0 DEF Atomic!Publish
  <2>2. \A j \in 1..Len(View) : View[j] = Current[j]
    BY <2>1 DEF Fresh
  <2>3. View = Current
    BY <1>1, <2>1, <2>2
  <2> QED BY <2>1, <2>3
<1> QED BY <1>2, <1>3, <1>4, <1>5, <1>6 DEF Atomic!Next

LEMMA FreshHolds == Spec => []Fresh
<1>1. Init => Fresh
  BY DEF Init, Fresh
<1>2. IInv /\ Fresh /\ [Atomic!Next]_Atomic!vars => Fresh'
  BY FreshStep
<1> QED BY <1>1, <1>2, IInvHolds, CollectionIsAtomic, PTL DEF Spec, AtomicSpec, Atomic!Spec

\* Where a list has a section; the names a reference has in the status.
Places(sections, section) == {n \in 1..Len(sections) : sections[n] = section}
Own(i) ==
  {k \in DOMAIN status : <<k[1], k[2]>> = <<References[i].kind, References[i].name>>}

\* A list that was read from files has each policy as often as they have it, and no
\* blank section: the walk over them is a bijection.
LEMMA AsOften ==
  ASSUME NEW files, IsFiniteSet(DOMAIN files),
         \A f \in DOMAIN files : files[f] \in Seq(Section \cup {Blank}),
         NEW sections \in CollectContent(files), NEW section \in Section
  PROVE  /\ IsFiniteSet(Places(sections, section))
         /\ Cardinality(Places(sections, section)) = Cardinality(Occurrences(files, section))
<1> DEFINE all == Policies(files)
           N == Cardinality(all)
           S == {n \in 1..Len(sections) : sections[n] = section}
           T == Occurrences(files, section)
<1>1. N \in Nat /\ IsFiniteSet(all)
  BY PoliciesFinite, FS_CardinalityType
<1>2. PICK walk \in Walks(files) :
        sections = [i \in DOMAIN walk |-> files[walk[i][1]][walk[i][2]]]
  BY DEF CollectContent
<1>3. walk \in [1..N -> all] /\ \A j \in 1..N : \A i \in 1..j - 1 : InOrder(walk, i, j)
  BY DEF Walks
<1>4. \A p \in all : /\ p[1] \in DOMAIN files /\ p[2] \in 1..Len(files[p[1]])
                     /\ Len(files[p[1]]) \in Nat /\ p = <<p[1], p[2]>>
  <2> SUFFICES ASSUME NEW p \in all
               PROVE  /\ p[1] \in DOMAIN files /\ p[2] \in 1..Len(files[p[1]])
                      /\ Len(files[p[1]]) \in Nat /\ p = <<p[1], p[2]>>
    OBVIOUS
  <2>1. PICK f \in DOMAIN files : p \in {f} \X DOMAIN files[f]
    BY DEF Policies
  <2>2. files[f] \in Seq(Section \cup {Blank})
    OBVIOUS
  <2>3. DOMAIN files[f] = 1..Len(files[f]) /\ Len(files[f]) \in Nat
    BY <2>2
  <2> QED BY <2>1, <2>3
<1>5. ASSUME NEW i \in 1..N, NEW j \in 1..N, i < j
      PROVE  walk[i] # walk[j]
  <2>1. InOrder(walk, i, j)
    BY <1>1, <1>3, <1>5
  <2>2. walk[i] \in all /\ walk[i][2] \in Int
    BY <1>3, <1>4
  <2> QED BY <2>1, <2>2 DEF InOrder
<1>6. walk \in Injection(1..N, all)
  <2>1. \A i, j \in 1..N : walk[i] = walk[j] => i = j
    BY <1>1, <1>5
  <2> QED BY <1>3, <2>1 DEF Injection, IsInjective
<1>7. walk \in Surjection(1..N, all)
  <2>1. Cardinality(1..N) = N
    BY <1>1, FS_Interval
  <2> QED BY <1>1, <1>6, <2>1, FS_Injection
<1>8. Len(sections) = N /\ \A n \in 1..N : sections[n] = files[walk[n][1]][walk[n][2]]
  <2>1. sections \in Seq(Section)
    BY CollectContentType
  <2>2. DOMAIN sections = 1..N
    BY <1>2, <1>3
  <2>3. DOMAIN sections = 1..Len(sections) /\ Len(sections) \in Nat
    BY <2>1
  <2>4. Len(sections) = N
    BY <1>1, <2>2, <2>3
  <2> QED BY <1>2, <1>3, <2>4
<1>9. T = {p \in all : files[p[1]][p[2]] = section}
  BY CollectionAssumption DEF Occurrences, Policies
<1> DEFINE b == [n \in S |-> walk[n]]
<1>10. IsFiniteSet(S)
  <2>1. S \subseteq 1..N /\ 0 \in Int /\ N \in Int
    BY <1>1, <1>8
  <2>2. IsFiniteSet(1..N)
    BY <2>1, FS_Interval
  <2> QED BY <2>1, <2>2, FS_Subset
<1> HIDE DEF all, N
<1>11. b \in Bijection(S, T)
  <2>1. \A n \in S : n \in 1..N /\ walk[n] \in T
    BY <1>3, <1>8, <1>9
  <2>2. b \in [S -> T]
    BY <2>1
  <2>3. \A m, n \in S : b[m] = b[n] => m = n
    BY <1>6, <2>1 DEF Injection, IsInjective
  <2>4. ASSUME NEW p \in T
        PROVE  \E n \in S : b[n] = p
    <3>1. p \in all /\ files[p[1]][p[2]] = section
      BY <1>9
    <3>2. PICK n \in 1..N : walk[n] = p
      BY <1>7, <3>1 DEF Surjection
    <3>3. n \in S
      BY <1>8, <3>1, <3>2
    <3> QED BY <3>2, <3>3
  <2> QED BY <2>2, <2>3, <2>4 DEF Bijection, Injection, Surjection, IsInjective
<1> HIDE DEF S, T, b
<1>12. ExistsBijection(S, T)
  BY <1>11 DEF ExistsBijection
<1>13. Cardinality(T) = Cardinality(S)
  BY <1>10, <1>12, FS_Bijection
<1> QED BY <1>10, <1>13 DEF S, T, Places

\* The names of a reference that is alone hold its sections, and no other names do.
LEMMA OwnNames ==
  ASSUME NEW i \in 1..Len(References), Alone(i), Len(saved) = Len(References),
         \A j \in 1..Len(References) : saved[j] \in Seq(Section),
         Holds(status, saved), NEW section, IsFiniteSet(Places(saved[i], section))
  PROVE  Cardinality({k \in Own(i) : status[k] = section}) = Cardinality(Places(saved[i], section))
<1> DEFINE own == Own(i)
           S == {n \in 1..Len(saved[i]) : saved[i][n] = section}
           T == {k \in own : status[k] = section}
           b == [n \in S |-> Named(i, n)]
<1>1. /\ Len(References) \in Nat /\ i \in 1..Len(saved)
      /\ \A j \in 1..Len(saved) : saved[j] \in Seq(Section) /\ Len(saved[j]) \in Nat
  BY ReferenceTypes
<1>2. ASSUME NEW j \in 1..Len(saved), NEW n, Named(j, n)[1] = References[i].kind,
             Named(j, n)[2] = References[i].name
      PROVE  j = i
  <2>1. Named(j, 1) = Named(i, 1)
    BY <1>2 DEF Named
  <2> QED BY <2>1 DEF Alone
<1>3. ASSUME NEW n \in 1..Len(saved[i])
      PROVE  Named(i, n) \in own /\ status[Named(i, n)] = saved[i][n]
  <2>1. Named(i, n) \in DOMAIN status
    BY <1>1 DEF Holds, Names
  <2>2. ~Replaced(saved, i, n)
    <3>1. SUFFICES ASSUME NEW j \in i + 1..Len(saved), Named(j, n) = Named(i, n)
                   PROVE  FALSE
      BY DEF Replaced
    <3>2. j \in 1..Len(saved) /\ j # i
      BY <1>1
    <3>3. Named(j, n)[1] = References[i].kind /\ Named(j, n)[2] = References[i].name
      BY <3>1 DEF Named
    <3> QED BY <1>2, <3>2, <3>3
  <2>3. status[Named(i, n)] = saved[i][n]
    BY <1>1, <2>2 DEF Holds
  <2> QED BY <2>1, <2>3 DEF Named, Own
<1>4. ASSUME NEW k \in own
      PROVE  \E n \in 1..Len(saved[i]) : k = Named(i, n)
  <2>1. PICK j \in 1..Len(saved) : \E n \in 1..Len(saved[j]) : k = Named(j, n)
    BY DEF Holds, Names, Own
  <2>2. PICK n \in 1..Len(saved[j]) : k = Named(j, n)
    BY <2>1
  <2>3. j = i
    BY <1>2, <2>2 DEF Own
  <2> QED BY <2>2, <2>3
<1> HIDE DEF own
<1>5. b \in Bijection(S, T)
  <2>1. b \in [S -> T]
    BY <1>3
  <2>2. \A m, n \in S : b[m] = b[n] => m = n
    BY DEF Named
  <2>3. ASSUME NEW k \in T
        PROVE  \E n \in S : b[n] = k
    <3>1. k \in own /\ status[k] = section
      OBVIOUS
    <3>2. PICK n \in 1..Len(saved[i]) : k = Named(i, n)
      BY <1>4, <3>1
    <3>3. n \in S
      BY <1>3, <3>1, <3>2
    <3> QED BY <3>2, <3>3
  <2> QED BY <2>1, <2>2, <2>3 DEF Bijection, Injection, Surjection, IsInjective
<1> HIDE DEF S, T, b
<1>6. ExistsBijection(S, T)
  BY <1>5 DEF ExistsBijection
<1>7. IsFiniteSet(S)
  BY DEF S, Places
<1>8. Cardinality(T) = Cardinality(S)
  BY <1>6, <1>7, FS_Bijection
<1> QED BY <1>8 DEF own, S, T, Places

\* When no pass runs and none is due, the status has each section of a reference as
\* often as its source has it now, whatever changed and failed before.
THEOREM QuietUpToDateHolds == Spec => []QuietUpToDate
<1>1. IInv /\ Fresh => QuietUpToDate
  <2> SUFFICES ASSUME IInv, Fresh, pc = "idle", ~queued,
                      NEW i \in 1..Len(References), Alone(i)
               PROVE  UpToDate(i)
    BY DEF QuietUpToDate
  <2>1. /\ shown = Current /\ Len(Current) = Len(References)
        /\ \A j \in 1..Len(References) : Current[j] = ContentOf(j) /\ Current[j] \in Contents
    BY CurrentType, ReferenceTypes DEF Fresh, IInv
  <2>2. /\ Len(saved) = Len(References) /\ Holds(status, saved)
        /\ \A j \in 1..Len(References) : saved[j] \in CollectContent(ContentOf(j))
    <3>1. CASE status = Nothing /\ saved = <<>> /\ shown = <<>>
      BY <2>1, <3>1, ReferenceTypes
    <3> QED BY <2>1, <3>1 DEF IInv, StatusWhole
  <2>3. \A j \in 1..Len(References) : saved[j] \in Seq(Section)
    BY <2>1, <2>2, ContentsType
  <2>4. ASSUME NEW section, IsFiniteSet(Places(saved[i], section))
        PROVE  Cardinality({k \in Own(i) : status[k] = section}) =
                 Cardinality(Places(saved[i], section))
    BY <2>2, <2>3, <2>4, OwnNames
  <2>5. ASSUME NEW section \in Section
        PROVE  Cardinality({k \in Own(i) : status[k] = section}) =
                 Cardinality(Occurrences(ContentOf(i), section))
    BY <2>1, <2>2, <2>4, ContentsType, AsOften
  <2>6. Cardinality({k \in Own(i) : status[k] = Blank}) = 0
    <3>1. Places(saved[i], Blank) = {}
      BY <2>3, CollectionAssumption DEF Places
    <3>2. IsFiniteSet(Places(saved[i], Blank)) /\ Cardinality(Places(saved[i], Blank)) = 0
      BY <3>1, FS_EmptySet
    <3> QED BY <2>4, <3>2
  <2> QED BY <2>5, <2>6, CollectionAssumption DEF UpToDate, Own
<1> QED BY <1>1, IInvHolds, FreshHolds, PTL
=============================================================================
