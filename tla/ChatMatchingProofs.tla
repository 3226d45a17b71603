----------------------------- MODULE ChatMatchingProofs -----------------------------
(***************************************************************************)
(* Proofs about ChatMatching for any number of scans, exports, recordings  *)
(* and senders.                                                            *)
(***************************************************************************)
EXTENDS ChatMatching, FiniteSetTheorems, TLAPS

--------------------------------------------------------------------------------
(* The inductive invariant. *)

\* What a scan has read is an export, and one that it takes for known is.
ScansRead ==
  \A s \in Scan : scan[s].at = "read" =>
    /\ scan[s].path \in Path /\ scan[s].digest \in Content
    /\ ~ scan[s].isNew => scan[s].path \in Known

\* Ids are given out in order.
IdsInOrder == \A p \in Known : exports[p].id <= Cardinality(Known)

\* What a scan is about to record is not what has been recorded.
ReadIsNew ==
  \A s \in Scan : scan[s].at = "read" /\ ~ scan[s].isNew =>
    exports[scan[s].path].digest # scan[s].digest

\* The references a run of the matcher has read are still there.
SeenIsCurrent ==
  \A r \in matcher.seen : r.id \in Rows /\ refs[r.id].content = r.content

\* A copy comes after what it is a copy of.
OriginalIsOlder ==
  outdated = {} => \A p \in Known : exports[p].duplicate # NoPath =>
    LET d == exports[p].duplicate IN
    d \in Known /\ exports[d].digest = exports[p].digest /\ exports[d].id < exports[p].id

ChatInv ==
  /\ ChatTypeOK /\ ScansRead /\ IdsInOrder
  /\ ~ overlapped => ReadIsNew /\ SeenIsCurrent /\ OriginalIsOlder
  /\ SelectedNamesRecording /\ CopiesAgree

--------------------------------------------------------------------------------
(* Lemmas about the operators. *)

\* Exports that are known have a row, and there are finitely many.
LEMMA KnownRows ==
  ASSUME ChatTypeOK
  PROVE  /\ IsFiniteSet(Known) /\ Cardinality(Known) \in Nat
         /\ \A p \in Known : exports[p] \in Export
         /\ NoExport \notin Export
<1>1. IsFiniteSet(Path) /\ Known \subseteq Path
  BY ChatAssumption DEF Known
<1>2. IsFiniteSet(Known) /\ Cardinality(Known) \in Nat
  BY <1>1, FS_Subset, FS_CardinalityType
<1> QED
  BY <1>2, ChatAssumption DEF ChatTypeOK, Known, Export, NoExport

\* So have references that there are.
LEMMA RefRows ==
  ASSUME ChatTypeOK
  PROVE  /\ \A r \in Rows : r \in Ref /\ refs[r] \in RefRow
         /\ NoRef \notin RefRow
BY ChatAssumption DEF ChatTypeOK, Rows, RefRow, NoRef

\* The verdict on a recording: its candidates are among the references read, and
\* what it selects names the recording.
LEMMA VerdictSound ==
  ASSUME NEW a, NEW R
  PROVE  /\ Verdict(a, R).candidates \subseteq Ids(R)
         /\ Verdict(a, R).selected # 0 =>
              \E r \in R : r.id = Verdict(a, R).selected /\ Named[r.content] = a
<1> DEFINE named == Naming(a, R)
           eligible == Eligible(named)
<1>1. named \subseteq R /\ eligible \subseteq named /\ \A r \in named : Named[r.content] = a
  BY DEF Naming, Eligible
<1>2. Verdict(a, R).candidates \subseteq Ids(R)
  BY <1>1 DEF Verdict, Ids
<1>3. ASSUME Cardinality(eligible) = 1 PROVE eligible # {}
  BY <1>3, FS_EmptySet
<1>4. ASSUME Verdict(a, R).selected # 0
      PROVE  Cardinality(eligible) = 1 /\ Verdict(a, R).selected \in Ids(eligible)
  <2>1. Cardinality(eligible) = 1 /\ Verdict(a, R).selected = CHOOSE i \in Ids(eligible) : TRUE
    BY <1>4 DEF Verdict
  <2>2. \E i \in Ids(eligible) : TRUE
    BY <1>3, <2>1 DEF Ids
  <2> QED
    BY <2>1, <2>2
<1> QED
  BY <1>1, <1>2, <1>4 DEF Ids

\* What a new or changed export is a copy of: the oldest with the same bytes.
LEMMA OriginalIsFirst ==
  ASSUME NEW d \in Path \cup {NoPath}, NEW digest, IsDuplicateOf(d, digest), d # NoPath
  PROVE  /\ d \in Known /\ exports[d].digest = digest
         /\ \A q \in Known : exports[q].digest = digest => exports[d].id <= exports[q].id
BY DEF IsDuplicateOf, IsFirst

\* References of other exports stay, and what is selected is among them.
LEMMA ReplacedRefs ==
  ASSUME ChatTypeOK, NEW p \in Path, NEW digest \in Content, ReplaceRefs(p, digest)
  PROVE  /\ refs' \in [Ref -> RefRow \cup {NoRef}] /\ matches' \in [Audio -> Match]
         /\ \A r \in Rows \ RefsOf(p) : refs'[r] = refs[r]
         /\ \A a \in Audio : matches'[a].selected # 0 =>
              /\ matches'[a].selected = matches[a].selected
              /\ matches[a].selected \notin RefsOf(p)
<1> DEFINE left == Rows \ RefsOf(p)
<1>1. PICK new \in Ref :
        /\ \A r \in left : r < new
        /\ refs' = [r \in Ref |-> IF r = new THEN [path |-> p, content |-> digest]
                                  ELSE IF r \in left THEN refs[r] ELSE NoRef]
  BY DEF ReplaceRefs
<1>2. [path |-> p, content |-> digest] \in RefRow
  BY DEF RefRow
<1>3. \A r \in left : r \in Ref /\ r # new /\ refs[r] \in RefRow
  BY <1>1, RefRows DEF Ref
<1>4. refs' \in [Ref -> RefRow \cup {NoRef}] /\ \A r \in left : refs'[r] = refs[r]
  BY <1>1, <1>2, <1>3
<1>5. matches' = [a \in Audio |->
        [candidates |-> matches[a].candidates \ RefsOf(p),
         selected |-> IF matches[a].selected \in RefsOf(p) THEN 0 ELSE matches[a].selected]]
  BY DEF ReplaceRefs
<1>6. matches' \in [Audio -> Match]
  BY <1>5 DEF ChatTypeOK, Match
<1> QED
  BY <1>4, <1>5, <1>6

\* An export that is read again makes its copies outdated, and only them.
LEMMA Outdated ==
  ASSUME ChatTypeOK, NEW p \in Path, ReadAgain(p)
  PROVE  /\ outdated' \subseteq Path \X Path
         /\ \A q \in Known : q # p => <<q, p>> \in outdated'
         /\ \A q, e \in Path : q # p /\ <<q, e>> \in outdated => <<q, e>> \in outdated'
<1>1. outdated' = {pair \in outdated : pair[1] # p} \cup {<<q, p>> : q \in Known \ {p}}
  BY DEF ReadAgain
<1>2. Known \subseteq Path /\ outdated \subseteq Path \X Path
  BY DEF Known, ChatTypeOK
<1> QED
  BY <1>1, <1>2

--------------------------------------------------------------------------------
(* Scans. *)

\* Beginning, reading and ending change nothing but the scan.
LEMMA ReadingKeeps ==
  ASSUME ChatInv, NEW s \in Scan,
         BeginScan(s) \/ EndScan(s) \/ \E p \in Path : ReadExport(s, p)
  PROVE  ChatInv'
<1>1. ChatTypeOK /\ scan \in [Scan -> ScanState] /\ scan[s] \in ScanState
  BY DEF ChatInv, ChatTypeOK
<1>2. /\ UNCHANGED <<chats, exports, refs, matches, matcher, changes, outdated, overlapped>>
      /\ \A t \in Scan : t # s => scan'[t] = scan[t]
  BY <1>1 DEF BeginScan, EndScan, ReadExport
<1>3. begins' \in 0 .. MaxBegin
  <2>1. begins' = begins \/ (begins < MaxBegin /\ begins' = begins + 1)
    BY DEF BeginScan, EndScan, ReadExport
  <2> QED
    BY <1>1, <2>1, ChatAssumption DEF ChatTypeOK
<1>4. NoScan \in ScanState /\ NoScan.at = "idle"
  BY DEF NoScan, ScanState
<1>5. /\ scan' \in [Scan -> ScanState]
      /\ scan'[s].at = "read" =>
           /\ scan'[s].path \in Path /\ scan'[s].digest \in Content
           /\ exports[scan'[s].path].digest # scan'[s].digest
           /\ ~ scan'[s].isNew => scan'[s].path \in Known
  <2>1. CASE BeginScan(s)
    <3> DEFINE r == [NoScan EXCEPT !.at = "walking", !.todo = {p \in Path : chats[p] # NoContent}]
    <3>1. r \in ScanState /\ r.at = "walking"
      BY <1>4 DEF ScanState
    <3>2. scan' = [scan EXCEPT ![s] = r]
      BY <2>1 DEF BeginScan
    <3> HIDE DEF r
    <3> QED
      BY <1>1, <3>1, <3>2
  <2>2. CASE EndScan(s)
    BY <1>1, <1>4, <2>2 DEF EndScan
  <2>3. ASSUME NEW p \in Path, ReadExport(s, p) PROVE <1>5!:
    <3>1. CASE exports[p].digest = chats[p]
      <4>1. scan'[s] = [scan[s] EXCEPT !.todo = scan[s].todo \ {p}] /\ scan[s].at = "walking"
        BY <1>1, <2>3, <3>1 DEF ReadExport
      <4>2. scan'[s] \in ScanState /\ scan'[s].at = "walking"
        BY <1>1, <4>1 DEF ScanState
      <4> QED
        BY <1>1, <2>3, <4>2 DEF ReadExport
    <3>2. CASE exports[p].digest # chats[p]
      <4>1. chats[p] \in Content
        BY <1>1, <2>3 DEF ReadExport, ChatTypeOK
      <4>2. scan'[s] = [scan[s] EXCEPT !.at = "read", !.path = p, !.digest = chats[p],
                                       !.isNew = exports[p] = NoExport]
        BY <1>1, <2>3, <3>2 DEF ReadExport
      <4>3. /\ scan'[s] \in ScanState /\ scan'[s].path = p /\ scan'[s].digest = chats[p]
            /\ scan'[s].isNew = (exports[p] = NoExport)
        BY <1>1, <4>1, <4>2 DEF ScanState
      <4> QED
        BY <1>1, <2>3, <3>2, <4>1, <4>3 DEF ReadExport, Known
    <3> QED
      BY <3>1, <3>2
  <2> QED
    BY <2>1, <2>2, <2>3
<1>6. UNCHANGED <<Known, Rows>>
  BY <1>2 DEF Known, Rows
<1>7. ChatTypeOK'
  BY <1>1, <1>2, <1>3, <1>5 DEF ChatTypeOK
<1>8. ScansRead' /\ (~ overlapped => ReadIsNew')
  BY <1>2, <1>5, <1>6 DEF ChatInv, ScansRead, ReadIsNew
<1>9. IdsInOrder' /\ (~ overlapped => SeenIsCurrent' /\ OriginalIsOlder')
  BY <1>2, <1>6 DEF ChatInv, IdsInOrder, SeenIsCurrent, OriginalIsOlder
<1>10. SelectedNamesRecording' /\ CopiesAgree'
  BY <1>2, <1>6 DEF ChatInv, SelectedNamesRecording, CopiesAgree
<1> QED
  BY <1>2, <1>7, <1>8, <1>9, <1>10 DEF ChatInv

\* What both ways of recording an export do to references, matches and scans.
LEMMA RecordingKeeps ==
  ASSUME ChatInv, NEW s \in Scan, scan[s].at = "read",
         ReplaceRefs(scan[s].path, scan[s].digest), Recorded(s), UNCHANGED matcher,
         Known \subseteq Known'
  PROVE  /\ refs' \in [Ref -> RefRow \cup {NoRef}] /\ matches' \in [Audio -> Match]
         /\ scan' \in [Scan -> ScanState] /\ overlapped' \in BOOLEAN
         /\ ScansRead' /\ SelectedNamesRecording'
         /\ ~ overlapped' => ~ overlapped /\ ReadIsNew' /\ SeenIsCurrent'
<1>1. /\ ChatTypeOK /\ scan \in [Scan -> ScanState] /\ scan[s] \in ScanState
      /\ scan[s].path \in Path /\ scan[s].digest \in Content
  BY DEF ChatInv, ChatTypeOK, ScansRead
<1> DEFINE r == [NoScan EXCEPT !.at = "walking", !.todo = scan[s].todo \ {scan[s].path}]
<1>2. r \in ScanState /\ r.at = "walking"
  BY <1>1 DEF NoScan, ScanState
<1>3. scan' = [scan EXCEPT ![s] = r]
  BY DEF Recorded
<1> HIDE DEF r
<1>4. scan' \in [Scan -> ScanState] /\ scan'[s].at = "walking"
      /\ \A t \in Scan : t # s => scan'[t] = scan[t]
  BY <1>1, <1>2, <1>3
<1>5. /\ overlapped' \in BOOLEAN
      /\ ~ overlapped' => /\ ~ overlapped /\ matcher = NoRun
                          /\ \A t \in Scan : t # s => scan[t].at # "read"
  BY <1>1 DEF Recorded, ChatTypeOK
<1>6. ScansRead'
  BY <1>4 DEF ChatInv, ScansRead
<1>7. ~ overlapped' => ReadIsNew' /\ SeenIsCurrent'
  BY <1>4, <1>5 DEF ReadIsNew, SeenIsCurrent, NoRun
<1>8. ASSUME ~ overlapped' PROVE SelectedNamesRecording'
  <2> SUFFICES ASSUME NEW a \in Audio, matches'[a].selected # 0
               PROVE  /\ matches'[a].selected \in Rows'
                      /\ Named[refs'[matches'[a].selected].content] = a
    BY DEF SelectedNamesRecording
  <2> DEFINE i == matches[a].selected
  <2>1. matches'[a].selected = i /\ i \notin RefsOf(scan[s].path)
    BY <1>1, ReplacedRefs
  <2>2. i \in Rows /\ Named[refs[i].content] = a
    BY <1>5, <1>8, <2>1 DEF ChatInv, SelectedNamesRecording
  <2>3. refs'[i] = refs[i] /\ i \in Ref /\ refs[i] # NoRef
    BY <1>1, <2>1, <2>2, ReplacedRefs DEF Rows
  <2> QED
    BY <2>1, <2>2, <2>3 DEF Rows
<1> QED
  BY <1>1, <1>4, <1>5, <1>6, <1>7, <1>8, ReplacedRefs DEF SelectedNamesRecording

\* A new export gets the next id.
LEMMA InsertKeeps == ASSUME ChatInv, NEW s \in Scan, InsertExport(s) PROVE ChatInv'
<1> DEFINE p == scan[s].path
           digest == scan[s].digest
<1>1. /\ ChatTypeOK /\ scan[s].at = "read" /\ p \in Path /\ digest \in Content /\ p \notin Known
      /\ UNCHANGED <<chats, matcher, changes, begins, outdated>>
      /\ ReplaceRefs(p, digest) /\ Recorded(s)
  BY DEF InsertExport, ChatInv, ScansRead
<1>2. PICK d \in Path \cup {NoPath} :
        /\ IsDuplicateOf(d, digest)
        /\ exports' = [exports EXCEPT ![p] = [id |-> Cardinality(Known) + 1,
                                              digest |-> digest, duplicate |-> d]]
  BY DEF InsertExport
<1> DEFINE row == [id |-> Cardinality(Known) + 1, digest |-> digest, duplicate |-> d]
<1>3. /\ Cardinality(Known) \in Nat /\ Cardinality(Known \cup {p}) = Cardinality(Known) + 1
      /\ Cardinality(Known) + 1 \in 1 .. Cardinality(Path)
  <2>1. IsFiniteSet(Path) /\ Known \cup {p} \in SUBSET Path
    BY <1>1, ChatAssumption DEF Known
  <2>2. Cardinality(Known \cup {p}) = Cardinality(Known) + 1
    BY <1>1, KnownRows, FS_AddElement
  <2>3. Cardinality(Known \cup {p}) <= Cardinality(Path) /\ Cardinality(Path) \in Nat
    BY <2>1, FS_Subset, FS_CardinalityType
  <2> QED
    BY <1>1, <2>2, <2>3, KnownRows
<1>4. row \in Export
  BY <1>1, <1>3 DEF Export
<1>5. /\ exports' \in [Path -> Export \cup {NoExport}] /\ exports'[p] = row
      /\ \A q \in Path : q # p => exports'[q] = exports[q]
  BY <1>1, <1>2, <1>4 DEF ChatTypeOK
<1>6. row.id = Cardinality(Known) + 1 /\ row.digest = digest /\ row.duplicate = d
  OBVIOUS
<1>7. Known' = Known \cup {p}
  BY <1>1, <1>4, <1>5, KnownRows DEF Known
<1> HIDE DEF row
<1>8. /\ refs' \in [Ref -> RefRow \cup {NoRef}] /\ matches' \in [Audio -> Match]
      /\ scan' \in [Scan -> ScanState] /\ overlapped' \in BOOLEAN
      /\ ScansRead' /\ SelectedNamesRecording'
      /\ ~ overlapped' => ~ overlapped /\ ReadIsNew' /\ SeenIsCurrent'
  BY <1>1, <1>7, RecordingKeeps
<1>9. ChatTypeOK'
  BY <1>1, <1>5, <1>8 DEF ChatTypeOK
<1>10. IdsInOrder'
  <2>1. \A q \in Known : exports[q].id \in Nat /\ exports[q].id <= Cardinality(Known) /\ q \in Path /\ q # p
    BY <1>1, KnownRows DEF ChatInv, IdsInOrder, Known, Export
  <2> QED
    BY <1>3, <1>5, <1>6, <1>7, <2>1 DEF IdsInOrder
<1>11. d # NoPath => /\ d \in Known /\ d # p /\ exports[d].digest = digest /\ d \in Path
                     /\ \A q \in Known : exports[q].digest = digest => exports[d].id <= exports[q].id
  BY <1>1, <1>2, OriginalIsFirst DEF Known
<1>12. ASSUME ~ overlapped' PROVE OriginalIsOlder'
  <2> SUFFICES ASSUME outdated = {}, NEW q \in Known', exports'[q].duplicate # NoPath
               PROVE  /\ exports'[q].duplicate \in Known'
                      /\ exports'[exports'[q].duplicate].digest = exports'[q].digest
                      /\ exports'[exports'[q].duplicate].id < exports'[q].id
    BY <1>1 DEF OriginalIsOlder
  <2>1. CASE q = p
    <3>1. exports[d].id <= Cardinality(Known) /\ exports[d].id \in Nat
      BY <1>1, <1>5, <1>6, <1>11, <2>1, KnownRows DEF ChatInv, IdsInOrder, Export
    <3> QED
      BY <1>3, <1>5, <1>6, <1>7, <1>11, <2>1, <3>1
  <2>2. CASE q # p
    <3>1. q \in Known /\ exports'[q] = exports[q]
      BY <1>5, <1>7, <2>2 DEF Known
    <3>2. /\ exports[q].duplicate \in Known
          /\ exports[exports[q].duplicate].digest = exports[q].digest
          /\ exports[exports[q].duplicate].id < exports[q].id
      BY <1>8, <1>12, <3>1 DEF ChatInv, OriginalIsOlder
    <3> QED
      BY <1>1, <1>5, <1>7, <3>1, <3>2 DEF Known
  <2> QED
    BY <2>1, <2>2
<1>13. ASSUME ~ overlapped' PROVE CopiesAgree'
  <2> SUFFICES ASSUME NEW q \in Known', NEW e, e = exports'[q].duplicate, e # NoPath,
                      <<q, e>> \notin outdated
               PROVE  /\ e \in Known' /\ e # q /\ exports'[e].digest = exports'[q].digest
                      /\ outdated = {} => exports'[e].duplicate = NoPath
    BY <1>1 DEF CopiesAgree
  <2>1. CASE q = p
    <3>1. e = d /\ exports'[d] = exports[d]
      BY <1>5, <1>6, <1>11, <2>1
    <3>2. ASSUME outdated = {}, exports[d].duplicate # NoPath PROVE FALSE
      <4> DEFINE f == exports[d].duplicate
      <4>1. f \in Known /\ exports[f].digest = exports[d].digest /\ exports[f].id < exports[d].id
        BY <1>8, <1>11, <1>13, <3>1, <3>2 DEF ChatInv, OriginalIsOlder
      <4>2. exports[d].id <= exports[f].id
        BY <1>11, <3>1, <4>1
      <4>3. exports[d].id \in Nat /\ exports[f].id \in Nat
        BY <1>1, <1>11, <3>1, <4>1, KnownRows DEF Export
      <4> QED
        BY <4>1, <4>2, <4>3
    <3> QED
      BY <1>5, <1>6, <1>7, <1>11, <2>1, <3>1, <3>2
  <2>2. CASE q # p
    <3>1. q \in Known /\ exports'[q] = exports[q]
      BY <1>5, <1>7, <2>2 DEF Known
    <3>2. /\ e \in Known /\ e # q /\ exports[e].digest = exports[q].digest
          /\ outdated = {} => exports[e].duplicate = NoPath
      BY <1>8, <1>13, <3>1 DEF ChatInv, CopiesAgree
    <3> QED
      BY <1>1, <1>5, <1>7, <3>1, <3>2 DEF Known
  <2> QED
    BY <2>1, <2>2
<1> QED
  BY <1>8, <1>9, <1>10, <1>12, <1>13 DEF ChatInv, CopiesAgree

\* An export that is read again keeps its id.
LEMMA UpdateKeeps == ASSUME ChatInv, NEW s \in Scan, UpdateExport(s) PROVE ChatInv'
<1> DEFINE p == scan[s].path
           digest == scan[s].digest
<1>1. /\ ChatTypeOK /\ scan[s].at = "read" /\ ~ scan[s].isNew
      /\ p \in Path /\ digest \in Content /\ p \in Known
      /\ UNCHANGED <<chats, matcher, changes, begins>>
      /\ ReplaceRefs(p, digest) /\ Recorded(s) /\ ReadAgain(p)
  BY DEF UpdateExport, ChatInv, ScansRead
<1>2. PICK d \in Path \cup {NoPath} :
        /\ IsDuplicateOf(d, digest)
        /\ exports' = [exports EXCEPT ![p].digest = digest, ![p].duplicate = d]
  BY DEF UpdateExport
<1>3. exports[p] \in Export
  BY <1>1, KnownRows
<1>4. /\ exports' \in [Path -> Export \cup {NoExport}] /\ exports'[p] \in Export
      /\ exports'[p].id = exports[p].id /\ exports'[p].digest = digest /\ exports'[p].duplicate = d
      /\ \A q \in Path : q # p => exports'[q] = exports[q]
  BY <1>1, <1>2, <1>3 DEF ChatTypeOK, Export
<1>5. Known' = Known
  BY <1>1, <1>4, KnownRows DEF Known
<1>6. /\ refs' \in [Ref -> RefRow \cup {NoRef}] /\ matches' \in [Audio -> Match]
      /\ scan' \in [Scan -> ScanState] /\ overlapped' \in BOOLEAN
      /\ ScansRead' /\ SelectedNamesRecording'
      /\ ~ overlapped' => ~ overlapped /\ ReadIsNew' /\ SeenIsCurrent'
  BY <1>1, <1>5, RecordingKeeps
<1>7. /\ outdated' \subseteq Path \X Path
      /\ \A q \in Known : q # p => <<q, p>> \in outdated'
      /\ \A q, e \in Path : q # p /\ <<q, e>> \in outdated => <<q, e>> \in outdated'
  BY <1>1, Outdated
<1>8. ChatTypeOK'
  BY <1>1, <1>4, <1>6, <1>7 DEF ChatTypeOK
<1>9. IdsInOrder'
  BY <1>4, <1>5 DEF ChatInv, IdsInOrder, Known
<1>10. ASSUME ~ overlapped', d # NoPath
       PROVE  d \in Known /\ d # p /\ d \in Path /\ exports'[d].digest = digest
  <2>1. d \in Known /\ exports[d].digest = digest
    BY <1>2, <1>10, OriginalIsFirst
  <2>2. exports[p].digest # digest
    BY <1>1, <1>6, <1>10 DEF ChatInv, ReadIsNew
  <2> QED
    BY <1>4, <2>1, <2>2 DEF Known
<1>11. ASSUME ~ overlapped' PROVE OriginalIsOlder'
  <2> SUFFICES ASSUME outdated' = {}, NEW q \in Known, exports'[q].duplicate # NoPath PROVE FALSE
    BY <1>5 DEF OriginalIsOlder
  <2>1. q = p
    BY <1>7
  <2> QED
    BY <1>4, <1>7, <1>10, <1>11, <2>1
<1>12. ASSUME ~ overlapped' PROVE CopiesAgree'
  <2> SUFFICES ASSUME NEW q \in Known, NEW e, e = exports'[q].duplicate, e # NoPath,
                      <<q, e>> \notin outdated'
               PROVE  /\ e \in Known /\ e # q /\ exports'[e].digest = exports'[q].digest
                      /\ outdated' = {} => exports'[e].duplicate = NoPath
    BY <1>5 DEF CopiesAgree
  <2>1. CASE q = p
    BY <1>4, <1>7, <1>10, <1>12, <2>1
  <2>2. CASE q # p
    <3>1. exports'[q] = exports[q] /\ q \in Path /\ exports[q] \in Export
      BY <1>1, <1>4, <2>2, KnownRows DEF Known
    <3>2. e \in Path /\ e # p /\ <<q, e>> \notin outdated
      BY <1>7, <2>2, <3>1 DEF Export
    <3>3. e \in Known /\ e # q /\ exports[e].digest = exports[q].digest
      BY <1>6, <1>12, <3>1, <3>2 DEF ChatInv, CopiesAgree
    <3>4. outdated' # {}
      BY <1>7, <2>2
    <3> QED
      BY <1>4, <3>1, <3>2, <3>3, <3>4
  <2> QED
    BY <2>1, <2>2
<1> QED
  BY <1>6, <1>8, <1>9, <1>11, <1>12 DEF ChatInv, CopiesAgree

--------------------------------------------------------------------------------
(* The matcher, and the files. *)

\* What a run reads is what is there, and what it records names the recording.
LEMMA MatcherKeeps ==
  ASSUME ChatInv, BeginMatching \/ EndMatching \/ \E a \in Audio : RecordMatches(a)
  PROVE  ChatInv'
<1>1. /\ ChatTypeOK /\ matches \in [Audio -> Match]
      /\ matcher \in [todo : SUBSET Audio, seen : SUBSET Seen]
  BY DEF ChatInv, ChatTypeOK
<1>2. UNCHANGED <<chats, exports, refs, scan, changes, outdated, overlapped>>
  BY DEF BeginMatching, EndMatching, RecordMatches
<1>3. begins' \in 0 .. MaxBegin
  <2>1. begins' = begins \/ (begins < MaxBegin /\ begins' = begins + 1)
    BY DEF BeginMatching, EndMatching, RecordMatches
  <2> QED
    BY <1>1, <2>1, ChatAssumption DEF ChatTypeOK
<1>4. /\ matcher' \in [todo : SUBSET Audio, seen : SUBSET Seen] /\ matches' \in [Audio -> Match]
      /\ ~ overlapped => SeenIsCurrent'
      /\ SelectedNamesRecording'
  <2>1. CASE BeginMatching
    <3> DEFINE read == {[id |-> r, content |-> refs[r].content,
                         duplicate |-> exports[refs[r].path].duplicate # NoPath] : r \in Rows}
    <3>1. matcher' = [todo |-> Audio, seen |-> read] /\ UNCHANGED matches
      BY <2>1 DEF BeginMatching
    <3>2. read \subseteq Seen
      <4> SUFFICES ASSUME NEW r \in Rows
                   PROVE  [id |-> r, content |-> refs[r].content,
                           duplicate |-> exports[refs[r].path].duplicate # NoPath] \in Seen
        OBVIOUS
      <4>1. r \in Ref /\ refs[r].content \in Content
        BY <1>1, RefRows DEF RefRow
      <4>2. (exports[refs[r].path].duplicate # NoPath) \in BOOLEAN
        OBVIOUS
      <4> QED
        BY <4>1, <4>2 DEF Seen
    <3>3. \A r \in read : r.id \in Rows /\ refs[r.id].content = r.content
      OBVIOUS
    <3> HIDE DEF read
    <3>4. SeenIsCurrent'
      BY <1>2, <3>1, <3>3 DEF SeenIsCurrent, Rows
    <3> QED
      BY <1>1, <1>2, <3>1, <3>2, <3>4 DEF ChatInv, SelectedNamesRecording, Rows
  <2>2. CASE EndMatching
    <3>1. matcher' = NoRun /\ UNCHANGED matches
      BY <2>2 DEF EndMatching
    <3> QED
      BY <1>1, <1>2, <3>1 DEF NoRun, SeenIsCurrent, ChatInv, SelectedNamesRecording, Rows
  <2>3. ASSUME NEW a \in Audio, RecordMatches(a) PROVE <1>4!:
    <3> DEFINE verdict == Verdict(a, matcher.seen)
    <3>1. /\ matches' = [matches EXCEPT ![a] = verdict]
          /\ matcher' = NoRun \/ matcher' = [matcher EXCEPT !.todo = @ \ {a}]
      BY <2>3 DEF RecordMatches
    <3>2. /\ verdict.candidates \subseteq Ids(matcher.seen)
          /\ verdict.selected # 0 =>
               \E r \in matcher.seen : r.id = verdict.selected /\ Named[r.content] = a
      BY VerdictSound
    <3>3. \A r \in matcher.seen : r.id \in Ref
      BY <1>1 DEF Seen
    <3>4. verdict \in Match
      <4>1. verdict.candidates \subseteq Ref /\ verdict.selected \in Ref \cup {0}
        BY <3>2, <3>3 DEF Ids
      <4>2. verdict = [candidates |-> verdict.candidates, selected |-> verdict.selected]
        BY DEF Verdict
      <4> QED
        BY <4>1, <4>2 DEF Match
    <3> HIDE DEF verdict
    <3>5. /\ matches' \in [Audio -> Match] /\ matches'[a] = verdict
          /\ \A b \in Audio : b # a => matches'[b] = matches[b]
      BY <1>1, <3>1, <3>4
    <3>6. /\ matcher' \in [todo : SUBSET Audio, seen : SUBSET Seen]
          /\ matcher'.seen \subseteq matcher.seen
      BY <1>1, <3>1 DEF NoRun
    <3>7. ~ overlapped => SeenIsCurrent'
      BY <1>2, <3>6 DEF ChatInv, SeenIsCurrent, Rows
    <3>8. SelectedNamesRecording'
      <4>1. ~ overlapped /\ verdict.selected # 0 =>
              verdict.selected \in Rows /\ Named[refs[verdict.selected].content] = a
        BY <3>2 DEF ChatInv, SeenIsCurrent
      <4> QED
        BY <1>2, <3>5, <4>1 DEF ChatInv, SelectedNamesRecording, Rows
    <3> QED
      BY <3>5, <3>6, <3>7, <3>8
  <2> QED
    BY <2>1, <2>2, <2>3
<1>5. UNCHANGED Known
  BY <1>2 DEF Known
<1>6. ChatTypeOK'
  BY <1>1, <1>2, <1>3, <1>4 DEF ChatTypeOK
<1> QED
  BY <1>2, <1>4, <1>5, <1>6 DEF ChatInv, ScansRead, IdsInOrder, ReadIsNew, OriginalIsOlder, CopiesAgree

\* A file that changes is not read yet.
LEMMA ChangeKeeps ==
  ASSUME ChatInv, (\E p \in Path : ChangeChat(p)) \/ UNCHANGED chatVars PROVE ChatInv'
<1>1. UNCHANGED <<exports, refs, matches, scan, matcher, begins, outdated, overlapped>>
  BY DEF ChangeChat, chatVars
<1>2. chats' \in [Path -> Content \cup {NoContent}] /\ changes' \in 0 .. MaxChange
  <2>1. chats \in [Path -> Content \cup {NoContent}] /\ changes \in 0 .. MaxChange
    BY DEF ChatInv, ChatTypeOK
  <2>2. CASE UNCHANGED chatVars
    BY <2>1, <2>2 DEF chatVars
  <2>3. ASSUME NEW p \in Path, ChangeChat(p) PROVE <1>2!:
    BY <2>1, <2>3, ChatAssumption DEF ChangeChat
  <2> QED
    BY <2>2, <2>3
<1>3. UNCHANGED <<Known, Rows>>
  BY <1>1 DEF Known, Rows
<1>4. ChatTypeOK'
  BY <1>1, <1>2 DEF ChatInv, ChatTypeOK
<1> QED
  BY <1>1, <1>3, <1>4 DEF ChatInv, ScansRead, IdsInOrder, ReadIsNew, SeenIsCurrent, OriginalIsOlder,
     SelectedNamesRecording, CopiesAgree

--------------------------------------------------------------------------------
(* The theorems. *)

\* Scans and runs of the matcher, cut off anywhere.
THEOREM ChatInvariant == ChatSpec => []ChatInv
<1>1. ChatInit => ChatInv
  <2> SUFFICES ASSUME ChatInit PROVE ChatInv
    OBVIOUS
  <2>1. Known = {} /\ \A s \in Scan : scan[s].at = "idle"
    BY DEF ChatInit, Known, NoScan
  <2>2. /\ NoScan \in ScanState /\ NoMatch \in Match
        /\ NoRun \in [todo : SUBSET Audio, seen : SUBSET Seen] /\ NoRun.seen = {}
    BY DEF NoScan, ScanState, NoMatch, Match, NoRun
  <2>3. ChatTypeOK
    <3>1. /\ chats \in [Path -> Content \cup {NoContent}]
          /\ exports \in [Path -> Export \cup {NoExport}]
          /\ refs \in [Ref -> RefRow \cup {NoRef}]
      BY DEF ChatInit
    <3>2. matches \in [Audio -> Match] /\ scan \in [Scan -> ScanState]
      BY <2>2 DEF ChatInit
    <3>3. matcher \in [todo : SUBSET Audio, seen : SUBSET Seen]
      BY <2>2 DEF ChatInit
    <3>4. changes \in 0 .. MaxChange /\ begins \in 0 .. MaxBegin
      BY ChatAssumption DEF ChatInit
    <3>5. outdated \subseteq Path \X Path /\ overlapped \in BOOLEAN
      BY DEF ChatInit
    <3> QED
      BY <3>1, <3>2, <3>3, <3>4, <3>5 DEF ChatTypeOK
  <2>4. \A a \in Audio : matches[a].selected = 0
    BY DEF ChatInit, NoMatch
  <2>5. SeenIsCurrent
    BY <2>2 DEF ChatInit, SeenIsCurrent
  <2> QED
    BY <2>1, <2>3, <2>4, <2>5 DEF ChatInv, ScansRead, IdsInOrder, ReadIsNew, OriginalIsOlder,
       SelectedNamesRecording, CopiesAgree
<1>2. ChatInv /\ [ChatNext]_chatVars => ChatInv'
  BY ReadingKeeps, InsertKeeps, UpdateKeeps, MatcherKeeps, ChangeKeeps DEF ChatNext, ScanStep
<1> QED
  BY <1>1, <1>2, PTL DEF ChatSpec

\* The types of all variables.
THEOREM ChatTypes == ChatSpec => []ChatTypeOK
<1>1. ChatInv => ChatTypeOK
  BY DEF ChatInv
<1> QED
  BY <1>1, ChatInvariant, PTL

\* While scans and the matcher take turns, what is selected for a recording is a
\* reference that exists and names it.
THEOREM SelectionsAreSound == ChatSpec => []SelectedNamesRecording
<1>1. ChatInv => SelectedNamesRecording
  BY DEF ChatInv
<1> QED
  BY <1>1, ChatInvariant, PTL

\* In the same case an export is marked as a copy of one with the same bytes, until
\* that one is read again.
THEOREM CopiesAreCopies == ChatSpec => []CopiesAgree
<1>1. ChatInv => CopiesAgree
  BY DEF ChatInv
<1> QED
  BY <1>1, ChatInvariant, PTL
================================================================================
