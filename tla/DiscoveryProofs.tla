----------------------------- MODULE DiscoveryProofs -----------------------------
(***************************************************************************)
(* Proofs about Discovery, for any number of scans, paths, contents and    *)
(* rows.  The one fact that the safety properties hang on is OneOwner: it  *)
(* makes the version that audio_for_sha256 finds the only one, so that     *)
(* what it does not find is really new.                                    *)
(***************************************************************************)
EXTENDS Discovery, TLAPS

\* A row that has not been inserted has neither a place nor versions.
Fresh ==
  /\ \A r \in Row : r > count => at[r] = NoPlace /\ current[r] = NoVersion
  /\ \A v \in versions : v.row <= count

\* A scan that has read a file has it in hand.
InHand ==
  \A s \in Scan : phase[s] = "read" =>
    hand[s] \in [path : Path, digest : Content \cup {NoDigest}]

DiscoveryInv == TypeOK /\ Fresh /\ InHand /\ OneOwner /\ VersionsAgree

--------------------------------------------------------------------------------
(* What the transaction of _scan_one relies on. *)

\* A digest that audio_for_sha256 does not find is of no version at all.
LEMMA UnknownIsNew ==
  ASSUME TypeOK, OneOwner, NEW d, IsUnknown(d)
  PROVE  \A v \in versions : v.content # d
<1> SUFFICES ASSUME NEW v \in versions, v.content = d PROVE FALSE
  OBVIOUS
<1>1. v.row \in Nat
  BY DiscoveryAssumption DEF TypeOK, Version, Row
<1>2. \A w \in versions : w.content = d => w = v
  BY DEF OneOwner
<1>3. IsKnown(v, d)
  BY <1>1, <1>2 DEF IsKnown
<1> QED
  BY <1>3 DEF IsUnknown

\* The place of the file in hand is one.
LEMMA SpotIsPlace ==
  ASSUME TypeOK, InHand, NEW s \in Scan, phase[s] = "read"
  PROVE  /\ Spot(s) \in Place /\ Spot(s) # NoPlace
         /\ hand[s].path \in Path /\ hand[s].digest \in Content \cup {NoDigest}
<1>1. hand[s].path \in Path /\ hand[s].digest \in Content \cup {NoDigest}
  BY DEF InHand
<1>2. Spot(s) \in Place
  BY <1>1 DEF Spot, PlaceOf, Place
<1>3. \A p \in Place : p # NoPlace
  BY DEF Place, NoPlace
<1> QED
  BY <1>1, <1>2, <1>3

\* A row that is found at a place has been inserted.
LEMMA FoundIsInserted ==
  ASSUME TypeOK, Fresh, InHand, NEW s \in Scan, phase[s] = "read",
         NEW r \in Row, IsAtPath(s, r)
  PROVE  at[r] = Spot(s) /\ r <= count
<1>1. r # 0
  BY DiscoveryAssumption DEF Row
<1>2. at[r] = Spot(s)
  BY <1>1 DEF IsAtPath, At
<1>3. at[r] # NoPlace
  BY <1>2, SpotIsPlace
<1> QED
  BY <1>2, <1>3, DiscoveryAssumption DEF Fresh, TypeOK, Row

--------------------------------------------------------------------------------
(* Type correctness. *)

\* Leaving one file behind keeps the types of the scans, and what is in hand.
LEMMA RecordedTypes ==
  ASSUME TypeOK, InHand, NEW s \in Scan, Recorded(s)
  PROVE  /\ disk' \in [Path -> Content \cup {Gone, Bad}] /\ changes' \in 0 .. MaxChange
         /\ begun' \in 0 .. MaxBegin
         /\ phase' \in [Scan -> {"idle", "walking", "read", "ended"}]
         /\ kind' \in [Scan -> {"folder", "files"}]
         /\ listed' \in [Scan -> SUBSET Path] /\ todo' \in [Scan -> SUBSET Path]
         /\ hand' \in [Scan -> [path : Path, digest : Content \cup {NoDigest}] \cup {NoHand}]
         /\ quiet' \in [Scan -> BOOLEAN]
         /\ InHand'
<1> USE DEF TypeOK, Recorded, files
<1>1. InHand'
  BY DEF InHand
<1> QED
  BY <1>1

\* An observation is of a row, and gives it a place.
LEMMA ObserveTypes ==
  ASSUME TypeOK, InHand, NEW s \in Scan, phase[s] = "read", NEW r \in Row, Observe(s, r)
  PROVE  /\ at' \in [Row -> Place \cup {NoPlace}] /\ readable' \in [Row -> BOOLEAN]
         /\ active' \in [Row -> Place \cup {NoPlace}]
BY SpotIsPlace DEF TypeOK, Observe

\* Marking a version current.
LEMMA MarkTypes ==
  ASSUME TypeOK, NEW v \in Version, MarkCurrent(v)
  PROVE  current' \in [Row -> Version \cup {NoVersion}] /\ flagged' \subseteq Version
BY DEF TypeOK, MarkCurrent, Version

\* The transaction of _scan_one keeps the types.
LEMMA RecordTypes ==
  ASSUME TypeOK, InHand, NEW s \in Scan, Record(s)
  PROVE  TypeOK' /\ InHand'
<1>0. Recorded(s) /\ phase[s] = "read"
  BY DEF Record, Unchanged, Replaced, Damaged, Restored, Relinked, Created,
         CreatedWithoutVersion, Recorded
<1>d. hand[s].digest # NoDigest => hand[s].digest \in Content
  BY <1>0, SpotIsPlace
<1>1. ASSUME NEW r \in Row, Unchanged(s, r) \/ Damaged(s, r) PROVE TypeOK' /\ InHand'
  <2>1. Observe(s, r) /\ UNCHANGED <<count, state, current, versions, flagged>>
    BY <1>1 DEF Unchanged, Damaged
  <2> QED
    BY <1>0, <2>1, RecordedTypes, ObserveTypes DEF TypeOK
<1>2. ASSUME NEW r \in Row, Replaced(s, r) PROVE TypeOK' /\ InHand'
  <2> DEFINE v == [row |-> r, content |-> hand[s].digest]
  <2>1. /\ Observe(s, r) /\ MarkCurrent(v) /\ versions' = versions \cup {v}
        /\ state' = [state EXCEPT ![r] = "stale_source_changed"]
        /\ UNCHANGED count /\ v \in Version
    BY <1>2, <1>d DEF Replaced, Version
  <2> QED
    BY <1>0, <2>1, RecordedTypes, ObserveTypes, MarkTypes DEF TypeOK, States
<1>3. ASSUME NEW r \in Row, NEW v \in versions, Restored(s, r, v) PROVE TypeOK' /\ InHand'
  <2>1. /\ Observe(s, r) /\ MarkCurrent(v) /\ UNCHANGED <<count, versions>>
        /\ state' = [state EXCEPT ![r] = "stale_source_changed"] /\ v \in Version
    BY <1>3 DEF Restored, TypeOK
  <2> QED
    BY <1>0, <2>1, RecordedTypes, ObserveTypes, MarkTypes DEF TypeOK, States
<1>4. ASSUME NEW r \in Row \cup {0}, NEW v \in versions, Relinked(s, r, v)
      PROVE  TypeOK' /\ InHand'
  <2>1. /\ Observe(s, v.row) /\ v.row \in Row
        /\ UNCHANGED <<count, state, current, versions, flagged>>
    BY <1>4 DEF Relinked, TypeOK, Version
  <2> QED
    BY <1>0, <2>1, RecordedTypes, ObserveTypes DEF TypeOK
<1>5. CASE Created(s) \/ CreatedWithoutVersion(s)
  <2> DEFINE r == count + 1
             v == [row |-> r, content |-> hand[s].digest]
  <2>1. r \in Row /\ r \in 0 .. MaxRow /\ count' = r /\ Observe(s, r)
    BY <1>5, DiscoveryAssumption DEF Created, CreatedWithoutVersion, TypeOK, Row
  <2>2. state' \in [Row -> States]
    BY <1>5 DEF Created, CreatedWithoutVersion, TypeOK, States
  <2>3. CASE Created(s)
    <3>1. MarkCurrent(v) /\ versions' = versions \cup {v} /\ v \in Version
      BY <2>1, <2>3, <1>d DEF Created, Version
    <3> QED
      BY <1>0, <2>1, <2>2, <3>1, RecordedTypes, ObserveTypes, MarkTypes DEF TypeOK
  <2>4. CASE CreatedWithoutVersion(s)
    <3>1. UNCHANGED <<current, versions, flagged>>
      BY <2>4 DEF CreatedWithoutVersion
    <3> QED
      BY <1>0, <2>1, <2>2, <3>1, RecordedTypes, ObserveTypes DEF TypeOK
  <2> QED
    BY <1>5, <2>3, <2>4
<1> QED
  BY <1>1, <1>2, <1>3, <1>4, <1>5 DEF Record

\* The other steps of a scan keep the types.
LEMMA ScanTypes ==
  ASSUME TypeOK, InHand, NEW s \in Scan, ScanStep(s), ~ Record(s)
  PROVE  TypeOK' /\ InHand'
<1> USE DEF TypeOK, registry, files, scans
<1>1. ASSUME NEW k \in {"folder", "files"}, NEW S \in SUBSET Path, Begin(s, k, S)
      PROVE  TypeOK' /\ InHand'
  <2>1. begun' \in 0 .. MaxBegin
    BY <1>1, DiscoveryAssumption DEF Begin
  <2>2. TypeOK'
    BY <1>1, <2>1 DEF Begin
  <2>3. InHand'
    BY <1>1 DEF Begin, InHand
  <2> QED
    BY <2>2, <2>3
<1>2. CASE Finish(s)
  <2>1. state' \in [Row -> States] /\ active' \in [Row -> Place \cup {NoPlace}]
    BY <1>2 DEF Finish, MarkMissing, States
  <2>2. TypeOK'
    BY <1>2, <2>1 DEF Finish
  <2>3. InHand'
    BY <1>2 DEF Finish, InHand
  <2> QED
    BY <2>2, <2>3
<1>3. CASE Abort(s)
  <2>1. TypeOK'
    BY <1>3 DEF Abort
  <2>2. InHand'
    BY <1>3 DEF Abort, InHand
  <2> QED
    BY <2>1, <2>2
<1>4. ASSUME NEW p \in Path, Read(s, p) PROVE TypeOK' /\ InHand'
  <2>1. hand'[s] \in [path : Path, digest : Content \cup {NoDigest}]
    BY <1>4 DEF Read
  <2>2. TypeOK'
    BY <1>4, <2>1 DEF Read
  <2>3. InHand'
    BY <1>4, <2>1 DEF Read, InHand
  <2> QED
    BY <2>2, <2>3
<1> QED
  BY <1>1, <1>2, <1>3, <1>4 DEF ScanStep, BeginFolder, BeginFiles, Existing

\* So do the files and the worker.
LEMMA OutsideTypes == ASSUME TypeOK, InHand, Outside PROVE TypeOK' /\ InHand'
<1> USE DEF TypeOK, registry, files, scans
<1>1. ASSUME NEW p \in Path, Write(p) PROVE TypeOK' /\ InHand'
  <2>1. changes' \in 0 .. MaxChange
    BY <1>1, DiscoveryAssumption DEF Write
  <2> QED
    BY <1>1, <2>1 DEF Write, InHand
<1>2. ASSUME NEW p \in Path, NEW q \in Path, Rename(p, q) PROVE TypeOK' /\ InHand'
  <2>1. changes' \in 0 .. MaxChange
    BY <1>2, DiscoveryAssumption DEF Rename
  <2>2. disk' \in [Path -> Content \cup {Gone, Bad}]
    BY <1>2 DEF Rename
  <2> QED
    BY <1>2, <2>1, <2>2 DEF Rename, InHand
<1>3. ASSUME NEW r \in Row, Transcribed(r) PROVE TypeOK' /\ InHand'
  BY <1>3 DEF Transcribed, States, InHand
<1> QED
  BY <1>1, <1>2, <1>3 DEF Outside

--------------------------------------------------------------------------------
(* The safety of the registry. *)

\* What each way to record a file does to the registry.  None but a row that is
\* found, or owns the bytes, or is new changes; and a version that becomes current
\* either was one already or has bytes that no version has.
Effect(s) ==
  \/ /\ UNCHANGED <<count, state, current, versions, flagged>>
     /\ \E r \in Row : Observe(s, r) /\ r <= count
  \/ \E r \in Row : \E v \in Version :
       /\ v.row = r /\ current[r] # v
       /\ MarkCurrent(v) /\ Observe(s, r)
       /\ versions' = versions \cup {v}
       /\ \/ v \in versions
          \/ \A w \in versions : w.content # v.content
       /\ \/ /\ r <= count /\ count' = count
             /\ state' = [state EXCEPT ![r] = "stale_source_changed"]
          \/ /\ r = count + 1 /\ count' = r
             /\ state' = [state EXCEPT ![r] = "discovered"]
  \/ \E r \in Row :
       /\ r = count + 1 /\ count' = r /\ Observe(s, r)
       /\ state' = [state EXCEPT ![r] = "missing_source"]
       /\ UNCHANGED <<current, versions, flagged>>

LEMMA RecordEffect ==
  ASSUME DiscoveryInv, NEW s \in Scan, Record(s)
  PROVE  Effect(s)
<1> USE DEF DiscoveryInv
<1>0. phase[s] = "read"
  BY DEF Record, Unchanged, Replaced, Damaged, Restored, Relinked, Created,
         CreatedWithoutVersion, Recorded
<1>d. hand[s].digest # NoDigest => hand[s].digest \in Content
  BY <1>0, SpotIsPlace
<1>1. ASSUME NEW r \in Row, Unchanged(s, r) \/ Damaged(s, r) PROVE Effect(s)
  <2>1. IsAtPath(s, r) /\ Observe(s, r) /\ UNCHANGED <<count, state, current, versions, flagged>>
    BY <1>1 DEF Unchanged, Damaged, IsOther
  <2> QED
    BY <1>0, <2>1, FoundIsInserted DEF Effect
<1>2. ASSUME NEW r \in Row, Replaced(s, r) PROVE Effect(s)
  <2> DEFINE v == [row |-> r, content |-> hand[s].digest]
  <2>1. /\ IsAtPath(s, r) /\ Observe(s, r) /\ MarkCurrent(v) /\ versions' = versions \cup {v}
        /\ state' = [state EXCEPT ![r] = "stale_source_changed"]
        /\ count' = count /\ v \in Version /\ v.row = r /\ IsUnknown(v.content)
        /\ current[r] # v
    BY <1>2, <1>d DEF Replaced, Version, IsOther, Row
  <2>2. r <= count
    BY <1>0, <2>1, FoundIsInserted
  <2>3. \A w \in versions : w.content # v.content
    BY <2>1, UnknownIsNew
  <2> HIDE DEF v
  <2> QED
    BY <2>1, <2>2, <2>3 DEF Effect
<1>3. ASSUME NEW r \in Row, NEW v \in versions, Restored(s, r, v) PROVE Effect(s)
  <2>1. /\ Observe(s, r) /\ MarkCurrent(v) /\ v.row = r /\ versions' = versions \cup {v}
        /\ state' = [state EXCEPT ![r] = "stale_source_changed"]
        /\ count' = count /\ v \in Version /\ current[r] # v
    BY <1>3, DiscoveryAssumption DEF Restored, TypeOK, IsOther, IsKnown, Row
  <2>2. r <= count
    BY <2>1 DEF Fresh
  <2> QED
    BY <2>1, <2>2 DEF Effect
<1>4. ASSUME NEW r \in Row \cup {0}, NEW v \in versions, Relinked(s, r, v) PROVE Effect(s)
  <2>1. /\ Observe(s, v.row) /\ v.row \in Row /\ v.row <= count
        /\ UNCHANGED <<count, state, current, versions, flagged>>
    BY <1>4 DEF Relinked, TypeOK, Version, Fresh
  <2> QED
    BY <2>1 DEF Effect
<1>5. CASE Created(s)
  <2> DEFINE r == count + 1
             v == [row |-> r, content |-> hand[s].digest]
  <2>1. r \in Row /\ r > count
    BY <1>5, DiscoveryAssumption DEF Created, TypeOK, Row
  <2>2. /\ Observe(s, r) /\ MarkCurrent(v) /\ versions' = versions \cup {v}
        /\ state' = [state EXCEPT ![r] = "discovered"]
        /\ count' = r /\ v \in Version /\ v.row = r /\ IsUnknown(v.content)
    BY <1>5, <1>d, <2>1 DEF Created, Version
  <2>3. \A w \in versions : w.content # v.content
    BY <2>2, UnknownIsNew
  <2>4. current[r] # v
    BY <2>1, <2>2, DiscoveryAssumption DEF Fresh, NoVersion, Row
  <2> HIDE DEF v
  <2> QED
    BY <2>1, <2>2, <2>3, <2>4 DEF Effect
<1>6. CASE CreatedWithoutVersion(s)
  <2>1. count + 1 \in Row
    BY <1>6, DiscoveryAssumption DEF CreatedWithoutVersion, TypeOK, Row
  <2> QED
    BY <1>6, <2>1 DEF CreatedWithoutVersion, Effect
<1> QED
  BY <1>1, <1>2, <1>3, <1>4, <1>5, <1>6 DEF Record

\* A version that becomes current keeps the two records in agreement.
LEMMA MarkKeepsAgreement ==
  ASSUME TypeOK, VersionsAgree, NEW v \in Version, MarkCurrent(v),
         versions' = versions \cup {v}
  PROVE  VersionsAgree'
<1>1. v # NoVersion /\ v.row \in Row
  BY DiscoveryAssumption DEF Version, NoVersion, Row
<1>2. flagged' \subseteq versions'
  BY DEF MarkCurrent, VersionsAgree
<1>3. ASSUME NEW r \in Row
      PROVE  {w \in flagged' : w.row = r} = IF current'[r] = NoVersion THEN {} ELSE {current'[r]}
  <2>1. CASE r = v.row
    BY <1>1, <2>1 DEF MarkCurrent, TypeOK
  <2>2. CASE r # v.row
    <3>1. current'[r] = current[r]
      BY <2>2 DEF MarkCurrent, TypeOK
    <3>2. {w \in flagged' : w.row = r} = {w \in flagged : w.row = r}
      BY <2>2 DEF MarkCurrent
    <3> QED
      BY <3>1, <3>2 DEF VersionsAgree
  <2> QED
    BY <2>1, <2>2
<1> QED
  BY <1>2, <1>3 DEF VersionsAgree

\* The transaction of _scan_one keeps the invariant.
LEMMA RecordSafe ==
  ASSUME DiscoveryInv, NEW s \in Scan, Record(s)
  PROVE  Fresh' /\ OneOwner' /\ VersionsAgree'
<1> USE DEF DiscoveryInv
<1>c. count \in Nat
  BY DiscoveryAssumption DEF TypeOK
<1>1. CASE UNCHANGED <<count, state, current, versions, flagged>>
             /\ \E r \in Row : Observe(s, r) /\ r <= count
  <2>1. Fresh'
    BY <1>1, <1>c, DiscoveryAssumption DEF Fresh, Observe, TypeOK, Row
  <2> QED
    BY <1>1, <2>1 DEF OneOwner, VersionsAgree
<1>2. ASSUME NEW r \in Row, NEW v \in Version,
             v.row = r, MarkCurrent(v), Observe(s, r), versions' = versions \cup {v},
             v \in versions \/ \A w \in versions : w.content # v.content,
             r <= count', count <= count', count' \in Nat
      PROVE  Fresh' /\ OneOwner' /\ VersionsAgree'
  <2>1. Fresh'
    <3>1. ASSUME NEW q \in Row, q > count' PROVE at'[q] = NoPlace /\ current'[q] = NoVersion
      <4>1. q > count /\ q # r
        BY <1>2, <1>c, <3>1, DiscoveryAssumption DEF Row
      <4> QED
        BY <1>2, <4>1 DEF Fresh, Observe, MarkCurrent, TypeOK
    <3>2. ASSUME NEW w \in versions' PROVE w.row <= count'
      <4>1. CASE w \in versions
        <5>1. w.row <= count /\ w.row \in Row
          BY <4>1 DEF Fresh, TypeOK, Version
        <5> QED
          BY <1>2, <1>c, <5>1, DiscoveryAssumption DEF Row
      <4> QED
        BY <1>2, <4>1
    <3> QED
      BY <3>1, <3>2 DEF Fresh
  <2>2. OneOwner'
    BY <1>2 DEF OneOwner
  <2>3. VersionsAgree'
    BY <1>2, MarkKeepsAgreement
  <2> QED
    BY <2>1, <2>2, <2>3
<1>3. ASSUME NEW r \in Row, r = count + 1, count' = r, Observe(s, r),
             UNCHANGED <<current, versions, flagged>>
      PROVE  Fresh' /\ OneOwner' /\ VersionsAgree'
  <2>1. ASSUME NEW q \in Row, q > count' PROVE at'[q] = NoPlace /\ current'[q] = NoVersion
    <3>1. q > count /\ q # r
      BY <1>3, <1>c, <2>1, DiscoveryAssumption DEF Row
    <3> QED
      BY <1>3, <3>1 DEF Fresh, Observe, TypeOK
  <2>2. ASSUME NEW w \in versions' PROVE w.row <= count'
    <3>1. w.row <= count /\ w.row \in Row
      BY <1>3, <2>2 DEF Fresh, TypeOK, Version
    <3> QED
      BY <1>3, <1>c, <3>1, DiscoveryAssumption DEF Row
  <2>3. Fresh'
    BY <2>1, <2>2 DEF Fresh
  <2> QED
    BY <1>3, <2>3 DEF OneOwner, VersionsAgree
<1>4. Effect(s)
  BY RecordEffect
<1>5. ASSUME NEW r \in Row, NEW v \in Version, v.row = r, MarkCurrent(v), Observe(s, r),
             versions' = versions \cup {v},
             v \in versions \/ \A w \in versions : w.content # v.content,
             \/ r <= count /\ count' = count
             \/ r = count + 1 /\ count' = r
      PROVE  Fresh' /\ OneOwner' /\ VersionsAgree'
  <2>1. r <= count' /\ count <= count' /\ count' \in Nat
    BY <1>c, <1>5, DiscoveryAssumption DEF Row
  <2> QED
    BY <1>2, <1>5, <2>1
<1> HIDE DEF DiscoveryInv
<1> QED
  BY <1>1, <1>3, <1>4, <1>5 DEF Effect

\* Every other step leaves the versions alone.
LEMMA OthersSafe ==
  ASSUME DiscoveryInv, \/ Outside
                       \/ \E s \in Scan : ScanStep(s) /\ ~ Record(s)
  PROVE  /\ UNCHANGED <<count, at, current, versions, flagged>>
         /\ Fresh' /\ OneOwner' /\ VersionsAgree'
<1>1. UNCHANGED <<count, at, current, versions, flagged>>
  BY DEF Outside, Write, Rename, Transcribed, ScanStep, BeginFolder, BeginFiles, Begin, Finish,
         Abort, Read, registry
<1> QED
  BY <1>1 DEF DiscoveryInv, Fresh, OneOwner, VersionsAgree

LEMMA DiscoveryInitial == Init => DiscoveryInv
<1> SUFFICES ASSUME Init PROVE DiscoveryInv
  OBVIOUS
<1>1. TypeOK
  BY DiscoveryAssumption DEF Init, TypeOK, States
<1> QED
  BY <1>1 DEF Init, DiscoveryInv, Fresh, InHand, OneOwner, VersionsAgree

LEMMA DiscoveryStep == DiscoveryInv /\ [Next]_vars => DiscoveryInv'
<1> SUFFICES ASSUME DiscoveryInv, [Next]_vars PROVE DiscoveryInv'
  OBVIOUS
<1>1. ASSUME NEW s \in Scan, Record(s) PROVE DiscoveryInv'
  BY <1>1, RecordTypes, RecordSafe DEF DiscoveryInv
<1>2. ASSUME NEW s \in Scan, ScanStep(s), ~ Record(s) PROVE DiscoveryInv'
  BY <1>2, ScanTypes, OthersSafe DEF DiscoveryInv
<1>3. CASE Outside
  BY <1>3, OutsideTypes, OthersSafe DEF DiscoveryInv
<1>4. CASE UNCHANGED vars
  BY <1>4 DEF vars, registry, files, scans, DiscoveryInv, TypeOK, Fresh, InHand, OneOwner,
             VersionsAgree
<1> QED
  BY <1>1, <1>2, <1>3, <1>4 DEF Next

\* The invariant of the registry: types, one owner for all bytes, agreement of
\* the two records of what is current.
THEOREM RegistryInvariant == Spec => []DiscoveryInv
<1> QED
  BY DiscoveryInitial, DiscoveryStep, PTL DEF Spec

\* The columns and the locals of a scan have the values the code gives them.
THEOREM DiscoveryTypes == Spec => []TypeOK
<1>1. DiscoveryInv => TypeOK
  BY DEF DiscoveryInv
<1> QED
  BY <1>1, RegistryInvariant, PTL

\* However files are renamed, copied and replaced, and however many scans look at
\* them at once, the bytes of a recording belong to one row of audio_files.
THEOREM BytesHaveOneOwner == Spec => []OneOwner
<1>1. DiscoveryInv => OneOwner
  BY DEF DiscoveryInv
<1> QED
  BY <1>1, RegistryInvariant, PTL

\* mark_source_version_current leaves one current version for a row, and the
\* column of audio_files points to it.
THEOREM CurrentVersionsAgree == Spec => []VersionsAgree
<1>1. DiscoveryInv => VersionsAgree
  BY DEF DiscoveryInv
<1> QED
  BY <1>1, RegistryInvariant, PTL

--------------------------------------------------------------------------------
(* What a step may never do. *)

\* Steps that are not a transaction of _scan_one change no version, and take the
\* state of a finished transcript from no row.
LEMMA OthersKeepStates ==
  ASSUME DiscoveryInv, \/ Outside
                       \/ \E s \in Scan : ScanStep(s) /\ ~ Record(s),
         NEW r \in Row, state[r] = Complete
  PROVE  state'[r] = Complete
<1> USE DEF DiscoveryInv, TypeOK, registry
<1>1. ASSUME NEW s \in Scan, Finish(s) PROVE state'[r] = Complete
  BY <1>1 DEF Finish, MarkMissing
<1>2. ASSUME NEW q \in Row, Transcribed(q) PROVE state'[r] = Complete
  BY <1>2 DEF Transcribed
<1> QED
  BY <1>1, <1>2 DEF Outside, Write, Rename, ScanStep, BeginFolder, BeginFiles, Begin, Abort, Read

\* Only bytes that become current put a finished transcript in question.
THEOREM VersionsDecideStates == Spec => VersionDecidesState
<1> DEFINE Kept(r) ==
      /\ state[r] = Complete /\ state'[r] # Complete => current'[r] # current[r]
      /\ current'[r] # current[r] => state'[r] = "stale_source_changed"
<1>1. ASSUME DiscoveryInv, [Next]_vars, NEW r \in Row, current[r] # NoVersion PROVE Kept(r)
  <2>0. TypeOK /\ Fresh /\ count \in Nat /\ r \in Nat
    BY <1>1, DiscoveryAssumption DEF DiscoveryInv, TypeOK, Row
  <2>1. ASSUME NEW s \in Scan, Record(s) PROVE Kept(r)
    <3>1. Effect(s)
      BY <1>1, <2>1, RecordEffect
    <3>2. CASE UNCHANGED <<count, state, current, versions, flagged>>
      BY <3>2
    <3>3. ASSUME NEW q \in Row, NEW v \in Version, v.row = q, current[q] # v, MarkCurrent(v),
                 \/ state' = [state EXCEPT ![q] = "stale_source_changed"]
                 \/ q = count + 1 /\ state' = [state EXCEPT ![q] = "discovered"]
          PROVE  Kept(r)
      <4>1. CASE q = r
        <5>1. ~ (r > count)
          BY <1>1, <2>0 DEF Fresh
        <5>2. ~ (r = count + 1)
          BY <2>0, <5>1
        <5> QED
          BY <2>0, <3>3, <4>1, <5>2 DEF MarkCurrent, TypeOK
      <4>2. CASE q # r
        BY <2>0, <3>3, <4>2 DEF MarkCurrent, TypeOK
      <4> QED
        BY <4>1, <4>2
    <3>4. ASSUME NEW q \in Row, q = count + 1, UNCHANGED current,
                 state' = [state EXCEPT ![q] = "missing_source"]
          PROVE  Kept(r)
      <4>1. ~ (r > count)
        BY <1>1, <2>0 DEF Fresh
      <4>2. r # q
        BY <2>0, <3>4, <4>1
      <4> QED
        BY <2>0, <3>4, <4>2 DEF TypeOK
    <3> HIDE DEF Kept
    <3> QED
      BY <3>1, <3>2, <3>3, <3>4 DEF Effect
  <2>2. CASE \/ Outside
             \/ \E s \in Scan : ScanStep(s) /\ ~ Record(s)
    BY <1>1, <2>2, OthersKeepStates, OthersSafe
  <2>3. CASE UNCHANGED vars
    BY <2>3 DEF vars, registry
  <2> HIDE DEF Kept
  <2> QED
    BY <1>1, <2>1, <2>2, <2>3 DEF Next
<1>2. DiscoveryInv /\ [Next]_vars
        => [\A r \in Row : current[r] # NoVersion => Kept(r)]_vars
  BY <1>1
<1> QED
  BY <1>2, RegistryInvariant, PTL DEF Spec, VersionDecidesState

--------------------------------------------------------------------------------
(* What a scan that nothing interferes with has done so far. *)

\* The bytes of p belong to a row, as ScanFindsAll has it.
IsFound(s, p) ==
  \E v \in versions :
    /\ v.content = disk[p]
    /\ \/ \E w \in versions : w.row = v.row /\ w # v
       \/ /\ readable[v.row] /\ active[v.row] = at[v.row]
          /\ \E q \in listed[s] : disk[q] = disk[p] /\ at[v.row] = PlaceOf(s, q)

\* A scan knows the files of its folder and has read what is there.
KnowsFiles(s) ==
  /\ phase[s] # "idle" /\ todo[s] \subseteq listed[s]
  /\ kind[s] = "folder" => listed[s] = Existing
  /\ phase[s] = "ended" => todo[s] = {}
  /\ phase[s] = "read" =>
       /\ hand[s].path \in todo[s]
       /\ hand[s].digest = IF disk[hand[s].path] \in Content THEN disk[hand[s].path]
                           ELSE NoDigest

\* The files it is done with are found.
FoundSoFar(s) ==
  \A p \in listed[s] \ todo[s] : disk[p] \in Content => IsFound(s, p)

SweepInv ==
  /\ \A s \in Scan : quiet[s] => KnowsFiles(s) /\ FoundSoFar(s)
  /\ AbsentIsMarked

\* The transaction of _scan_one observes one row: the one that has the bytes now, or,
\* if there are none, the one at the place or one that has no version.
ObservesOwner(s) ==
  /\ versions \subseteq versions'
  /\ \E r \in Row :
       /\ Observe(s, r)
       /\ hand[s].digest # NoDigest =>
            \E v \in versions' : v.row = r /\ v.content = hand[s].digest
       /\ hand[s].digest = NoDigest =>
            at[r] = Spot(s) \/ \A v \in versions : v.row # r

LEMMA RecordFinds ==
  ASSUME DiscoveryInv, NEW s \in Scan, Record(s)
  PROVE  ObservesOwner(s)
<1> USE DEF DiscoveryInv
<1>0. phase[s] = "read"
  BY DEF Record, Unchanged, Replaced, Damaged, Restored, Relinked, Created,
         CreatedWithoutVersion, Recorded
<1>d. NoDigest \notin Content
  BY DiscoveryAssumption
<1>1. ASSUME NEW r \in Row, Unchanged(s, r) PROVE ObservesOwner(s)
  <2>1. /\ IsAtPath(s, r) /\ Observe(s, r) /\ versions' = versions
        /\ current[r].content = hand[s].digest
    BY <1>1 DEF Unchanged
  <2>2. at[r] = Spot(s)
    BY <1>0, <2>1, FoundIsInserted
  <2>3. ASSUME hand[s].digest # NoDigest
        PROVE  current[r] \in versions /\ current[r].row = r
    <3>1. current[r] # NoVersion
      BY <2>1, <2>3 DEF NoVersion
    <3> QED
      BY <3>1 DEF VersionsAgree
  <2> QED
    BY <2>1, <2>2, <2>3 DEF ObservesOwner
<1>2. ASSUME NEW r \in Row, Damaged(s, r) PROVE ObservesOwner(s)
  <2>1. /\ IsAtPath(s, r) /\ Observe(s, r) /\ versions' = versions
        /\ hand[s].digest = NoDigest
    BY <1>2 DEF Damaged, IsOther
  <2> QED
    BY <1>0, <2>1, FoundIsInserted DEF ObservesOwner
<1>3. ASSUME NEW r \in Row, Replaced(s, r) PROVE ObservesOwner(s)
  BY <1>3 DEF Replaced, ObservesOwner
<1>4. ASSUME NEW r \in Row, NEW v \in versions, Restored(s, r, v) PROVE ObservesOwner(s)
  BY <1>4 DEF Restored, IsKnown, ObservesOwner
<1>5. ASSUME NEW r \in Row \cup {0}, NEW v \in versions, Relinked(s, r, v) PROVE ObservesOwner(s)
  <2>1. /\ Observe(s, v.row) /\ v.row \in Row /\ versions' = versions
        /\ v.content = hand[s].digest /\ hand[s].digest # NoDigest
    BY <1>5 DEF Relinked, IsKnown, TypeOK, Version
  <2> QED
    BY <2>1 DEF ObservesOwner
<1>6. CASE Created(s) \/ CreatedWithoutVersion(s)
  <2>1. /\ count + 1 \in Row /\ Observe(s, count + 1)
        /\ \/ /\ versions' = versions \cup {[row |-> count + 1, content |-> hand[s].digest]}
              /\ hand[s].digest # NoDigest
           \/ versions' = versions /\ hand[s].digest = NoDigest
    BY <1>6, DiscoveryAssumption DEF Created, CreatedWithoutVersion, TypeOK, Row
  <2>2. \A v \in versions : v.row # count + 1
    <3> SUFFICES ASSUME NEW v \in versions PROVE v.row # count + 1
      OBVIOUS
    <3>1. v.row <= count /\ v.row \in Nat /\ count \in Nat
      BY DiscoveryAssumption DEF Fresh, TypeOK, Version, Row
    <3> QED
      BY <3>1
  <2>3. CASE hand[s].digest # NoDigest
    <3> DEFINE v == [row |-> count + 1, content |-> hand[s].digest]
    <3>1. versions \subseteq versions' /\ v \in versions'
      BY <2>1, <2>3
    <3>2. v.row = count + 1 /\ v.content = hand[s].digest
      OBVIOUS
    <3> HIDE DEF v
    <3> QED
      BY <2>1, <2>3, <3>1, <3>2 DEF ObservesOwner
  <2>4. CASE hand[s].digest = NoDigest
    BY <2>1, <2>2, <2>4 DEF ObservesOwner
  <2> QED
    BY <2>3, <2>4
<1> QED
  BY <1>1, <1>2, <1>3, <1>4, <1>5, <1>6 DEF Record

\* It finds the file in hand and loses none found before.
LEMMA RecordKeepsSweep ==
  ASSUME DiscoveryInv, SweepInv, NEW s \in Scan, Record(s)
  PROVE  SweepInv'
<1> USE DEF DiscoveryInv
<1>0. Recorded(s) /\ phase[s] = "read"
  BY DEF Record, Unchanged, Replaced, Damaged, Restored, Relinked, Created,
         CreatedWithoutVersion, Recorded
<1>1. /\ UNCHANGED <<disk, kind, listed>>
      /\ phase' = [phase EXCEPT ![s] = "walking"]
      /\ todo' = [todo EXCEPT ![s] = todo[s] \ {hand[s].path}]
      /\ \A t \in Scan : quiet'[t] = (quiet[t] /\ t = s)
  BY <1>0 DEF Recorded, files
<1>2. phase'[s] = "walking" /\ todo'[s] = todo[s] \ {hand[s].path}
  BY <1>1 DEF TypeOK
<1>3. AbsentIsMarked'
  BY <1>1, <1>2 DEF AbsentIsMarked
<1>4. ASSUME quiet[s] PROVE KnowsFiles(s)' /\ FoundSoFar(s)'
  <2>1. KnowsFiles(s) /\ FoundSoFar(s)
    BY <1>4 DEF SweepInv
  <2>2. KnowsFiles(s)'
    BY <1>1, <1>2, <2>1 DEF KnowsFiles, Existing
  <2>3. /\ hand[s].path \in listed[s] /\ hand[s].path \in Path
        /\ hand[s].digest = IF disk[hand[s].path] \in Content THEN disk[hand[s].path]
                            ELSE NoDigest
    BY <1>0, <2>1 DEF KnowsFiles, TypeOK
  <2>4. PICK r \in Row :
          /\ Observe(s, r)
          /\ hand[s].digest # NoDigest =>
               \E v \in versions' : v.row = r /\ v.content = hand[s].digest
          /\ hand[s].digest = NoDigest =>
               at[r] = Spot(s) \/ \A v \in versions : v.row # r
    BY RecordFinds DEF ObservesOwner
  <2>5. versions \subseteq versions'
    BY RecordFinds DEF ObservesOwner
  <2>6. /\ at'[r] = PlaceOf(s, hand[s].path) /\ active'[r] = at'[r]
        /\ readable'[r] = (hand[s].digest # NoDigest)
        /\ \A q \in Row : q # r => at'[q] = at[q] /\ active'[q] = active[q]
                                   /\ readable'[q] = readable[q]
    BY <2>4 DEF Observe, TypeOK, Spot
  <2>7. \A q \in Path : PlaceOf(s, q)' = PlaceOf(s, q)
    BY <1>1 DEF PlaceOf
  <2>8. NoDigest \notin Content
    BY DiscoveryAssumption
  <2>9. ASSUME NEW p \in listed[s], disk[p] \in Content, hand[s].digest # NoDigest,
               disk[p] = hand[s].digest
        PROVE  IsFound(s, p)'
    <3>1. PICK v \in versions' : v.row = r /\ v.content = hand[s].digest
      BY <2>4, <2>9
    <3>2. PICK q \in listed[s] : q = hand[s].path /\ q \in Path /\ disk[q] = disk[p]
      BY <2>3, <2>9
    <3>3. readable'[v.row] /\ active'[v.row] = at'[v.row] /\ at'[v.row] = PlaceOf(s, q)'
      BY <2>6, <2>7, <2>9, <3>1, <3>2
    <3> QED
      BY <1>1, <2>9, <3>1, <3>2, <3>3 DEF IsFound
  <2>10. ASSUME NEW p \in listed[s], disk[p] \in Content, IsFound(s, p)
         PROVE  IsFound(s, p)'
    <3>1. PICK v \in versions :
            /\ v.content = disk[p]
            /\ \/ \E w \in versions : w.row = v.row /\ w # v
               \/ /\ readable[v.row] /\ active[v.row] = at[v.row]
                  /\ \E q \in listed[s] : disk[q] = disk[p] /\ at[v.row] = PlaceOf(s, q)
      BY <2>10 DEF IsFound
    <3>2. v \in versions' /\ v.row \in Row
      BY <2>5 DEF TypeOK, Version
    <3>3. ASSUME NEW w \in versions', w.row = v.row, w # v PROVE IsFound(s, p)'
      BY <1>1, <3>1, <3>2, <3>3 DEF IsFound
    <3>4. CASE \E w \in versions : w.row = v.row /\ w # v
      BY <2>5, <3>3, <3>4
    <3>5. ASSUME readable[v.row], active[v.row] = at[v.row],
                 NEW q \in listed[s], disk[q] = disk[p], at[v.row] = PlaceOf(s, q)
          PROVE  IsFound(s, p)'
      <4>0. q \in Path
        BY DEF TypeOK
      <4>1. CASE v.row # r
        <5>1. readable'[v.row] /\ active'[v.row] = at'[v.row] /\ at'[v.row] = PlaceOf(s, q)'
          BY <2>6, <2>7, <3>2, <3>5, <4>0, <4>1
        <5> QED
          BY <1>1, <3>1, <3>2, <3>5, <5>1 DEF IsFound
      <4>2. CASE v.row = r /\ hand[s].digest # NoDigest
        <5>1. PICK w \in versions' : w.row = r /\ w.content = hand[s].digest
          BY <2>4, <4>2
        <5>2. CASE w = v
          BY <2>9, <2>10, <3>1, <4>2, <5>1, <5>2
        <5> QED
          BY <3>3, <4>2, <5>1, <5>2
      <4>3. CASE v.row = r /\ hand[s].digest = NoDigest
        <5>1. PlaceOf(s, q) = PlaceOf(s, hand[s].path)
          BY <2>4, <3>5, <4>3 DEF Spot
        <5>2. q = hand[s].path
          BY <5>1 DEF PlaceOf
        <5> QED
          BY <2>3, <2>8, <2>10, <3>5, <4>3, <5>2
      <4> QED
        BY <4>1, <4>2, <4>3
    <3> QED
      BY <3>1, <3>4, <3>5
  <2>11. FoundSoFar(s)'
    <3> SUFFICES ASSUME NEW p \in listed[s], p \notin todo[s] \/ p = hand[s].path,
                        disk[p] \in Content
                 PROVE  IsFound(s, p)'
      BY <1>1, <1>2 DEF FoundSoFar
    <3>1. CASE p = hand[s].path
      BY <2>3, <2>8, <2>9, <3>1
    <3>2. CASE p \notin todo[s]
      BY <2>1, <2>10, <3>2 DEF FoundSoFar
    <3> QED
      BY <3>1, <3>2
  <2> QED
    BY <2>2, <2>11
<1>5. \A t \in Scan : quiet'[t] => t = s /\ quiet[s]
  BY <1>1
<1> QED
  BY <1>3, <1>4, <1>5 DEF SweepInv

\* The other steps of scans: a scan begins with nothing done, and its end marks the
\* rows whose files are not there.
LEMMA ScanKeepsSweep ==
  ASSUME DiscoveryInv, SweepInv, NEW s \in Scan, ScanStep(s), ~ Record(s)
  PROVE  SweepInv'
<1> USE DEF DiscoveryInv
<1>1. UNCHANGED <<count, at, readable, versions, disk>>
  BY DEF ScanStep, BeginFolder, BeginFiles, Begin, Finish, Abort, Read, registry, files
<1>2. ASSUME NEW t \in Scan, t # s, quiet'[t], UNCHANGED active
      PROVE  KnowsFiles(t)' /\ FoundSoFar(t)'
  <2>1. /\ phase'[t] = phase[t] /\ kind'[t] = kind[t] /\ listed'[t] = listed[t]
        /\ todo'[t] = todo[t] /\ hand'[t] = hand[t] /\ quiet[t]
    BY <1>2 DEF ScanStep, BeginFolder, BeginFiles, Begin, Finish, Abort, Read, TypeOK
  <2>2. KnowsFiles(t) /\ FoundSoFar(t)
    BY <2>1 DEF SweepInv
  <2>3. KnowsFiles(t)'
    BY <1>1, <2>1, <2>2 DEF KnowsFiles, Existing
  <2>4. \A p \in listed[t] : IsFound(t, p) => IsFound(t, p)'
    BY <1>1, <1>2, <2>1 DEF IsFound, PlaceOf
  <2> QED
    BY <1>1, <2>1, <2>2, <2>3, <2>4 DEF FoundSoFar
<1>3. ASSUME NEW k \in {"folder", "files"}, NEW S \in SUBSET Path, Begin(s, k, S),
             k = "folder" => S = Existing
      PROVE  SweepInv'
  <2>1. /\ phase'[s] = "walking" /\ kind'[s] = k /\ listed'[s] = S /\ todo'[s] = S
        /\ UNCHANGED <<active, state>>
        /\ \A t \in Scan : t # s => phase'[t] = phase[t] /\ kind'[t] = kind[t]
                                    /\ quiet'[t] = quiet[t]
    BY <1>3 DEF Begin, TypeOK, registry
  <2>2. KnowsFiles(s)' /\ FoundSoFar(s)'
    BY <1>1, <1>3, <2>1 DEF KnowsFiles, FoundSoFar, Existing
  <2>3. AbsentIsMarked'
    BY <1>1, <2>1 DEF SweepInv, AbsentIsMarked
  <2> QED
    BY <1>2, <2>1, <2>2, <2>3 DEF SweepInv
<1>4. ASSUME NEW p \in Path, Read(s, p) PROVE SweepInv'
  <2>1. /\ phase[s] = "walking" /\ p \in todo[s] /\ phase'[s] = "read"
        /\ hand'[s] = [path |-> p, digest |-> IF disk[p] \in Content THEN disk[p] ELSE NoDigest]
        /\ UNCHANGED <<active, state, kind, listed, todo, quiet>>
        /\ \A t \in Scan : t # s => phase'[t] = phase[t]
    BY <1>4 DEF Read, TypeOK, registry
  <2>2. ASSUME quiet[s] PROVE KnowsFiles(s)' /\ FoundSoFar(s)'
    <3>1. KnowsFiles(s) /\ FoundSoFar(s)
      BY <2>2 DEF SweepInv
    <3>2. KnowsFiles(s)'
      BY <1>1, <2>1, <3>1 DEF KnowsFiles, Existing
    <3>3. \A q \in listed[s] : IsFound(s, q) => IsFound(s, q)'
      BY <1>1, <2>1 DEF IsFound, PlaceOf
    <3> QED
      BY <1>1, <2>1, <3>1, <3>2, <3>3 DEF FoundSoFar
  <2>3. AbsentIsMarked'
    BY <1>1, <2>1 DEF SweepInv, AbsentIsMarked
  <2> QED
    BY <1>2, <2>1, <2>2, <2>3 DEF SweepInv
<1>5. CASE Abort(s)
  <2>1. /\ ~ quiet'[s] /\ UNCHANGED <<active, state>>
        /\ \A t \in Scan : t # s => phase'[t] = phase[t] /\ kind'[t] = kind[t]
                                    /\ quiet'[t] = quiet[t]
    BY <1>5 DEF Abort, TypeOK, registry
  <2>2. AbsentIsMarked'
    BY <1>1, <2>1 DEF SweepInv, AbsentIsMarked
  <2> QED
    BY <1>2, <2>1, <2>2 DEF SweepInv
<1>6. CASE Finish(s)
  <2>1. /\ phase[s] = "walking" /\ todo[s] = {} /\ phase'[s] = "ended"
        /\ \A t \in Scan : quiet'[t] = (quiet[t] /\ t = s)
        /\ UNCHANGED <<kind, listed, todo, hand>>
        /\ active' = [r \in Row |-> IF r \in Absent(s) THEN NoPlace ELSE active[r]]
        /\ state' = [r \in Row |-> IF r \in Absent(s) /\ state[r] # Complete THEN "missing_source"
                                   ELSE state[r]]
    BY <1>6 DEF Finish, MarkMissing, TypeOK
  <2>2. ASSUME quiet[s] PROVE KnowsFiles(s)' /\ FoundSoFar(s)'
    <3>1. KnowsFiles(s) /\ FoundSoFar(s)
      BY <2>2 DEF SweepInv
    <3>2. KnowsFiles(s)'
      BY <1>1, <2>1, <3>1 DEF KnowsFiles, Existing
    <3>3. ASSUME NEW p \in listed[s], IsFound(s, p) PROVE IsFound(s, p)'
      <4>1. PICK v \in versions :
              /\ v.content = disk[p]
              /\ \/ \E w \in versions : w.row = v.row /\ w # v
                 \/ /\ readable[v.row] /\ active[v.row] = at[v.row]
                    /\ \E q \in listed[s] : disk[q] = disk[p] /\ at[v.row] = PlaceOf(s, q)
        BY <3>3 DEF IsFound
      <4>2. v.row \in Row
        BY DEF TypeOK, Version
      <4>3. CASE \E w \in versions : w.row = v.row /\ w # v
        BY <1>1, <2>1, <4>1, <4>3 DEF IsFound
      <4>4. ASSUME NEW q \in listed[s], disk[q] = disk[p], at[v.row] = PlaceOf(s, q),
                   readable[v.row], active[v.row] = at[v.row]
            PROVE  IsFound(s, p)'
        <5>1. at[v.row].path = q
          BY <4>4 DEF PlaceOf
        <5>2. v.row \notin Absent(s)
          BY <5>1 DEF Absent
        <5>3. active'[v.row] = active[v.row]
          BY <2>1, <4>2, <5>2
        <5>4. PlaceOf(s, q)' = PlaceOf(s, q)
          BY <2>1 DEF PlaceOf
        <5> QED
          BY <1>1, <2>1, <4>1, <4>4, <5>3, <5>4 DEF IsFound
      <4> QED
        BY <4>1, <4>3, <4>4
    <3> QED
      BY <1>1, <2>1, <3>1, <3>2, <3>3 DEF FoundSoFar
  <2>3. AbsentIsMarked'
    <3> SUFFICES ASSUME quiet[s], kind[s] = "folder",
                        NEW r \in Row, at[r].root = "archive", disk[at[r].path] = Gone
                 PROVE  active'[r] = NoPlace /\ state'[r] \in {Complete, "missing_source"}
      BY <1>1, <2>1 DEF AbsentIsMarked
    <3>1. listed[s] = Existing
      BY DEF SweepInv, KnowsFiles
    <3>2. r \in Absent(s)
      BY <3>1 DEF Absent, Existing
    <3> QED
      BY <2>1, <3>2
  <2> QED
    BY <2>1, <2>2, <2>3 DEF SweepInv
<1> QED
  BY <1>3, <1>4, <1>5, <1>6 DEF ScanStep, BeginFolder, BeginFiles, Existing

\* A file that changes interferes with every scan, the worker with none.
LEMMA OutsideKeepsSweep == ASSUME DiscoveryInv, SweepInv, Outside PROVE SweepInv'
<1>1. ASSUME NEW r \in Row, Transcribed(r) PROVE SweepInv'
  <2>1. /\ UNCHANGED <<at, readable, versions, active, disk, phase, kind, listed, todo, hand, quiet>>
        /\ state' = [state EXCEPT ![r] = Complete]
    BY <1>1 DEF Transcribed, files, scans
  <2>2. AbsentIsMarked'
    BY <2>1 DEF SweepInv, AbsentIsMarked, DiscoveryInv, TypeOK
  <2>3. ASSUME NEW s \in Scan, quiet[s] PROVE KnowsFiles(s)' /\ FoundSoFar(s)'
    BY <2>1, <2>3 DEF SweepInv, KnowsFiles, FoundSoFar, IsFound, PlaceOf, Existing
  <2> QED
    BY <2>1, <2>2, <2>3 DEF SweepInv
<1>2. CASE \/ \E p \in Path : Write(p)
           \/ \E p, q \in Path : Rename(p, q)
  <2>1. \A s \in Scan : ~ quiet'[s]
    BY <1>2 DEF Write, Rename
  <2> QED
    BY <2>1 DEF SweepInv, AbsentIsMarked
<1> QED
  BY <1>1, <1>2 DEF Outside

\* What a scan has found stays found until somebody else interferes.
THEOREM SweepInvariant == Spec => []SweepInv
<1>1. Init => SweepInv
  BY DEF Init, SweepInv, AbsentIsMarked
<1>2. DiscoveryInv /\ SweepInv /\ [Next]_vars => SweepInv'
  <2> SUFFICES ASSUME DiscoveryInv, SweepInv, [Next]_vars PROVE SweepInv'
    OBVIOUS
  <2>1. CASE UNCHANGED vars
    BY <2>1 DEF vars, registry, files, scans, SweepInv, KnowsFiles, FoundSoFar, IsFound, PlaceOf,
                Existing, AbsentIsMarked
  <2> QED
    BY <2>1, RecordKeepsSweep, ScanKeepsSweep, OutsideKeepsSweep DEF Next
<1> QED
  BY <1>1, <1>2, RegistryInvariant, PTL DEF Spec

\* A scan that nothing has interfered with has found every file, and each row that
\* never had other bytes is where they are.
THEOREM FilesAreFound == Spec => []ScanFindsAll
<1>1. SweepInv => ScanFindsAll
  BY DEF SweepInv, KnowsFiles, FoundSoFar, IsFound, ScanFindsAll
<1> QED
  BY <1>1, SweepInvariant, PTL

\* And if it was a scan of the folder, no row claims a place where no file is.
THEOREM AbsenceIsMarked == Spec => []AbsentIsMarked
<1>1. SweepInv => AbsentIsMarked
  BY DEF SweepInv
<1> QED
  BY <1>1, SweepInvariant, PTL

--------------------------------------------------------------------------------
(* Discovery implements SourceIdentity. *)

\* The owner of a content is the row of its version.
LEMMA OwnerIsRow ==
  ASSUME TypeOK, OneOwner, NEW v \in versions
  PROVE  Owner[v.content] = v.row
<1>1. v.content \in Content
  BY DEF TypeOK, Version
<1>2. \A w \in versions : w.content = v.content => w = v
  BY DEF OneOwner
<1> QED
  BY <1>1, <1>2 DEF Owner

\* A content without a version has no owner.
LEMMA OwnerIsNone ==
  ASSUME NEW c \in Content, \A v \in versions : v.content # c
  PROVE  Owner[c] = 0
BY DEF Owner

\* A new version registers its content and changes no other owner.
LEMMA NewVersionRegisters ==
  ASSUME TypeOK, OneOwner, TypeOK', OneOwner',
         NEW v \in Version, versions' = versions \cup {v},
         v \in versions \/ \A w \in versions : w.content # v.content
  PROVE  [Identity!Next]_Owner
<1>1. CASE v \in versions
  <2>1. versions' = versions
    BY <1>1
  <2>2. Owner' = Owner
    BY <2>1 DEF Owner
  <2> QED
    BY <2>2
<1>2. CASE \A w \in versions : w.content # v.content
  <2>1. v.content \in Content /\ v.row \in Row
    BY DEF Version
  <2>2. Owner[v.content] = 0
    BY <1>2, <2>1, OwnerIsNone
  <2>3. Owner'[v.content] = v.row
    <3>1. \A w \in versions' : w.content = v.content => w = v
      BY DEF OneOwner
    <3> QED
      BY <2>1, <3>1 DEF Owner
  <2>4. ASSUME NEW c \in Content, c # v.content PROVE Owner'[c] = Owner[c]
    <3>1. CASE \E w \in versions : w.content = c
      <4>1. PICK w \in versions : w.content = c
        BY <3>1
      <4>2. \A u \in versions : u.content = c => u = w
        BY <4>1 DEF OneOwner
      <4>3. w \in versions' /\ \A u \in versions' : u.content = c => u = w
        BY <2>4, <4>2
      <4>4. Owner[c] = w.row
        BY <4>1, <4>2 DEF Owner
      <4>5. Owner'[c] = w.row
        BY <4>1, <4>3 DEF Owner
      <4> QED
        BY <4>4, <4>5
    <3>2. CASE \A w \in versions : w.content # c
      <4>1. \A w \in versions' : w.content # c
        BY <2>4, <3>2
      <4> QED
        BY <3>2, <4>1 DEF Owner
    <3> QED
      BY <3>1, <3>2
  <2>5. Owner' = [Owner EXCEPT ![v.content] = v.row]
    BY <2>1, <2>3, <2>4 DEF Owner
  <2> QED
    BY <2>1, <2>2, <2>5 DEF Identity!Next, Identity!Register
<1> QED
  BY <1>1, <1>2

\* The bytes of a recording stay with the row they were first recorded for.
THEOREM ImplementsSourceIdentity == Spec => KeepsIdentity
<1>1. Init => Identity!Init
  BY DEF Init, Identity!Init, Owner
<1>2. DiscoveryInv /\ DiscoveryInv' /\ [Next]_vars => [Identity!Next]_Owner
  <2> SUFFICES ASSUME DiscoveryInv, DiscoveryInv', [Next]_vars PROVE [Identity!Next]_Owner
    OBVIOUS
  <2>s. UNCHANGED versions => [Identity!Next]_Owner
    <3> SUFFICES ASSUME versions' = versions PROVE Owner' = Owner
      OBVIOUS
    <3> QED
      BY DEF Owner
  <2>1. ASSUME NEW s \in Scan, Record(s) PROVE [Identity!Next]_Owner
    <3>1. Effect(s)
      BY <2>1, RecordEffect
    <3>2. ASSUME NEW v \in Version, versions' = versions \cup {v},
                 v \in versions \/ \A w \in versions : w.content # v.content
          PROVE  [Identity!Next]_Owner
      BY <3>2, NewVersionRegisters DEF DiscoveryInv
    <3> QED
      BY <2>s, <3>1, <3>2 DEF Effect
  <2>2. CASE \/ Outside
             \/ \E s \in Scan : ScanStep(s) /\ ~ Record(s)
    BY <2>s, <2>2, OthersSafe
  <2>3. CASE UNCHANGED vars
    BY <2>s, <2>3 DEF vars, registry
  <2> QED
    BY <2>1, <2>2, <2>3 DEF Next
<1> QED
  BY <1>1, <1>2, RegistryInvariant, PTL DEF Spec, KeepsIdentity, Identity!Spec
================================================================================
