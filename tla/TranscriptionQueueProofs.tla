----------------------- MODULE TranscriptionQueueProofs -----------------------
(***************************************************************************)
(* Proofs about TranscriptionQueue for any number of files, contents and   *)
(* attempts.                                                               *)
(***************************************************************************)
EXTENDS TranscriptionQueue, FiniteSetTheorems, TLAPS

--------------------------------------------------------------------------------
(* Type correctness. *)

\* How many files an operation selects is a natural number.
LEMMA FileCount == ASSUME NEW S \in SUBSET File PROVE Cardinality(S) \in Nat
<1>1. IsFiniteSet(File)
  BY QueueAssumption, FS_Interval DEF File
<1> QED
  BY <1>1, FS_Subset, FS_CardinalityType

\* A scan keeps the types.
LEMMA ScanTypes == ASSUME TypeOK, Scan PROVE TypeOK'
<1> SUFFICES ASSUME NEW f \in File, ScanReadable(f) \/ ScanUnreadable(f) \/ ScanMissing(f)
             PROVE  TypeOK'
  BY DEF Scan
<1> USE DEF TypeOK, columns, results, source, worker
<1>1. CASE ScanReadable(f)
  BY <1>1 DEF ScanReadable, States
<1>2. CASE ScanUnreadable(f)
  BY <1>2 DEF ScanUnreadable
<1>3. CASE ScanMissing(f)
  BY <1>3 DEF ScanMissing, States
<1> QED
  BY <1>1, <1>2, <1>3

\* Reading the rows and preparing the queue keep the types.
LEMMA PrepareTypes == ASSUME TypeOK, ReadRows \/ Prepare PROVE TypeOK'
<1> USE DEF TypeOK, columns, results, source, worker
<1>1. CASE ReadRows
  <2>1. rows' \in [File -> Row]
    BY <1>1 DEF ReadRows, Snapshot, Row, IsTranscribed
  <2> QED
    BY <1>1, <2>1 DEF ReadRows
<1>2. CASE Prepare
  <2>1. \A f \in File : PreparedState(f) \in States
    BY DEF PreparedState, States
  <2>2. rows' \in [File -> Row]
    BY <1>2, QueueAssumption DEF Prepare, NoRow, Row, States, Content
  <2>3. total' \in Nat
    BY <1>2, FileCount DEF Prepare
  <2> QED
    BY <1>2, <2>1, <2>2, <2>3 DEF Prepare
<1> QED
  BY <1>1, <1>2

\* What the UPDATE of the attempt in hand writes.
LEMMA ConcludeRow ==
  ASSUME attempts \in [AttemptId -> Attempt], NEW outcome \in AttemptStates, Conclude(outcome)
  PROVE  /\ attempts' \in [AttemptId -> Attempt]
         /\ \A a \in AttemptId :
              attempts'[a] = IF a = hand.attempt /\ Exists(a)
                             THEN [attempts[a] EXCEPT !.state = outcome] ELSE attempts[a]
<1>1. ASSUME NEW a \in AttemptId, Exists(a)
      PROVE  [attempts[a] EXCEPT !.state = outcome] \in Attempt
  BY <1>1 DEF Exists, Attempt
<1>2. \A a \in AttemptId :
        attempts'[a] = IF a = hand.attempt /\ Exists(a)
                       THEN [attempts[a] EXCEPT !.state = outcome] ELSE attempts[a]
  BY DEF Conclude, Exists
<1>3. attempts' = [a \in AttemptId |-> attempts'[a]]
  BY DEF Conclude
<1> QED
  BY <1>1, <1>2, <1>3

\* What run_one leaves behind after an inference.
LEMMA SettleRow ==
  ASSUME state \in [File -> States], finished \in Nat, NEW outcome \in States, Settle(outcome)
  PROVE  /\ state' \in [File -> States] /\ finished' \in Nat
         /\ phase' = "ready" /\ hand' = NoHand
<1>1. state' \in [File -> States]
  BY DEF Settle
<1>2. finished' \in Nat
  BY DEF Settle
<1>3. phase' = "ready" /\ hand' = NoHand
  BY DEF Settle
<1> QED
  BY <1>1, <1>2, <1>3

\* The worker between ready and stopped keeps the types.
LEMMA WorkTypes ==
  ASSUME TypeOK, (\E f \in File : Claim(f)) \/ Transcribed \/ NoSpeech \/ Fails \/ Stop
  PROVE  TypeOK'
<1> USE DEF TypeOK, columns, results, source, worker
<1>1. ASSUME NEW f \in File, Claim(f) PROVE TypeOK'
  <2>1. PICK a \in AttemptId :
          /\ attempts' = [attempts EXCEPT ![a] =
                           [file |-> f, version |-> version[f], state |-> "processing"]]
          /\ hand' = [file |-> f, attempt |-> a]
    BY <1>1 DEF Claim
  <2>2. attempts' \in [AttemptId -> Attempt]
    BY <2>1 DEF Attempt, AttemptStates
  <2>3. hand' \in [file : File, attempt : AttemptId]
    BY <2>1
  <2> QED
    BY <1>1, <2>2, <2>3 DEF Claim, States
<1>2. ASSUME NEW outcome \in AttemptStates, Conclude(outcome) PROVE attempts' \in [AttemptId -> Attempt]
  BY <1>2, ConcludeRow
<1>3. ASSUME NEW outcome \in States, Settle(outcome)
      PROVE  /\ state' \in [File -> States] /\ finished' \in Nat
             /\ phase' = "ready" /\ hand' = NoHand
  BY <1>3, SettleRow
<1>4. CASE Transcribed
  <2>1. attempts' \in [AttemptId -> Attempt]
    BY <1>2, <1>4 DEF Transcribed, AttemptStates
  <2>2. hand.file \in File => hand.attempt \in AttemptId
    BY DEF NoHand, File
  <2>3. preferred' \in [File -> AttemptId \cup {0}]
    BY <1>4, <2>2 DEF Transcribed
  <2>4. indexed' \in [File -> Text]
    <3>1. hand.file \in File => [kind |-> "machine", id |-> hand.attempt] \in Text
      BY <2>2, QueueAssumption DEF Text, AttemptId
    <3> QED
      BY <1>4, <3>1 DEF Transcribed
  <2> QED
    BY <1>3, <1>4, <2>1, <2>3, <2>4 DEF Transcribed, States, Complete, Settle
<1>5. CASE NoSpeech
  <2>1. attempts' \in [AttemptId -> Attempt]
    BY <1>2, <1>5 DEF NoSpeech, AttemptStates
  <2> QED
    BY <1>3, <1>5, <2>1 DEF NoSpeech, States, Settle
<1>6. CASE Fails
  <2>1. attempts' \in [AttemptId -> Attempt]
    BY <1>2, <1>6 DEF Fails, AttemptStates
  <2> QED
    BY <1>3, <1>6, <2>1 DEF Fails, States, Settle
<1>7. CASE Stop
  <2>1. NoRow \in Row
    BY QueueAssumption DEF NoRow, Row, States, Content
  <2> QED
    BY <1>7, <2>1 DEF Stop
<1> QED
  BY <1>1, <1>4, <1>5, <1>6, <1>7

\* Commands and the user keep the types.
LEMMA UserTypes ==
  ASSUME TypeOK, Command \/ User \/ \E f \in File : DiskChanges(f)
  PROVE  TypeOK'
<1> USE DEF TypeOK, columns, results, source, worker
<1>1. ASSUME NEW S \in SUBSET File, RequeueSelected(S) PROVE TypeOK'
  <2>1. total' \in Nat
    BY <1>1, FileCount DEF RequeueSelected
  <2> QED
    BY <1>1, <2>1 DEF RequeueSelected, States
<1>2. CASE RequeueFailed
  <2>1. total' \in Nat
    BY <1>2, FileCount DEF RequeueFailed
  <2> QED
    BY <1>2, <2>1 DEF RequeueFailed, States
<1>3. ASSUME NEW S \in SUBSET File, NEW on \in BOOLEAN, Toggle(S, on) PROVE TypeOK'
  <2>1. \A f \in File : Toggled(f, on) \in States
    BY DEF Toggled, States
  <2> QED
    BY <1>3, <2>1 DEF Toggle
<1>4. ASSUME NEW S \in SUBSET File, ReplaceWith(S) PROVE TypeOK'
  <2>1. enabled' \in [File -> BOOLEAN]
    <3>1. \A f \in File : enabled[f] \in BOOLEAN
      OBVIOUS
    <3>2. \A f \in File : (f \in S) \in BOOLEAN
      OBVIOUS
    <3> QED
      BY <1>4, <3>1, <3>2 DEF ReplaceWith
  <2>2. state' \in [File -> States]
    BY <1>4 DEF ReplaceWith, States
  <2> QED
    BY <1>4, <2>1, <2>2 DEF ReplaceWith
<1>5. ASSUME NEW S \in SUBSET File, ClearLooks(S) PROVE TypeOK'
  BY <1>5 DEF ClearLooks
<1>6. CASE Clear
  <2>1. preferred' \in [File -> AttemptId \cup {0}] /\ manual' \in [File -> 0 .. MaxManual]
    BY <1>6, QueueAssumption DEF Clear
  <2>2. enabled' \in [File -> BOOLEAN]
    BY <1>6 DEF Clear
  <2>3. state' \in [File -> States]
    BY <1>6 DEF Clear, States
  <2>4. attempts' \in [AttemptId -> Attempt]
    BY <1>6 DEF Clear, Attempt
  <2>5. indexed' \in [File -> Text]
    BY <1>6 DEF Clear, Text
  <2> QED
    BY <1>6, <2>1, <2>2, <2>3, <2>4, <2>5 DEF Clear
<1>7. ASSUME NEW f \in File, SaveManual(f) PROVE TypeOK'
  <2>1. manual' \in [File -> 0 .. MaxManual]
    BY <1>7, QueueAssumption DEF SaveManual
  <2>2. manual'[f] \in Nat
    BY <2>1, QueueAssumption
  <2>3. indexed' \in [File -> Text]
    BY <1>7, <2>2 DEF SaveManual, Text
  <2> QED
    BY <1>7, <2>1, <2>3 DEF SaveManual
<1>8. ASSUME NEW f \in File, DiskChanges(f) PROVE TypeOK'
  <2>1. disk' \in [File -> Content \cup {Gone, Bad}]
    BY <1>8 DEF DiskChanges
  <2>2. changes' \in 0 .. MaxChange
    BY <1>8, QueueAssumption DEF DiskChanges
  <2> QED
    BY <1>8, <2>1, <2>2 DEF DiskChanges
<1>9. ASSUME NEW S \in Chosen, NEW on \in BOOLEAN, SetEnabled(S, on) PROVE TypeOK'
  <2>1. {f \in S : state[f] # "processing"} \in SUBSET File
    BY DEF Chosen
  <2> QED
    BY <1>3, <1>9, <2>1 DEF SetEnabled
<1>10. ASSUME NEW on \in BOOLEAN, SetAllEnabled(on) PROVE TypeOK'
  <2>1. {f \in File : IsCandidate(f) /\ state[f] # "processing"} \in SUBSET File
    OBVIOUS
  <2> QED
    BY <1>3, <1>10, <2>1 DEF SetAllEnabled
<1>11. Chosen \subseteq SUBSET File
  BY DEF Chosen
<1> HIDE DEF TypeOK
<1>12. Command => TypeOK'
  BY <1>1, <1>2, <1>11 DEF Command
<1>13. User => TypeOK'
  BY <1>4, <1>5, <1>6, <1>7, <1>9, <1>10, <1>11 DEF User
<1> QED
  BY <1>8, <1>12, <1>13

\* Every step keeps the types.
LEMMA TypeStep == ASSUME TypeOK, [Next]_vars PROVE TypeOK'
<1>1. CASE UNCHANGED vars
  BY <1>1 DEF TypeOK, vars, columns, results, source, worker
<1> QED
  BY <1>1, ScanTypes, PrepareTypes, WorkTypes, UserTypes DEF Next, Work

\* The columns, the attempts, the index and the worker hold what the schema and the
\* code allow, for any number of files, contents and attempts.
THEOREM QueueTypes == Spec => []TypeOK
<1>1. Init => TypeOK
  BY QueueAssumption
  DEF Init, TypeOK, File, Content, AttemptId, States, Attempt, Text, NoText, NoRow, Row, NoHand, Gone
<1> QED
  BY <1>1, TypeStep, PTL DEF Spec

--------------------------------------------------------------------------------
(* What is shown. *)

\* The worker has an attempt in hand exactly while it transcribes, and unless its
\* history has been cleared meanwhile that attempt is unfinished.  It is the last.
HandIsOpen ==
  IF phase = "transcribing"
  THEN /\ hand.file \in File /\ hand.attempt \in AttemptId
       /\ Exists(hand.attempt) =>
            /\ attempts[hand.attempt].file = hand.file
            /\ attempts[hand.attempt].state = "processing"
       /\ \A b \in AttemptId : b > hand.attempt => ~ Exists(b)
  ELSE hand = NoHand

\* The strengthening of PreferredIsSound that is inductive.
ShownInv == HandIsOpen /\ PreferredIsSound

\* A file that is queued although it has its transcript is due, and so is one that
\* got its transcript back after prepare() has read its row.
QueuedIsDue ==
  \A f \in File : IsTranscribed(f) =>
    /\ state[f] = "queued" => f \in due
    /\ phase = "preparing" /\ rows[f].listed => rows[f].completed \/ f \in due

\* The steps that concern neither the attempts nor what the worker has in hand.
Aside ==
  \/ Scan \/ Command \/ \E f \in File : DiskChanges(f) \/ SaveManual(f)
  \/ \E S \in Chosen, on \in BOOLEAN : SetEnabled(S, on)
  \/ \E on \in BOOLEAN : SetAllEnabled(on)
  \/ \E S \in SUBSET File : ReplaceWith(S)
  \/ \E S \in Chosen : ClearLooks(S)
  \/ UNCHANGED vars

\* Such a step leaves the attempts, the choice among them and the hand as they are.
LEMMA AsideLeaves ==
  ASSUME Aside PROVE UNCHANGED <<attempts, preferred, phase, hand>>
<1> USE DEF columns, results, source, worker
<1>1. Scan => UNCHANGED <<attempts, preferred, phase, hand>>
  BY DEF Scan, ScanReadable, ScanUnreadable, ScanMissing
<1>2. Command => UNCHANGED <<attempts, preferred, phase, hand>>
  BY DEF Command, RequeueSelected, RequeueFailed
<1>3. ASSUME NEW f \in File, DiskChanges(f) \/ SaveManual(f)
      PROVE  UNCHANGED <<attempts, preferred, phase, hand>>
  BY <1>3 DEF DiskChanges, SaveManual
<1>4. ASSUME NEW S \in Chosen, NEW on \in BOOLEAN, SetEnabled(S, on) \/ SetAllEnabled(on)
      PROVE  UNCHANGED <<attempts, preferred, phase, hand>>
  BY <1>4 DEF SetEnabled, SetAllEnabled, Toggle
<1>5. ASSUME NEW S \in SUBSET File, ReplaceWith(S) \/ ClearLooks(S)
      PROVE  UNCHANGED <<attempts, preferred, phase, hand>>
  BY <1>5 DEF ReplaceWith, ClearLooks
<1>6. UNCHANGED vars => UNCHANGED <<attempts, preferred, phase, hand>>
  BY DEF vars
<1>7. ASSUME NEW on \in BOOLEAN, SetAllEnabled(on)
      PROVE  UNCHANGED <<attempts, preferred, phase, hand>>
  BY <1>7 DEF SetAllEnabled, Toggle
<1>8. Chosen \subseteq SUBSET File
  BY DEF Chosen
<1> QED
  BY <1>1, <1>2, <1>3, <1>4, <1>5, <1>6, <1>7, <1>8 DEF Aside

\* Every step is aside or one of the worker's and of clear_selected.
LEMMA StepIsOneOf ==
  ASSUME [Next]_vars
  PROVE  \/ Aside \/ ReadRows \/ Prepare \/ Stop \/ Transcribed \/ NoSpeech \/ Fails \/ Clear
         \/ \E f \in File : Claim(f)
BY DEF Next, Work, User, Aside

\* claim_next gives out an id that no attempt has.
LEMMA ClaimRow ==
  ASSUME TypeOK, NEW f \in File, Claim(f)
  PROVE  \E a \in AttemptId :
           /\ ~ Exists(a) /\ hand' = [file |-> f, attempt |-> a]
           /\ attempts'[a] = [file |-> f, version |-> version[f], state |-> "processing"]
           /\ \A b \in AttemptId : b # a => attempts'[b] = attempts[b]
           /\ \A b \in AttemptId : b >= a => ~ Exists(b)
<1>1. PICK a \in AttemptId :
        /\ IsNextAttempt(a)
        /\ attempts' = [attempts EXCEPT ![a] =
                          [file |-> f, version |-> version[f], state |-> "processing"]]
        /\ hand' = [file |-> f, attempt |-> a]
  BY DEF Claim
<1>2. ~ Exists(a)
  <2>1. a >= a
    BY QueueAssumption DEF AttemptId
  <2> QED
    BY <1>1, <2>1 DEF IsNextAttempt
<1>3. attempts \in [AttemptId -> Attempt]
  BY DEF TypeOK
<1>4. \A b \in AttemptId : b >= a => ~ Exists(b)
  BY <1>1 DEF IsNextAttempt
<1> QED
  BY <1>1, <1>2, <1>3, <1>4

\* Every step keeps shown transcripts sound.
LEMMA ShownStep == ASSUME TypeOK, ShownInv, [Next]_vars PROVE ShownInv'
<1>1. CASE Aside
  BY <1>1, AsideLeaves DEF ShownInv, HandIsOpen, PreferredIsSound, Exists
<1>2. CASE ReadRows \/ Prepare \/ Stop
  <2>1. UNCHANGED <<attempts, preferred>> /\ hand' = NoHand /\ phase' # "transcribing"
    BY <1>2 DEF ReadRows, Prepare, Stop, columns, results, ShownInv, HandIsOpen
  <2> QED
    BY <2>1 DEF ShownInv, HandIsOpen, PreferredIsSound
<1>0. /\ preferred \in [File -> AttemptId \cup {0}] /\ attempts \in [AttemptId -> Attempt]
      /\ AttemptId \subseteq Nat
  BY QueueAssumption DEF TypeOK, AttemptId
<1>3. ASSUME NEW f \in File, Claim(f) PROVE ShownInv'
  <2>1. PICK a \in AttemptId :
           /\ ~ Exists(a) /\ hand' = [file |-> f, attempt |-> a]
           /\ attempts'[a] = [file |-> f, version |-> version[f], state |-> "processing"]
           /\ \A b \in AttemptId : b # a => attempts'[b] = attempts[b]
           /\ \A b \in AttemptId : b >= a => ~ Exists(b)
    BY <1>3, ClaimRow
  <2>2. phase' = "transcribing" /\ preferred' = preferred
    BY <1>3 DEF Claim
  <2>3. HandIsOpen'
    <3>1. \A b \in AttemptId : b > a => ~ Exists(b)'
      BY <1>0, <2>1 DEF Exists
    <3> QED
      BY <2>1, <2>2, <3>1 DEF HandIsOpen
  <2>4. \A g \in File : preferred[g] # 0 => preferred[g] # a /\ preferred[g] \in AttemptId
    BY <1>0, <2>1 DEF ShownInv, PreferredIsSound, Exists, NoAttempt
  <2>5. PreferredIsSound'
    BY <1>0, <2>1, <2>2, <2>4 DEF ShownInv, PreferredIsSound
  <2> QED
    BY <2>3, <2>5 DEF ShownInv
<1>4. CASE Transcribed \/ NoSpeech \/ Fails
  <2>1. hand' = NoHand /\ phase' = "ready" /\ phase = "transcribing"
    BY <1>4 DEF Transcribed, NoSpeech, Fails, Settle
  <2>2. PICK outcome \in AttemptStates :
          /\ Conclude(outcome)
          /\ Transcribed => outcome = "completed"
          /\ ~ Transcribed => outcome # "completed"
    BY <1>4 DEF Transcribed, NoSpeech, Fails, AttemptStates
  <2>3. \A a \in AttemptId :
          attempts'[a] = IF a = hand.attempt /\ Exists(a)
                         THEN [attempts[a] EXCEPT !.state = outcome] ELSE attempts[a]
    BY <1>0, <2>2, ConcludeRow
  <2>4. \A a \in AttemptId : Exists(a) => a <= hand.attempt
    <3>1. hand.attempt \in AttemptId /\ \A b \in AttemptId : b > hand.attempt => ~ Exists(b)
      BY <2>1 DEF ShownInv, HandIsOpen
    <3>2. \A a \in AttemptId : a <= hand.attempt \/ a > hand.attempt
      BY <3>1, QueueAssumption DEF AttemptId
    <3> QED
      BY <3>1, <3>2
  <2>5. Exists(hand.attempt) =>
          /\ attempts[hand.attempt].file = hand.file
          /\ attempts[hand.attempt].state = "processing"
          /\ attempts'[hand.attempt].file = hand.file
          /\ attempts'[hand.attempt].state = outcome
    BY <1>0, <2>1, <2>2, <2>3 DEF ShownInv, HandIsOpen, Exists, Attempt
  <2>6. \A a \in AttemptId : a # hand.attempt => attempts'[a] = attempts[a]
    BY <2>3
  <2>7. \A g \in File : preferred[g] # 0 => preferred[g] \in AttemptId /\ preferred[g] # hand.attempt
    <3>1. \A g \in File : preferred[g] # 0 =>
            /\ attempts[preferred[g]].state = "completed" /\ preferred[g] \in AttemptId
      BY <1>0 DEF ShownInv, PreferredIsSound
    <3>2. \A g \in File : preferred[g] # 0 => Exists(preferred[g])
      BY <3>1 DEF Exists, NoAttempt
    <3> QED
      BY <2>5, <3>1, <3>2
  <2>8. CASE Transcribed
    <3>1. /\ preferred' = [preferred EXCEPT ![hand.file] = hand.attempt]
          /\ Exists(hand.attempt) /\ hand.attempt \in AttemptId /\ hand.file \in File
      BY <2>1, <2>8 DEF Transcribed, ShownInv, HandIsOpen
    <3>2. ASSUME NEW g \in File, preferred'[g] # 0
          PROVE  attempts'[preferred'[g]].file = g /\ attempts'[preferred'[g]].state = "completed"
      <4>1. CASE g = hand.file
        BY <1>0, <2>2, <2>5, <2>8, <3>1, <4>1
      <4>2. CASE g # hand.file
        BY <1>0, <2>6, <2>7, <3>1, <3>2, <4>2 DEF ShownInv, PreferredIsSound
      <4> QED
        BY <4>1, <4>2
    <3>3. ASSUME NEW g \in File, NEW a \in AttemptId,
                 attempts'[a].file = g, attempts'[a].state = "completed"
          PROVE  a <= preferred'[g]
      <4>1. CASE a = hand.attempt
        BY <1>0, <2>5, <3>1, <3>3, <4>1
      <4>2. CASE a # hand.attempt
        <5>1. attempts[a].file = g /\ attempts[a].state = "completed"
          BY <2>6, <3>3, <4>2
        <5>2. Exists(a)
          BY <5>1 DEF Exists, NoAttempt
        <5>3. a <= preferred[g] /\ a <= hand.attempt
          BY <2>4, <5>1, <5>2 DEF ShownInv, PreferredIsSound
        <5> QED
          BY <1>0, <3>1, <5>3
      <4> QED
        BY <4>1, <4>2
    <3> QED
      BY <2>1, <3>2, <3>3 DEF ShownInv, HandIsOpen, PreferredIsSound
  <2>9. CASE ~ Transcribed
    <3>1. preferred' = preferred
      BY <1>4, <2>9 DEF NoSpeech, Fails
    <3>2. \A a \in AttemptId : attempts'[a].state = "completed" => attempts'[a] = attempts[a]
      BY <1>0, <2>2, <2>3, <2>5, <2>6, <2>9
    <3> QED
      BY <2>1, <2>6, <2>7, <3>1, <3>2 DEF ShownInv, HandIsOpen, PreferredIsSound
  <2> QED
    BY <2>8, <2>9
<1>5. CASE Clear
  <2>1. /\ UNCHANGED <<phase, hand>>
        /\ \A f \in File : preferred'[f] = IF f \in clearing THEN 0 ELSE preferred[f]
        /\ \A a \in AttemptId :
             attempts'[a] = IF attempts[a].file \in clearing THEN NoAttempt ELSE attempts[a]
    BY <1>5 DEF Clear, worker
  <2>2. HandIsOpen'
    BY <2>1 DEF ShownInv, HandIsOpen, Exists
  <2>3. PreferredIsSound'
    <3> SUFFICES ASSUME NEW f \in File
                 PROVE  /\ preferred'[f] # 0 => /\ attempts'[preferred'[f]].file = f
                                                /\ attempts'[preferred'[f]].state = "completed"
                        /\ \A a \in AttemptId :
                             attempts'[a].file = f /\ attempts'[a].state = "completed"
                               => a <= preferred'[f]
      BY DEF PreferredIsSound
    <3>1. /\ preferred[f] # 0 => attempts[preferred[f]].file = f /\ attempts[preferred[f]].state = "completed"
          /\ \A a \in AttemptId :
               attempts[a].file = f /\ attempts[a].state = "completed" => a <= preferred[f]
      BY DEF ShownInv, PreferredIsSound
    <3>2. \A a \in AttemptId : attempts'[a].state = "completed" =>
            attempts'[a] = attempts[a] /\ attempts[a].file \notin clearing
      BY <2>1 DEF NoAttempt
    <3>3. CASE f \in clearing
      BY <2>1, <3>2, <3>3
    <3>4. CASE f \notin clearing
      <4>1. preferred'[f] = preferred[f]
        BY <2>1, <3>4
      <4>2. preferred[f] # 0 => attempts'[preferred[f]] = attempts[preferred[f]]
        BY <1>0, <2>1, <3>1, <3>4
      <4> QED
        BY <3>1, <3>2, <4>1, <4>2
    <3> QED
      BY <3>3, <3>4
  <2> QED
    BY <2>2, <2>3 DEF ShownInv
<1> QED
  BY <1>1, <1>2, <1>3, <1>4, <1>5, StepIsOneOf

\* The strengthening holds throughout.
LEMMA ShownInvariant == Spec => []ShownInv
<1>1. Init => ShownInv
  BY DEF Init, ShownInv, HandIsOpen, PreferredIsSound, NoAttempt
<1> QED
  BY <1>1, ShownStep, QueueTypes, PTL DEF Spec

\* What is shown as the transcript of a file is a finished attempt at that file,
\* whatever is cleared, repeated, interrupted or failed in whichever order.
THEOREM ShownIsSound == Spec => []PreferredIsSound
<1>1. ShownInv => PreferredIsSound
  BY DEF ShownInv
<1> QED
  BY <1>1, ShownInvariant, PTL

\* No finished attempt is rewritten, until the history of its file is cleared.
THEOREM HistoryIsKept == Spec => HistoryIsImmutable
<1>1. ASSUME TypeOK, ShownInv, [Next]_vars, NEW a \in AttemptId
      PROVE  \/ attempts[a].state \in {"none", "processing"}
             \/ attempts'[a] = attempts[a]
             \/ attempts'[a] = NoAttempt /\ attempts[a].file \in clearing
  <2>1. CASE Aside
    BY <2>1, AsideLeaves
  <2>2. CASE ReadRows \/ Prepare \/ Stop
    BY <2>2 DEF ReadRows, Prepare, Stop, results
  <2>3. ASSUME NEW f \in File, Claim(f)
        PROVE  attempts[a].state = "none" \/ attempts'[a] = attempts[a]
    <3>1. PICK b \in AttemptId : ~ Exists(b) /\ \A c \in AttemptId : c # b => attempts'[c] = attempts[c]
      BY <1>1, <2>3, ClaimRow
    <3> QED
      BY <3>1 DEF Exists, NoAttempt
  <2>4. CASE Transcribed \/ NoSpeech \/ Fails
    <3>1. PICK outcome \in AttemptStates : Conclude(outcome)
      BY <2>4 DEF Transcribed, NoSpeech, Fails, AttemptStates
    <3>2. attempts'[a] = IF a = hand.attempt /\ Exists(a)
                         THEN [attempts[a] EXCEPT !.state = outcome] ELSE attempts[a]
      BY <1>1, <3>1, ConcludeRow DEF TypeOK
    <3>3. Exists(hand.attempt) => attempts[hand.attempt].state = "processing"
      BY <1>1, <2>4 DEF Transcribed, NoSpeech, Fails, ShownInv, HandIsOpen
    <3> QED
      BY <3>2, <3>3
  <2>5. CASE Clear
    BY <2>5 DEF Clear
  <2> QED
    BY <1>1, <2>1, <2>2, <2>3, <2>4, <2>5, StepIsOneOf
<1>2. ASSUME TypeOK, ShownInv, [Next]_vars
      PROVE  [\A a \in AttemptId :
                \/ attempts[a].state \in {"none", "processing"}
                \/ attempts'[a] = attempts[a]
                \/ attempts'[a] = NoAttempt /\ attempts[a].file \in clearing]_vars
  BY <1>1, <1>2
<1> QED
  BY <1>2, ShownInvariant, QueueTypes, PTL DEF Spec, HistoryIsImmutable

--------------------------------------------------------------------------------
(* The index. *)

\* The index never holds text that is no longer stored for its file, and holds one as
\* long as one is stored.
THEOREM IndexIsBacked == Spec => []IndexedTextIsStored
<1>1. Init => IndexedTextIsStored
  BY DEF Init, IndexedTextIsStored
<1>2. ASSUME TypeOK, ShownInv, IndexedTextIsStored, [Next]_vars PROVE IndexedTextIsStored'
  <2>1. CASE UNCHANGED <<preferred, manual, indexed>>
    BY <1>2, <2>1 DEF IndexedTextIsStored
  <2>2. CASE Transcribed
    <3>1. /\ hand.attempt # 0 /\ manual' = manual
          /\ preferred' = [preferred EXCEPT ![hand.file] = hand.attempt]
          /\ indexed' = [indexed EXCEPT ![hand.file] = [kind |-> "machine", id |-> hand.attempt]]
      BY <1>2, <2>2, QueueAssumption DEF Transcribed, Settle, ShownInv, HandIsOpen, AttemptId
    <3>2. preferred \in [File -> AttemptId \cup {0}] /\ indexed \in [File -> Text]
      BY <1>2 DEF TypeOK
    <3> QED
      BY <1>2, <3>1, <3>2 DEF IndexedTextIsStored
  <2>3. CASE Clear
    <3>1. \A f \in File : f \in clearing =>
            indexed'[f] = NoText /\ preferred'[f] = 0 /\ manual'[f] = 0
      BY <2>3 DEF Clear
    <3>2. \A f \in File : f \notin clearing =>
            /\ indexed'[f] = indexed[f]
            /\ preferred'[f] = preferred[f]
            /\ manual'[f] = manual[f]
      BY <2>3 DEF Clear
    <3> QED
      BY <1>2, <3>1, <3>2 DEF IndexedTextIsStored
  <2>4. ASSUME NEW f \in File, SaveManual(f) PROVE IndexedTextIsStored'
    <3>1. preferred' = preferred /\ manual'[f] # 0
      BY <1>2, <2>4, QueueAssumption DEF SaveManual, TypeOK
    <3>2. indexed'[f] = [kind |-> "manual", id |-> manual'[f]]
      BY <1>2, <2>4 DEF SaveManual, TypeOK
    <3>3. \A g \in File : g # f => indexed'[g] = indexed[g] /\ manual'[g] = manual[g]
      BY <1>2, <2>4 DEF SaveManual, TypeOK
    <3> QED
      BY <1>2, <3>1, <3>2, <3>3 DEF IndexedTextIsStored
  <2> USE DEF columns, results, source, worker
  <2>5. CASE ReadRows \/ Prepare \/ Stop \/ NoSpeech \/ Fails \/ \E f \in File : Claim(f)
    BY <2>1, <2>5 DEF ReadRows, Prepare, Stop, NoSpeech, Fails, Settle, Claim
  <2>6. CASE Scan \/ Command \/ \E f \in File : DiskChanges(f)
    BY <2>1, <2>6
    DEF Scan, ScanReadable, ScanUnreadable, ScanMissing, Command, RequeueSelected, RequeueFailed,
        DiskChanges
  <2>7. ASSUME NEW S, NEW on, Toggle(S, on) \/ ReplaceWith(S) \/ ClearLooks(S)
        PROVE  IndexedTextIsStored'
    BY <2>1, <2>7 DEF Toggle, ReplaceWith, ClearLooks
  <2>8. CASE UNCHANGED vars
    BY <2>1, <2>8 DEF vars
  <2> HIDE DEF columns, results, source, worker
  <2> QED
    BY <1>2, <2>2, <2>3, <2>4, <2>5, <2>6, <2>7, <2>8, StepIsOneOf
    DEF Aside, SetEnabled, SetAllEnabled
<1> QED
  BY <1>1, <1>2, QueueTypes, ShownInvariant, PTL DEF Spec

--------------------------------------------------------------------------------
(* What is repeated. *)

\* A file gets a transcript of its current bytes from the worker, or when a scan
\* finds bytes again that were transcribed before.
LEMMA WhoTranscribes ==
  ASSUME TypeOK, ShownInv, [Next]_vars, NEW f \in File, IsTranscribed(f)'
  PROVE  \/ IsTranscribed(f)
         \/ f \in due' /\ Aside
         \/ Transcribed /\ hand.file = f
<1> USE DEF columns, results, source, worker
<1>0. /\ preferred \in [File -> AttemptId \cup {0}] /\ version \in [File -> Content]
      /\ attempts \in [AttemptId -> Attempt]
  BY DEF TypeOK
<1>1. CASE UNCHANGED <<attempts, preferred, version>>
  BY <1>1 DEF IsTranscribed
<1>2. CASE Scan
  <2>1. PICK g \in File : ScanReadable(g) \/ ScanUnreadable(g) \/ ScanMissing(g)
    BY <1>2 DEF Scan
  <2>2. CASE ScanReadable(g) /\ g = f
    <3>1. CASE disk[f] = version[f]
      <4>1. UNCHANGED <<attempts, preferred, version>>
        BY <1>0, <2>2, <3>1 DEF ScanReadable
      <4> QED
        BY <1>1, <4>1
    <3>2. CASE disk[f] # version[f]
      BY <1>2, <2>2, <3>2 DEF ScanReadable, Aside
    <3> QED
      BY <3>1, <3>2
  <2>3. CASE ScanReadable(g) /\ g # f
    BY <1>0, <2>3 DEF ScanReadable, IsTranscribed
  <2>4. CASE ScanUnreadable(g) \/ ScanMissing(g)
    BY <1>1, <2>4 DEF ScanUnreadable, ScanMissing
  <2> QED
    BY <2>1, <2>2, <2>3, <2>4
<1>3. ASSUME NEW g \in File, Claim(g) PROVE IsTranscribed(f)
  <2>1. PICK a \in AttemptId :
          /\ attempts'[a] = [file |-> g, version |-> version[g], state |-> "processing"]
          /\ \A b \in AttemptId : b # a => attempts'[b] = attempts[b]
    BY <1>3, ClaimRow
  <2>2. preferred' = preferred /\ version' = version
    BY <1>3 DEF Claim
  <2> QED
    BY <1>0, <2>1, <2>2 DEF IsTranscribed
<1>4. CASE NoSpeech \/ Fails \/ (Transcribed /\ hand.file # f)
  <2>1. preferred'[f] = preferred[f] /\ version' = version /\ phase = "transcribing"
    BY <1>0, <1>4 DEF NoSpeech, Fails, Transcribed, Settle
  <2>2. PICK outcome \in AttemptStates : Conclude(outcome)
    BY <1>4 DEF Transcribed, NoSpeech, Fails, AttemptStates
  <2>3. \A a \in AttemptId :
          attempts'[a] = IF a = hand.attempt /\ Exists(a)
                         THEN [attempts[a] EXCEPT !.state = outcome] ELSE attempts[a]
    BY <1>0, <2>2, ConcludeRow
  <2>4. preferred[f] # 0 => attempts[preferred[f]].state = "completed"
    BY DEF ShownInv, PreferredIsSound
  <2>5. Exists(hand.attempt) => attempts[hand.attempt].state = "processing"
    BY <2>1 DEF ShownInv, HandIsOpen
  <2> QED
    BY <1>0, <2>1, <2>3, <2>4, <2>5 DEF IsTranscribed
<1>5. CASE Clear
  <2>1. /\ preferred'[f] = IF f \in clearing THEN 0 ELSE preferred[f]
        /\ version' = version
        /\ \A a \in AttemptId :
             attempts'[a] = IF attempts[a].file \in clearing THEN NoAttempt ELSE attempts[a]
    BY <1>5 DEF Clear
  <2>2. preferred[f] # 0 => attempts[preferred[f]].file = f
    BY DEF ShownInv, PreferredIsSound
  <2> QED
    BY <1>0, <2>1, <2>2 DEF IsTranscribed
<1>6. CASE ReadRows \/ Prepare \/ Stop \/ UNCHANGED vars
  BY <1>1, <1>6 DEF ReadRows, Prepare, Stop, vars
<1>7. CASE Command \/ \E g \in File : DiskChanges(g) \/ SaveManual(g)
  BY <1>1, <1>7 DEF Command, RequeueSelected, RequeueFailed, DiskChanges, SaveManual
<1>8. ASSUME NEW S, NEW on, Toggle(S, on) \/ ReplaceWith(S) \/ ClearLooks(S)
      PROVE  IsTranscribed(f)
  <2>1. UNCHANGED <<attempts, preferred, version>>
    BY <1>8 DEF Toggle, ReplaceWith, ClearLooks
  <2> QED
    BY <2>1 DEF IsTranscribed
<1> HIDE DEF columns, results, source, worker
<1> QED
  BY <1>2, <1>3, <1>4, <1>5, <1>6, <1>7, <1>8, StepIsOneOf DEF Aside, SetEnabled, SetAllEnabled

\* prepare() makes a file claimable only if it has not seen its transcript.
LEMMA PreparedQueued ==
  ASSUME NEW f \in File, PreparedState(f) = "queued", state[f] # "queued"
  PROVE  rows[f].listed /\ ~ rows[f].completed
<1>1. IsDecided(f) /\ Action(f) = "claimable"
  BY DEF PreparedState
<1>2. ~ rows[f].completed
  BY <1>1 DEF Action, NextAction, MayReuse
<1> QED
  BY <1>1, <1>2 DEF IsDecided

\* The states that only the worker gives a file.
Worked == {"processing", "failed", "no_speech"}

\* What an aside step does to the reasons to transcribe a file, and to its state.
LEMMA AsideDue ==
  ASSUME TypeOK, Aside, NEW f \in File
  PROVE  /\ due \subseteq due'
         /\ UNCHANGED <<phase, rows>>
         /\ state'[f] = "queued" => state[f] = "queued" \/ f \in due'
         /\ state'[f] \in Worked => state'[f] = state[f]
<1> USE DEF columns, results, source, worker
<1>0. state \in [File -> States]
  BY DEF TypeOK
<1>1. ASSUME NEW g \in File, ScanReadable(g) \/ ScanUnreadable(g) \/ ScanMissing(g)
      PROVE  /\ due \subseteq due' /\ UNCHANGED <<phase, rows>>
             /\ state'[f] = "queued" => state[f] = "queued"
             /\ state'[f] \in Worked => state'[f] = state[f]
  BY <1>0, <1>1 DEF ScanReadable, ScanUnreadable, ScanMissing, Worked
<1>2. ASSUME NEW S \in SUBSET File, RequeueSelected(S) \/ RequeueFailed
      PROVE  /\ due \subseteq due' /\ UNCHANGED <<phase, rows>>
             /\ state'[f] = "queued" => state[f] = "queued" \/ f \in due'
             /\ state'[f] \in Worked => state'[f] = state[f]
  BY <1>0, <1>2 DEF RequeueSelected, RequeueFailed, Worked
<1>3. ASSUME NEW S, NEW on, Toggle(S, on)
      PROVE  /\ due \subseteq due' /\ UNCHANGED <<phase, rows>>
             /\ state'[f] = "queued" => state[f] = "queued"
             /\ state'[f] \in Worked => state'[f] = state[f]
  BY <1>0, <1>3 DEF Toggle, Toggled, Worked
<1>4. ASSUME NEW S, ReplaceWith(S) \/ ClearLooks(S)
      PROVE  /\ due \subseteq due' /\ UNCHANGED <<phase, rows>>
             /\ state'[f] = "queued" => state[f] = "queued"
             /\ state'[f] \in Worked => state'[f] = state[f]
  BY <1>0, <1>4 DEF ReplaceWith, ClearLooks, Worked
<1>5. ASSUME NEW g, DiskChanges(g) \/ SaveManual(g)
      PROVE  due' = due /\ UNCHANGED <<phase, rows>> /\ state' = state
  BY <1>5 DEF DiskChanges, SaveManual
<1>6. UNCHANGED vars => due' = due /\ UNCHANGED <<phase, rows>> /\ state' = state
  BY DEF vars
<1>7. Chosen \subseteq SUBSET File
  BY DEF Chosen
<1> HIDE DEF columns, results, source, worker
<1> QED
  BY <1>1, <1>2, <1>3, <1>4, <1>5, <1>6, <1>7
  DEF Aside, Scan, Command, SetEnabled, SetAllEnabled

\* Every step keeps repetitions due.
LEMMA DueStep ==
  ASSUME TypeOK, ShownInv, QueuedIsDue, [Next]_vars
  PROVE  QueuedIsDue'
<1> SUFFICES ASSUME NEW f \in File, IsTranscribed(f)'
             PROVE  /\ state'[f] = "queued" => f \in due'
                    /\ phase' = "preparing" /\ rows'[f].listed => rows'[f].completed \/ f \in due'
  BY DEF QueuedIsDue
<1>1. CASE f \in due'
  BY <1>1
<1>2. CASE Transcribed /\ hand.file = f
  <2>1. state'[f] = Complete /\ phase' = "ready"
    BY <1>2 DEF Transcribed, Settle, TypeOK
  <2> QED
    BY <2>1 DEF Complete
<1>3. CASE IsTranscribed(f)
  <2>0. /\ state[f] = "queued" => f \in due
        /\ phase = "preparing" /\ rows[f].listed => rows[f].completed \/ f \in due
    BY <1>3 DEF QueuedIsDue
  <2>1. CASE Aside
    BY <2>0, <2>1, AsideDue
  <2>2. CASE ReadRows
    BY <1>3, <2>0, <2>2 DEF ReadRows, Snapshot, columns
  <2>3. CASE Prepare
    <3>1. state'[f] = PreparedState(f) /\ phase' = "ready" /\ due' = due /\ phase = "preparing"
      BY <2>3 DEF Prepare
    <3> QED
      BY <2>0, <3>1, PreparedQueued
  <2>4. CASE Stop
    BY <2>0, <2>4 DEF Stop, columns
  <2>5. CASE Transcribed \/ NoSpeech \/ Fails
    <3>1. phase' = "ready" /\ due' = due /\ (state'[f] = "queued" => state[f] = "queued")
      BY <2>5 DEF Transcribed, NoSpeech, Fails, Settle, TypeOK, Complete
    <3> QED
      BY <2>0, <3>1
  <2>6. CASE Clear
    <3>1. /\ state'[f] = "queued" => state[f] = "queued"
          /\ due' = due /\ UNCHANGED <<phase, rows>>
      BY <2>6 DEF Clear, worker
    <3> QED
      BY <2>0, <3>1
  <2>7. ASSUME NEW g \in File, Claim(g)
        PROVE  /\ state'[f] = "queued" => f \in due'
               /\ phase' = "transcribing"
    BY <2>0, <2>7 DEF Claim, TypeOK
  <2> QED
    BY <2>1, <2>2, <2>3, <2>4, <2>5, <2>6, <2>7, StepIsOneOf
<1> QED
  BY <1>1, <1>2, <1>3, WhoTranscribes

\* No file is transcribed again while its transcript is of the bytes in place,
\* unless somebody has asked for it or a scan has seen other bytes meanwhile.
THEOREM NoneRepeatedSilently == Spec => NoSilentRepeat
<1>1. Init => QueuedIsDue
  BY DEF Init, QueuedIsDue, IsTranscribed
<1>2. ASSUME TypeOK, QueuedIsDue, [Next]_vars, NEW f \in File,
             state[f] # "processing", state'[f] = "processing", IsTranscribed(f)
      PROVE  f \in due
  <2>0. state \in [File -> States]
    BY <1>2 DEF TypeOK
  <2>1. CASE \E g \in File : Claim(g)
    <3>1. state[f] = "queued"
      BY <1>2, <2>0, <2>1 DEF Claim, IsClaimable
    <3> QED
      BY <1>2, <3>1 DEF QueuedIsDue
  <2>2. CASE Aside
    BY <1>2, <2>2, AsideDue DEF Worked
  <2>3. CASE Prepare
    BY <1>2, <2>3 DEF Prepare, PreparedState
  <2>4. CASE ReadRows \/ Stop \/ Clear
    BY <1>2, <2>4 DEF ReadRows, Stop, Clear, columns
  <2>5. CASE Transcribed \/ NoSpeech \/ Fails
    BY <1>2, <2>0, <2>5 DEF Transcribed, NoSpeech, Fails, Settle, Complete
  <2> QED
    BY <1>2, <2>1, <2>2, <2>3, <2>4, <2>5, StepIsOneOf
<1>3. ASSUME TypeOK, QueuedIsDue, [Next]_vars
      PROVE  [\A f \in File :
                /\ state[f] # "processing" /\ state'[f] = "processing"
                /\ IsTranscribed(f) /\ disk[f] = version[f]
                => f \in due]_vars
  BY <1>2, <1>3
<1> QED
  BY <1>1, <1>3, DueStep, ShownInvariant, QueueTypes, PTL DEF Spec, NoSilentRepeat

--------------------------------------------------------------------------------
(* What failed. *)

\* prepare() has read of a failed file that it failed.
FailureIsRead ==
  \A f \in File :
    phase = "preparing" /\ rows[f].listed /\ state[f] \in {"failed", "no_speech"}
      => rows[f].state \in {"failed", "no_speech"}

\* Every step keeps what prepare() has read of failures.
LEMMA FailureStep == ASSUME TypeOK, ShownInv, FailureIsRead, [Next]_vars PROVE FailureIsRead'
<1> SUFFICES ASSUME NEW f \in File, phase' = "preparing", rows'[f].listed,
                    state'[f] \in {"failed", "no_speech"}
             PROVE  rows'[f].state \in {"failed", "no_speech"}
  BY DEF FailureIsRead
<1>0. state \in [File -> States]
  BY DEF TypeOK
<1>1. CASE Aside
  <2>1. state'[f] = state[f] /\ phase' = phase /\ rows' = rows
    BY <1>1, AsideDue DEF Worked
  <2> QED
    BY <2>1 DEF FailureIsRead
<1>2. CASE ReadRows
  BY <1>2 DEF ReadRows, Snapshot, columns
<1>3. CASE Prepare \/ Stop \/ Transcribed \/ NoSpeech \/ Fails \/ \E g \in File : Claim(g)
  BY <1>3 DEF Prepare, Stop, Transcribed, NoSpeech, Fails, Settle, Claim
<1>4. CASE Clear
  BY <1>0, <1>4 DEF Clear, FailureIsRead, worker
<1> QED
  BY <1>1, <1>2, <1>3, <1>4, StepIsOneOf

\* However a worker, a scan, the user and a clear interleave, a file that failed is
\* queued again only by a request for it.
THEOREM FailuresStay == Spec => FailedStaysFailed
<1>1. Init => FailureIsRead
  BY DEF Init, FailureIsRead
<1>2. ASSUME TypeOK, FailureIsRead, [Next]_vars, NEW f \in File,
             state[f] \in {"failed", "no_speech"}, state'[f] = "queued"
      PROVE  f \in due'
  <2>0. state \in [File -> States]
    BY <1>2 DEF TypeOK
  <2>1. CASE Aside
    BY <1>2, <2>1, AsideDue
  <2>2. CASE Prepare
    <3>1. state'[f] = PreparedState(f) /\ phase = "preparing"
      BY <2>2 DEF Prepare
    <3>2. IsDecided(f)
      BY <1>2, <3>1 DEF PreparedState
    <3> QED
      BY <1>2, <3>1, <3>2 DEF IsDecided, FailureIsRead
  <2>3. CASE ReadRows \/ Stop \/ Clear \/ \E g \in File : Claim(g)
    BY <1>2, <2>0, <2>3 DEF ReadRows, Stop, Clear, Claim, columns
  <2>4. CASE Transcribed \/ NoSpeech \/ Fails
    BY <1>2, <2>0, <2>4 DEF Transcribed, NoSpeech, Fails, Settle, Complete
  <2> QED
    BY <1>2, <2>1, <2>2, <2>3, <2>4, StepIsOneOf
<1>3. ASSUME TypeOK, FailureIsRead, [Next]_vars
      PROVE  [\A f \in File :
                state[f] \in {"failed", "no_speech"} /\ state'[f] = "queued" => f \in due']_vars
  BY <1>2, <1>3
<1> QED
  BY <1>1, <1>3, FailureStep, ShownInvariant, QueueTypes, PTL DEF Spec, FailedStaysFailed

--------------------------------------------------------------------------------
(* The refinement. *)

\* Of an attempt that stays as it is, so does the result.
LEMMA SameResult ==
  ASSUME NEW a \in AttemptId, attempts'[a] = attempts[a]
  PROVE  Result(a)' = Result(a) /\ (IsFinished(a)' <=> IsFinished(a))
BY DEF Result, IsFinished

\* Steps that finish and clear nothing leave the results as they are.
LEMMA SameResults ==
  ASSUME \A a \in AttemptId : \/ attempts'[a] = attempts[a]
                              \/ ~ IsFinished(a) /\ ~ IsFinished(a)'
  PROVE  Results' = Results
BY SameResult DEF Results

\* The end of an inference adds its result as the last one, unless the attempt was
\* cleared; then it leaves nothing.
LEMMA FinishImplements ==
  ASSUME TypeOK, ShownInv, Transcribed \/ NoSpeech \/ Fails
  PROVE  [History!Next]_<<Results, preferred, clearing>>
<1>0. /\ attempts \in [AttemptId -> Attempt] /\ AttemptId \subseteq Nat
      /\ phase = "transcribing" /\ hand.file \in File /\ hand.attempt \in AttemptId
      /\ clearing' = clearing
  BY QueueAssumption
  DEF TypeOK, AttemptId, Transcribed, NoSpeech, Fails, Settle, ShownInv, HandIsOpen
<1>1. PICK outcome \in History!Outcomes :
        /\ Conclude(outcome)
        /\ preferred' = IF outcome = "completed"
                        THEN [preferred EXCEPT ![hand.file] = hand.attempt] ELSE preferred
        /\ outcome = "completed" => Exists(hand.attempt)
  BY DEF Transcribed, NoSpeech, Fails, History!Outcomes
<1>2. /\ attempts' \in [AttemptId -> Attempt]
      /\ \A a \in AttemptId :
           attempts'[a] = IF a = hand.attempt /\ Exists(a)
                          THEN [attempts[a] EXCEPT !.state = outcome] ELSE attempts[a]
  BY <1>0, <1>1, ConcludeRow DEF History!Outcomes, AttemptStates
<1>3. CASE ~ Exists(hand.attempt)
  <2>1. Results' = Results
    BY <1>2, <1>3, SameResults
  <2> QED
    BY <1>0, <1>1, <1>3, <2>1
<1>4. CASE Exists(hand.attempt)
  <2>0. PICK i \in AttemptId, v \in Content : i = hand.attempt /\ v = attempts[i].version
    BY <1>0, <1>4 DEF Exists, Attempt
  <2>1. /\ attempts[i].file = hand.file /\ attempts[i].state = "processing"
        /\ \A b \in AttemptId : b > i => ~ Exists(b)
    BY <1>0, <1>4, <2>0 DEF ShownInv, HandIsOpen
  <2>2. attempts[i] \in Attempt /\ attempts[i] # NoAttempt
    BY <1>0, <1>4, <2>0 DEF Exists
  <2>3. /\ attempts'[i].file = hand.file /\ attempts'[i].version = v
        /\ attempts'[i].state = outcome
    BY <1>0, <1>2, <1>4, <2>0, <2>1, <2>2 DEF Attempt
  <2>4. ~ IsFinished(i) /\ IsFinished(i)'
        /\ Result(i)' = [id |-> i, file |-> hand.file, version |-> v, outcome |-> outcome]
    BY <1>1, <2>1, <2>3 DEF IsFinished, Result, History!Outcomes
  <2>5. \A a \in AttemptId : a # i =>
          Result(a)' = Result(a) /\ (IsFinished(a)' <=> IsFinished(a))
    BY <1>2, <2>0, SameResult
  <2>6. Results' = Results \cup {[id |-> i, file |-> hand.file, version |-> v, outcome |-> outcome]}
    BY <2>4, <2>5 DEF Results
  <2>7. \A k \in Results : k.id < i
    <3>1. ASSUME NEW a \in AttemptId, IsFinished(a) PROVE Result(a).id < i
      <4>1. Exists(a) /\ a # i
        BY <2>4, <3>1 DEF IsFinished, Exists, NoAttempt
      <4>2. ~ (a > i)
        BY <2>1, <4>1
      <4>3. a < i
        BY <4>1, <4>2, QueueAssumption DEF AttemptId
      <4> QED
        BY <4>3 DEF Result
    <3> QED
      BY <3>1 DEF Results
  <2>8. History!Finish(hand.file, i, v, outcome)
    BY <1>0, <1>1, <2>0, <2>6, <2>7 DEF History!Finish
  <2> QED
    BY <1>0, <1>1, <2>8 DEF History!Next
<1> QED
  BY <1>3, <1>4

\* clear_selected forgets the results of the files that were asked for.
LEMMA ClearImplements ==
  ASSUME TypeOK, Clear PROVE History!Forget
<1>0. attempts \in [AttemptId -> Attempt]
  BY DEF TypeOK
<1>1. /\ clearing # {} /\ clearing' = {}
      /\ preferred' = [f \in File |-> IF f \in clearing THEN 0 ELSE preferred[f]]
      /\ \A a \in AttemptId :
           attempts'[a] = IF attempts[a].file \in clearing THEN NoAttempt ELSE attempts[a]
  BY DEF Clear
<1>2. ASSUME NEW a \in AttemptId, attempts[a].file \in clearing
      PROVE  ~ IsFinished(a)' /\ Result(a).file \in clearing
  BY <1>1, <1>2 DEF IsFinished, NoAttempt, Result
<1>3. ASSUME NEW a \in AttemptId, attempts[a].file \notin clearing
      PROVE  /\ Result(a)' = Result(a) /\ (IsFinished(a)' <=> IsFinished(a))
             /\ Result(a).file \notin clearing
  <2>1. attempts'[a] = attempts[a]
    BY <1>1, <1>3
  <2> QED
    BY <1>3, <2>1, SameResult DEF Result
<1>4. Results' = {k \in Results : k.file \notin clearing}
  BY <1>2, <1>3 DEF Results
<1> QED
  BY <1>1, <1>4 DEF History!Forget

\* Every step is one of TranscriptHistory or a stutter.
LEMMA StepKeepsHistory ==
  ASSUME TypeOK, ShownInv, [Next]_vars
  PROVE  [History!Next]_<<Results, preferred, clearing>>
<1> DEFINE Goal == [History!Next]_<<Results, preferred, clearing>>
<1>1. ASSUME attempts' = attempts, preferred' = preferred, clearing' = clearing PROVE Goal
  BY <1>1, SameResults
<1>2. CASE Aside
  <2>1. attempts' = attempts /\ preferred' = preferred
    BY <1>2, AsideLeaves
  <2>2. Results' = Results
    BY <2>1, SameResults
  <2>3. ASSUME NEW S \in Chosen, ClearLooks(S) PROVE History!Next
    BY <2>1, <2>2, <2>3 DEF ClearLooks, History!Next, History!Ask, Chosen
  <2> USE DEF columns, results, source, worker
  <2>4. Scan => clearing' = clearing
    BY DEF Scan, ScanReadable, ScanUnreadable, ScanMissing
  <2>5. Command => clearing' = clearing
    BY DEF Command, RequeueSelected, RequeueFailed
  <2>6. ASSUME NEW f, DiskChanges(f) \/ SaveManual(f) PROVE clearing' = clearing
    BY <2>6 DEF DiskChanges, SaveManual
  <2>7. ASSUME NEW S, NEW on, Toggle(S, on) \/ ReplaceWith(S) PROVE clearing' = clearing
    BY <2>7 DEF Toggle, ReplaceWith
  <2>8. UNCHANGED vars => clearing' = clearing
    BY DEF vars
  <2> HIDE DEF columns, results, source, worker
  <2>9. clearing' = clearing \/ History!Next
    BY <1>2, <2>3, <2>4, <2>5, <2>6, <2>7, <2>8 DEF Aside, SetEnabled, SetAllEnabled
  <2> QED
    BY <1>1, <2>1, <2>9
<1>3. CASE ReadRows \/ Prepare \/ Stop
  BY <1>1, <1>3 DEF ReadRows, Prepare, Stop, columns, results
<1>4. ASSUME NEW f \in File, Claim(f) PROVE Goal
  <2>1. PICK a \in AttemptId :
          /\ ~ Exists(a)
          /\ attempts'[a] = [file |-> f, version |-> version[f], state |-> "processing"]
          /\ \A b \in AttemptId : b # a => attempts'[b] = attempts[b]
    BY <1>4, ClaimRow
  <2>2. ~ IsFinished(a) /\ ~ IsFinished(a)'
    BY <2>1 DEF Exists, NoAttempt, IsFinished
  <2>3. Results' = Results
    BY <2>1, <2>2, SameResults
  <2> QED
    BY <1>4, <2>3 DEF Claim
<1>5. CASE Transcribed \/ NoSpeech \/ Fails
  BY <1>5, FinishImplements
<1>6. CASE Clear
  BY <1>6, ClearImplements DEF History!Next
<1> QED
  BY <1>2, <1>3, <1>4, <1>5, <1>6, StepIsOneOf

\* The queue implements the history it stands for: no claim, failure, retry, crash or
\* change of a source changes or hides a result, and a clear forgets those it was
\* asked to forget.
THEOREM ImplementsHistory == Spec => KeepsHistory
<1>1. Init => History!Init
  BY DEF Init, History!Init, Results, IsFinished, NoAttempt
<1> QED
  BY <1>1, StepKeepsHistory, ShownInvariant, QueueTypes, PTL DEF Spec, KeepsHistory, History!Spec

================================================================================
