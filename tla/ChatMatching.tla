------------------------------- MODULE ChatMatching -------------------------------
(***************************************************************************)
(* ChatMatching: the exported chats that have been read, the references to *)
(* voice files found in them, and the matches of recordings to references. *)
(*                                                                         *)
(* A scan reads one export after the other, outside a transaction, and     *)
(* records in one transaction what is new.  A run of the matcher reads all *)
(* references first and then records the matches of one recording after    *)
(* the other.  Both run in threads that nothing keeps apart.  A reference  *)
(* that is deleted takes its matches with it, and its id may be given out  *)
(* again: SQLite takes one more than the largest.                          *)
(*                                                                         *)
(* An export has at most one reference here.                               *)
(***************************************************************************)
EXTENDS Naturals, FiniteSets

CONSTANTS
  Scan,         \* the scans that may run side by side
  Path,         \* the files of the chat folder
  Content,      \* what an export may hold
  Audio,        \* the recordings, by name
  Sender,       \* the senders
  Named,        \* Named[c] is the recording that a content refers to,
  Omitted,      \* or this: a voice message without its name
  Said,         \* Said[c] is the sender
  NoContent,    \* no file, no export
  NoPath,       \* NULL for duplicate_of_id
  MaxRef,       \* bound on the ids of references
  MaxChange,    \* bound on the changes of the files
  MaxBegin      \* bound on the scans and runs that are begun

Ref == 1 .. MaxRef

ASSUME ChatAssumption ==
  /\ Named \in [Content -> Audio \cup {Omitted}] /\ Omitted \notin Audio
  /\ Said \in [Content -> Sender]
  /\ NoContent \notin Content /\ NoPath \notin Path /\ IsFiniteSet(Path)
  /\ MaxRef \in Nat /\ MaxChange \in Nat /\ MaxBegin \in Nat

VARIABLES
  chats,        \* the files
  exports,      \* chat_exports, by path: id, sha256 and duplicate_of_id
  refs,         \* chat_voice_references, by id
  matches,      \* metadata_matches, by recording
  scan,         \* where each scan is
  matcher,      \* the run of the matcher: what it has read, what is left
  changes,      \* how often a file has changed
  begins,       \* how many scans and runs have been begun
  outdated,     \* history: <<p, d>> when d has been read again since p was read
  overlapped    \* history: something was recorded between the reading and the
                \* recording of another scan or of the matcher

chatVars == <<chats, exports, refs, matches, scan, matcher, changes, begins, outdated, overlapped>>

Export == [id : 1 .. Cardinality(Path), digest : Content, duplicate : Path \cup {NoPath}]
NoExport == [id |-> 0, digest |-> NoContent, duplicate |-> NoPath]
RefRow == [path : Path, content : Content]
NoRef == [path |-> NoPath, content |-> NoContent]
Match == [candidates : SUBSET Ref, selected : Ref \cup {0}]
NoMatch == [candidates |-> {}, selected |-> 0]
\* A reference as the matcher sees it.
Seen == [id : Ref, content : Content, duplicate : BOOLEAN]

ScanState == [at : {"idle", "walking", "read"}, todo : SUBSET Path,
              path : Path \cup {NoPath}, digest : Content \cup {NoContent}, isNew : BOOLEAN]
NoScan == [at |-> "idle", todo |-> {}, path |-> NoPath, digest |-> NoContent, isNew |-> FALSE]
NoRun == [todo |-> {}, seen |-> {}]

ChatTypeOK ==
  /\ chats \in [Path -> Content \cup {NoContent}]
  /\ exports \in [Path -> Export \cup {NoExport}]
  /\ refs \in [Ref -> RefRow \cup {NoRef}]
  /\ matches \in [Audio -> Match]
  /\ scan \in [Scan -> ScanState]
  /\ matcher \in [todo : SUBSET Audio, seen : SUBSET Seen]
  /\ changes \in 0 .. MaxChange /\ begins \in 0 .. MaxBegin
  /\ outdated \subseteq Path \X Path /\ overlapped \in BOOLEAN

ChatInit ==
  /\ chats \in [Path -> Content \cup {NoContent}]
  /\ exports = [p \in Path |-> NoExport]
  /\ refs = [r \in Ref |-> NoRef]
  /\ matches = [a \in Audio |-> NoMatch]
  /\ scan = [s \in Scan |-> NoScan]
  /\ matcher = NoRun
  /\ changes = 0 /\ begins = 0
  /\ outdated = {} /\ overlapped = FALSE

Known == {p \in Path : exports[p] # NoExport}
Rows == {r \in Ref : refs[r] # NoRef}

--------------------------------------------------------------------------------
(* match_audio. *)

Ids(R) == {r.id : r \in R}
Naming(a, R) == {r \in R : Named[r.content] = a}

\* The references that may be selected: the only one (exact_unique), or those that
\* are not in a copy of another export (exact_duplicate_export_resolved).
Eligible(named) ==
  IF Cardinality(named) = 1 THEN named ELSE {r \in named : ~ r.duplicate}

\* When more than one is left nothing is selected (exact_ambiguous).  Without a
\* reference that names the recording there is filename_not_present or
\* probable_timestamp_match; every reference has a time here.
Verdict(a, R) ==
  LET named == Naming(a, R)
      eligible == Eligible(named) IN
  [candidates |-> IF named # {} THEN Ids(named)
                  ELSE IF \E r \in R : Named[r.content] = Omitted THEN {} ELSE Ids(R),
   selected |-> IF Cardinality(eligible) = 1 THEN CHOOSE i \in Ids(eligible) : TRUE ELSE 0]

--------------------------------------------------------------------------------
(* A scan of the chat folder. *)

BeginScan(s) ==
  /\ scan[s].at = "idle" /\ begins < MaxBegin
  /\ begins' = begins + 1
  /\ scan' = [scan EXCEPT ![s] = [NoScan EXCEPT !.at = "walking",
                                                !.todo = {p \in Path : chats[p] # NoContent}]]
  /\ UNCHANGED <<chats, exports, refs, matches, matcher, changes, outdated, overlapped>>

\* _import_one up to its transaction.
ReadExport(s, p) ==
  /\ scan[s].at = "walking" /\ p \in scan[s].todo /\ chats[p] # NoContent
  /\ LET here == scan[s] IN
     scan' = [scan EXCEPT ![s] =
       IF exports[p].digest = chats[p] THEN [here EXCEPT !.todo = here.todo \ {p}]
       ELSE [here EXCEPT !.at = "read", !.path = p, !.digest = chats[p],
                         !.isNew = exports[p] = NoExport]]
  /\ UNCHANGED <<chats, exports, refs, matches, matcher, changes, begins, outdated, overlapped>>

\* The end of the scan, or of its thread, or an exception: a file that has gone
\* raises one, and so does an export that another scan has inserted.
EndScan(s) ==
  /\ scan[s].at # "idle"
  /\ scan' = [scan EXCEPT ![s] = NoScan]
  /\ UNCHANGED <<chats, exports, refs, matches, matcher, changes, begins, outdated, overlapped>>

\* The transaction is over: on to the next file.
Recorded(s) ==
  /\ scan' = [scan EXCEPT ![s] = [NoScan EXCEPT !.at = "walking",
                                                !.todo = scan[s].todo \ {scan[s].path}]]
  /\ overlapped' = (overlapped \/ matcher # NoRun
                      \/ \E t \in Scan \ {s} : scan[t].at = "read")

\* The first export with the same bytes.
IsFirst(p, digest) ==
  /\ p \in Known /\ exports[p].digest = digest
  /\ \A q \in Known : exports[q].digest = digest => exports[p].id <= exports[q].id

IsDuplicateOf(d, digest) ==
  IF \E q \in Known : exports[q].digest = digest THEN IsFirst(d, digest) ELSE d = NoPath

\* The references of an export are deleted, with their matches, and the new ones
\* inserted: one more than the largest id.
RefsOf(p) == {r \in Ref : refs[r].path = p}

\* Mutant: the matches of deleted references stay.
ReplaceRefsOnly(p, digest) ==
  LET left == Rows \ RefsOf(p) IN
  /\ \E new \in Ref :
       /\ \A r \in left : r < new
       /\ \A i \in 1 .. new - 1 : \E r \in left : i <= r
       /\ refs' = [r \in Ref |-> IF r = new THEN [path |-> p, content |-> digest]
                                 ELSE IF r \in left THEN refs[r] ELSE NoRef]
  /\ UNCHANGED matches

ReplaceRefs(p, digest) ==
  LET left == Rows \ RefsOf(p) IN
  /\ \E new \in Ref :
       /\ \A r \in left : r < new
       /\ \A i \in 1 .. new - 1 : \E r \in left : i <= r
       /\ refs' = [r \in Ref |-> IF r = new THEN [path |-> p, content |-> digest]
                                 ELSE IF r \in left THEN refs[r] ELSE NoRef]
  /\ matches' = [a \in Audio |->
       [candidates |-> matches[a].candidates \ RefsOf(p),
        selected |-> IF matches[a].selected \in RefsOf(p) THEN 0 ELSE matches[a].selected]]

InsertExport(s) ==
  LET p == scan[s].path IN
  /\ scan[s].at = "read" /\ scan[s].isNew /\ p \notin Known
  /\ \E d \in Path \cup {NoPath} :
       /\ IsDuplicateOf(d, scan[s].digest)
       /\ exports' = [exports EXCEPT ![p] = [id |-> Cardinality(Known) + 1,
                                             digest |-> scan[s].digest, duplicate |-> d]]
  /\ ReplaceRefs(p, scan[s].digest)
  /\ Recorded(s)
  /\ UNCHANGED <<chats, matcher, changes, begins, outdated>>

ReadAgain(p) ==
  outdated' = {pair \in outdated : pair[1] # p} \cup {<<q, p>> : q \in Known \ {p}}

\* Mutant: an export that is read again stays a duplicate of what it was.
UpdateDigestOnly(s) ==
  LET p == scan[s].path IN
  /\ scan[s].at = "read" /\ ~ scan[s].isNew
  /\ exports' = [exports EXCEPT ![p].digest = scan[s].digest]
  /\ ReplaceRefs(p, scan[s].digest)
  /\ Recorded(s)
  /\ ReadAgain(p)
  /\ UNCHANGED <<chats, matcher, changes, begins>>

UpdateExport(s) ==
  LET p == scan[s].path IN
  /\ scan[s].at = "read" /\ ~ scan[s].isNew
  /\ \E d \in Path \cup {NoPath} :
       /\ IsDuplicateOf(d, scan[s].digest)
       /\ exports' = [exports EXCEPT ![p].digest = scan[s].digest, ![p].duplicate = d]
  /\ ReplaceRefs(p, scan[s].digest)
  /\ Recorded(s)
  /\ ReadAgain(p)
  /\ UNCHANGED <<chats, matcher, changes, begins>>

--------------------------------------------------------------------------------
(* A run of the matcher, and the files. *)

BeginMatching ==
  /\ matcher = NoRun /\ begins < MaxBegin
  /\ begins' = begins + 1
  /\ matcher' = [todo |-> Audio,
                 seen |-> {[id |-> r, content |-> refs[r].content,
                            duplicate |-> exports[refs[r].path].duplicate # NoPath] : r \in Rows}]
  /\ UNCHANGED <<chats, exports, refs, matches, scan, changes, outdated, overlapped>>

\* The matches of one recording are replaced, if all the references still exist.
RecordMatches(a) ==
  /\ a \in matcher.todo
  /\ Verdict(a, matcher.seen).candidates \subseteq Rows
  /\ matches' = [matches EXCEPT ![a] = Verdict(a, matcher.seen)]
  /\ matcher' = IF matcher.todo = {a} THEN NoRun ELSE [matcher EXCEPT !.todo = @ \ {a}]
  /\ UNCHANGED <<chats, exports, refs, scan, changes, begins, outdated, overlapped>>

\* A reference has gone, or the thread ends.
EndMatching ==
  /\ matcher # NoRun
  /\ matcher' = NoRun
  /\ UNCHANGED <<chats, exports, refs, matches, scan, changes, begins, outdated, overlapped>>

\* The user exports a chat again, adds one or removes one.
ChangeChat(p) ==
  /\ changes < MaxChange
  /\ \E c \in Content \cup {NoContent} : c # chats[p] /\ chats' = [chats EXCEPT ![p] = c]
  /\ changes' = changes + 1
  /\ UNCHANGED <<exports, refs, matches, scan, matcher, begins, outdated, overlapped>>

ScanStep(s) ==
  \/ BeginScan(s) \/ EndScan(s) \/ InsertExport(s) \/ UpdateExport(s)
  \/ \E p \in Path : ReadExport(s, p)

ChatNext ==
  \/ \E s \in Scan : ScanStep(s)
  \/ \E a \in Audio : RecordMatches(a)
  \/ \E p \in Path : ChangeChat(p)
  \/ BeginMatching \/ EndMatching

ChatSpec == ChatInit /\ [][ChatNext]_chatVars

--------------------------------------------------------------------------------
(* Properties. *)

\* What is selected for a recording is a reference that exists and names it,
\* although references are deleted and their ids given out again.
SelectedNamesRecording ==
  ~ overlapped => \A a \in Audio : matches[a].selected # 0 =>
    matches[a].selected \in Rows /\ Named[refs[matches[a].selected].content] = a

\* An export that is marked as a copy has the bytes of the other one, unless that
\* has been read again since; and while that has happened to no export, the other
\* one is no copy itself, so that one of them is left to be selected.
CopiesAgree ==
  ~ overlapped => \A p \in Known :
    LET d == exports[p].duplicate IN
    d # NoPath /\ <<p, d>> \notin outdated =>
      /\ d \in Known /\ d # p
      /\ exports[d].digest = exports[p].digest
      /\ outdated = {} => exports[d].duplicate = NoPath

CandidatesOf(a) == {refs[r] : r \in matches[a].candidates}

\* Refuted.  "Metadata yang ambigu ditandai untuk diperiksa, bukan ditebak." (README)
\* A recording has a sender only when all its references agree on the sender.
NeverGuessed ==
  ~ overlapped => \A a \in Audio : matches[a].selected # 0 =>
    \A c, d \in CandidatesOf(a) : Said[c.content] = Said[d.content]
================================================================================
