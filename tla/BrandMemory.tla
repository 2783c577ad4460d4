------------------------------ MODULE BrandMemory ------------------------------
(* What the organization has learnt about its brand: the entries of one category  *)
(* (brand/brand-learning.service.ts), the contradictions between them that the    *)
(* code detects and a person resolves (brand/contradiction.service.ts), and the   *)
(* rules that bind what people write (brand/brand-rule-guard.service.ts).         *)
EXTENDS Requests

CONSTANTS
  Keys,         \* the dedupKey of each observation that may be made
  Says,         \* what an observation says: one of the two sides, or neither
  Axis,         \* its channel, persona and type of content
  MaxEntries,   \* bound: how many rows of knowledge there are
  MAX_CANDIDATES_PER_SCAN,  \* how many others a scan compares an entry with: 30
  Memories0     \* what may be known before: the rows, and the pairs that were found to
                \* contradict each other

EntryStatuses == {"ACTIVE", "CONTRADICTED", "DISMISSED"}

EntriesOf(requests) ==
  [key : Keys, says : {"short", "long", "other"}, axis : {Axis[key] : key \in Keys},
   type : {"LEARNING", "RULE"}, status : EntryStatuses, terms : BOOLEAN, evidence : Nat,
   by : SUBSET requests]
ContradictionsOf(entries) ==
  [a : entries, b : entries,
   status : {"UNRESOLVED", "RESOLVED_A", "RESOLVED_B", "CONTEXT_DEPENDENT"}]

\* Words of one pair, one on each side.
Opposing(says, other) == {says, other} = {"short", "long"}

\* What was known before was observed once, by 0; each key has one row; and what opposes
\* each other was found to.
ASSUME MemoryAssumption ==
  /\ Says \in [Keys -> {"short", "long", "other"}]
  /\ MaxEntries \in Nat
  /\ MAX_CANDIDATES_PER_SCAN \in Nat \ {0}
  /\ \A m \in Memories0 :
       /\ m.entries \in Seq(EntriesOf({0}))
       /\ m.contradictions \in Seq(ContradictionsOf(DOMAIN m.entries))
       /\ \A i, j \in DOMAIN m.entries :
            /\ m.entries[i].evidence = 1 /\ m.entries[i].by = {0}
            /\ m.entries[i].key = m.entries[j].key => i = j
ASSUME OpposedBefore ==
  \A m \in Memories0 : \A i, j \in DOMAIN m.entries :
    /\ m.entries[i].status = "ACTIVE" /\ m.entries[j].status = "ACTIVE"
    /\ Opposing(m.entries[i].says, m.entries[j].says)
    /\ m.entries[i].axis = m.entries[j].axis
    => \E n \in DOMAIN m.contradictions : {m.contradictions[n].a, m.contradictions[n].b} = {i, j}

VARIABLES
  memory,           \* the rows of knowledge, in the order of their creation
  contradictions,   \* the rows of the contradictions
  comparing,        \* the candidates that the scan of each request has still to compare
  recent,           \* the entries by lastObservedAt, the latest first
  missed            \* what was not compared since (history): {i}, an entry that came back
                    \* or whose scan failed, and {i, j}, a pair beyond the candidates

memoryVars == <<memory, contradictions, comparing, recent, missed>>

\* by are the requests that counted in the evidence; before them there was one (history).
Entry(key, says, axis, r) ==
  [key |-> key, says |-> says, axis |-> axis, type |-> "LEARNING", status |-> "ACTIVE",
   terms |-> FALSE, evidence |-> 1, by |-> {r}]

MemoryInit ==
  /\ \E m \in Memories0 :
       /\ memory = m.entries /\ contradictions = m.contradictions
       /\ recent = [n \in DOMAIN m.entries |-> Len(m.entries) + 1 - n]
  /\ comparing = [r \in Requests |-> {}]
  /\ missed = {}

Entries == DOMAIN memory
InUse(i) == memory[i].status = "ACTIVE"

\* A rule in force that names the term forbids it.
Forbidden == \E i \in Entries : memory[i].type = "RULE" /\ InUse(i) /\ memory[i].terms

Recorded(i, j) == \E n \in DOMAIN contradictions : {contradictions[n].a, contradictions[n].b} = {i, j}

\* lastObservedAt of an entry is now.
ObservedNow(i) == recent' = <<i>> \o SelectSeq(recent, LAMBDA j : j # i)

-----------------------------------------------------------------------------
\* Mutant: the entries that are found are those in use.
FoundInUse(key) == {i \in Entries : memory[i].key = key /\ InUse(i)}
\* The key is not unique in the database, and any of two may be found.
Found(key) == {i \in Entries : memory[i].key = key}

\* recordObservation: the entry of its key, if there is one, and its evidence are read.
Observe(r, key, request) ==
  \/ /\ Found(key) = {}
     /\ Becomes(r, [request EXCEPT !.pc = "store", !.account = key, !.seen = 0, !.limit = 0])
  \/ \E i \in Found(key) :
       Becomes(r, [request EXCEPT !.pc = "store", !.account = key, !.seen = i,
                                  !.limit = memory[i].evidence])

\* The edit of another piece or an analysis of the optimizer, from where it observes on.
RecordObservation(r) ==
  /\ Arrives(r, "brand")
  /\ \E key \in Keys :
       Call(r, [NewRequest EXCEPT !.op = "observe", !.pc = "learn", !.account = key])
  /\ UNCHANGED memoryVars

LookUpObserved(r) ==
  /\ Doing(r, "observe", "learn")
  /\ Observe(r, req[r].account, req[r])
  /\ UNCHANGED memoryVars

StoreObservation(r) ==
  /\ req[r].pc = "store"
  /\ LET key == req[r].account  i == req[r].seen IN
     IF i = 0
     THEN /\ Len(memory) < MaxEntries
          /\ memory' = Append(memory, Entry(key, Says[key], Axis[key], r))
          /\ ObservedNow(Len(memory) + 1)
          /\ Becomes(r, [req[r] EXCEPT !.pc = "scan", !.seen = Len(memory) + 1])
     ELSE /\ memory' = [memory EXCEPT ![i].says = Says[key],
                                      ![i].evidence = req[r].limit + 1, ![i].by = @ \cup {r}]
          /\ ObservedNow(i)
          /\ Goto(r, "scan")
  /\ UNCHANGED <<contradictions, comparing, missed>>

-----------------------------------------------------------------------------
\* The edit of a piece goes on with its next observation.
AfterScan(r) == IF req[r].op = "edit" THEN "learn" ELSE "done"

Others(i) == {j \in Entries \ {i} : InUse(j)}
TooMany(i) == Cardinality(Others(i)) > MAX_CANDIDATES_PER_SCAN

\* The entries in use that were observed last, as many as a scan takes, and those of them
\* that oppose this one, whatever its own status.
Position(i) == CHOOSE n \in DOMAIN recent : recent[n] = i
Candidates(i) ==
  {j \in Others(i) :
     Cardinality({k \in Others(i) \ {j} : Position(k) < Position(j)}) < MAX_CANDIDATES_PER_SCAN}
Compared(i) == {j \in Candidates(i) : Opposing(memory[i].says, memory[j].says)}
\* What a scan that has too many of them leaves out.
LeftOut(i) == IF TooMany(i) THEN {{i, j} : j \in Others(i) \ Candidates(i)} ELSE {}

\* scanForContradictions: the entry and the candidates are read at the same time, and what
\* was read of them decides.
ReadCandidates(r) ==
  /\ req[r].pc = "scan"
  /\ LET i == req[r].seen IN
       /\ comparing' = [comparing EXCEPT ![r] =
                          {[of |-> j, conflict |-> memory[i].axis = memory[j].axis] : j \in Compared(i)}]
       /\ missed' = {p \in missed : i \notin p} \cup LeftOut(i)
       /\ Goto(r, IF Compared(i) = {} THEN AfterScan(r) ELSE "compare")
  /\ UNCHANGED <<memory, contradictions, recent>>

\* One that was compared is not compared again.
Leave(r, candidate) ==
  /\ comparing' = [comparing EXCEPT ![r] = @ \ {candidate}]
  /\ Becomes(r, [req[r] EXCEPT !.pc = IF comparing[r] = {candidate} THEN AfterScan(r) ELSE "compare",
                               !.level = 0])

\* A contradiction of the two was recorded before, resolved or not; or there is none.
AlreadyRecorded(r) ==
  /\ req[r].pc = "compare"
  /\ \E candidate \in comparing[r] :
       IF Recorded(req[r].seen, candidate.of) THEN Leave(r, candidate)
       ELSE Becomes(r, [req[r] EXCEPT !.pc = "record", !.level = candidate.of]) /\ UNCHANGED comparing
  /\ UNCHANGED <<memory, contradictions, recent, missed>>

RecordContradiction(r) ==
  /\ req[r].pc = "record"
  /\ \E candidate \in comparing[r] :
       /\ candidate.of = req[r].level
       /\ contradictions' = Append(contradictions,
            [a |-> req[r].seen, b |-> candidate.of,
             status |-> IF candidate.conflict THEN "UNRESOLVED" ELSE "CONTEXT_DEPENDENT"])
       /\ IF candidate.conflict THEN Goto(r, "mark") /\ UNCHANGED comparing ELSE Leave(r, candidate)
  /\ UNCHANGED <<memory, recent, missed>>

MarkContradicted(r) ==
  /\ req[r].pc = "mark"
  /\ memory' = [i \in Entries |-> IF i \in {req[r].seen, req[r].level}
                                  THEN [memory[i] EXCEPT !.status = "CONTRADICTED"] ELSE memory[i]]
  /\ \E candidate \in comparing[r] : candidate.of = req[r].level /\ Leave(r, candidate)
  /\ UNCHANGED <<contradictions, recent, missed>>

\* A query of the scan throws: the observation stays, and is not compared.
ScanFails(r) ==
  /\ req[r].pc \in {"scan", "compare", "record", "mark"}
  /\ missed' = missed \cup {{req[r].seen}}
  /\ comparing' = [comparing EXCEPT ![r] = {}]
  /\ Becomes(r, [req[r] EXCEPT !.pc = AfterScan(r), !.level = 0])
  /\ UNCHANGED <<memory, contradictions, recent>>

\* What throws before is thrown to the caller, and an edit goes on without it.
ObservationFails(r) ==
  /\ req[r].pc \in {"learn", "store"}
  /\ Goto(r, IF req[r].op = "edit" THEN "done" ELSE "refused")
  /\ UNCHANGED memoryVars

-----------------------------------------------------------------------------
\* confirmEntry: the evidence is read, and then written.
ConfirmEntry(r) ==
  /\ Arrives(r, "brand")
  /\ \E i \in Entries :
       Call(r, [NewRequest EXCEPT !.op = "confirm", !.pc = "write", !.seen = i,
                                  !.limit = memory[i].evidence])
  /\ UNCHANGED memoryVars

WriteConfirmed(r) ==
  /\ Doing(r, "confirm", "write")
  /\ memory' = [memory EXCEPT ![req[r].seen].evidence = req[r].limit + 1,
                              ![req[r].seen].by = @ \cup {r}]
  /\ ObservedNow(req[r].seen)
  /\ Goto(r, "done")
  /\ UNCHANGED <<contradictions, comparing, missed>>

\* dismissEntry, whatever the status.
DismissEntry(r) ==
  /\ Arrives(r, "brand")
  /\ \E i \in Entries : memory' = [memory EXCEPT ![i].status = "DISMISSED"]
  /\ Call(r, [NewRequest EXCEPT !.op = "dismiss", !.pc = "done"])
  /\ UNCHANGED <<contradictions, comparing, recent, missed>>

\* promoteToRule, whatever the status: the terms that were read are kept beside the type.
PromoteToRule(r) ==
  /\ Arrives(r, "brand")
  /\ \E i \in Entries, terms \in BOOLEAN :
       Call(r, [NewRequest EXCEPT !.op = "promote", !.pc = "write", !.seen = i,
                                  !.limit = IF terms \/ memory[i].terms THEN 1 ELSE 0])
  /\ UNCHANGED memoryVars

WritePromoted(r) ==
  /\ Doing(r, "promote", "write")
  /\ memory' = [memory EXCEPT ![req[r].seen].type = "RULE",
                              ![req[r].seen].terms = (req[r].limit = 1)]
  /\ Goto(r, "done")
  /\ UNCHANGED <<contradictions, comparing, recent, missed>>

\* Mutant: what was corrected is not compared.
CorrectEntryUnseen(r) ==
  /\ Arrives(r, "brand")
  /\ \E i \in Entries, says \in {Says[key] : key \in Keys}, axis \in {Axis[key] : key \in Keys} :
       /\ memory' = [memory EXCEPT ![i].says = says, ![i].axis = axis]
       /\ Call(r, [NewRequest EXCEPT !.op = "correct", !.pc = "done", !.seen = i])
  /\ UNCHANGED <<contradictions, comparing, recent, missed>>
\* correctEntry: what it says or where it holds, and it is compared again.
CorrectEntry(r) ==
  /\ Arrives(r, "brand")
  /\ \E i \in Entries, says \in {Says[key] : key \in Keys}, axis \in {Axis[key] : key \in Keys} :
       /\ memory' = [memory EXCEPT ![i].says = says, ![i].axis = axis]
       /\ Call(r, [NewRequest EXCEPT !.op = "correct", !.pc = "scan", !.seen = i])
  /\ UNCHANGED <<contradictions, comparing, recent, missed>>

-----------------------------------------------------------------------------
\* resolve, whatever was resolved before: the contradiction, then its two entries.
Resolve(r) ==
  /\ Arrives(r, "brand")
  /\ \E n \in DOMAIN contradictions,
        resolution \in {"RESOLVED_A", "RESOLVED_B", "CONTEXT_DEPENDENT"} :
       /\ contradictions' = [contradictions EXCEPT ![n].status = resolution]
       /\ Call(r, [NewRequest EXCEPT !.op = "resolve", !.pc = "keep", !.level = n,
                                      !.value = resolution])
  /\ UNCHANGED <<memory, comparing, recent, missed>>

Kept(r) ==
  LET n == contradictions[req[r].level] IN
  CASE req[r].value = "RESOLVED_A" -> {n.a}
    [] req[r].value = "RESOLVED_B" -> {n.b}
    [] OTHER -> {n.a, n.b}
Dropped(r) ==
  LET n == contradictions[req[r].level] IN {n.a, n.b} \ Kept(r)

\* Nothing compares an entry that comes back with those that came meanwhile.
KeepEntries(r) ==
  /\ Doing(r, "resolve", "keep")
  /\ memory' = [i \in Entries |-> IF i \in Kept(r) THEN [memory[i] EXCEPT !.status = "ACTIVE"]
                                  ELSE memory[i]]
  /\ missed' = missed \cup {{i} : i \in {k \in Kept(r) : ~InUse(k)}}
  /\ Goto(r, IF Dropped(r) = {} THEN "done" ELSE "drop")
  /\ UNCHANGED <<contradictions, comparing, recent>>

DropEntry(r) ==
  /\ Doing(r, "resolve", "drop")
  /\ memory' = [i \in Entries |-> IF i \in Dropped(r) THEN [memory[i] EXCEPT !.status = "DISMISSED"]
                                  ELSE memory[i]]
  /\ Goto(r, "done")
  /\ UNCHANGED <<contradictions, comparing, recent, missed>>

MemoryStep ==
  \E r \in Requests :
    \/ RecordObservation(r) \/ LookUpObserved(r) \/ StoreObservation(r) \/ ReadCandidates(r)
    \/ AlreadyRecorded(r) \/ RecordContradiction(r) \/ MarkContradicted(r) \/ ScanFails(r)
    \/ ObservationFails(r) \/ ConfirmEntry(r) \/ WriteConfirmed(r) \/ DismissEntry(r)
    \/ PromoteToRule(r) \/ WritePromoted(r) \/ CorrectEntry(r) \/ Resolve(r)
    \/ KeepEntries(r) \/ DropEntry(r)

-----------------------------------------------------------------------------
Scanned(i) == \E r \in Requests : req[r].pc \in {"scan", "compare", "record", "mark"} /\ req[r].seen = i

Missed(i, j) == \E p \in missed : p \subseteq {i, j}

\* Two pieces of knowledge that oppose each other on the same channel are not both given
\* to the writer (brand-memory-query.service.ts:44), however the observations, corrections
\* and resolutions cross: a person was asked about the two, or one of them is being
\* compared, or its scan failed or it came back by the resolution of something else
\* (contradiction.service.ts:142), which compares nothing.  Or there were more of them than
\* a scan takes, and the other was not among those observed last
\* (contradiction.service.ts:58-64).
KnowledgeAgrees ==
  \A i, j \in Entries :
    /\ InUse(i) /\ InUse(j)
    /\ Opposing(memory[i].says, memory[j].says)
    /\ memory[i].axis = memory[j].axis
    => Recorded(i, j) \/ Missed(i, j) \/ Scanned(i) \/ Scanned(j)

\* Each observation and each confirmation counts once, in the one entry of its key: some
\* are lost, or have an entry of their own, only where they were made at the same time
\* (brand-learning.service.ts:97).
EvidenceAddsUp ==
  \A i, j \in Entries :
    /\ memory[i].evidence <= Cardinality(memory[i].by)
    /\ memory[i].evidence < Cardinality(memory[i].by) => \E r, s \in memory[i].by : Met(r, s)
    /\ memory[i].key = memory[j].key /\ i # j
         => \E r \in memory[i].by, s \in memory[j].by : Met(r, s)
================================================================================
