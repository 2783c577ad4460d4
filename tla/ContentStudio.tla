----------------------------- MODULE ContentStudio -----------------------------
(* One piece of content of a campaign and its versions                            *)
(* (content-studio/content-studio.service.ts).  The worker creates the piece, and *)
(* people edit it, make variations of it and choose among its versions.  The brand  *)
(* memory binds what they write, and learns from what they change.                *)
EXTENDS BrandMemory

CONSTANTS
  MaxVariations,   \* bound: how many variations are made at once
  RemovedKey,      \* the observation that people remove the word of the generated text
  AddedKey         \* the observation that they add the word that replaces it

ASSUME StudioAssumption ==
  /\ MaxVariations \in Nat
  /\ {RemovedKey, AddedKey} \subseteq Keys /\ RemovedKey # AddedKey

VARIABLES
  piece,      \* the row of the piece
  versions    \* the rows of its versions, in the order of their creation

studioVars == <<piece, versions>>

NoPiece == [status |-> "none", current |-> 0, type |-> "TEXT"]
Version(number, label, text, by) ==
  [number |-> number, label |-> label, text |-> text, by |-> by, human |-> FALSE]
Written(r, number, label) == [Version(number, label, req[r].value, r) EXCEPT !.human = TRUE]

\* A piece that is still to be created; or one that was, by 0, and may have been edited.
StudioInit ==
  /\ \E type \in {"TEXT", "VIDEO"} :
       \/ piece = [NoPiece EXCEPT !.type = type] /\ versions = <<>>
       \/ /\ piece = [status |-> "READY", current |-> 1, type |-> type]
          /\ versions = <<Version(1, FALSE, "plain", 0)>>
  \/ /\ piece = [status |-> "READY", current |-> 2, type |-> "TEXT"]
     /\ versions = <<Version(1, FALSE, "plain", 0),
                     [Version(2, FALSE, "plain", 0) EXCEPT !.human = TRUE]>>

Numbers(labelled) == {versions[i].number : i \in {j \in DOMAIN versions :
                                                    labelled \/ ~versions[j].label}}
Largest(S) == CHOOSE n \in S \cup {0} : \A m \in S \cup {0} : m <= n

-----------------------------------------------------------------------------
\* createPiece: the piece, then its version, then the piece again.
CreatePiece(r) ==
  /\ Arrives(r, "studio")
  /\ piece.status = "none"
  /\ piece' = [piece EXCEPT !.status = "DRAFT"]
  /\ Call(r, [NewRequest EXCEPT !.op = "create", !.pc = "version"])
  /\ UNCHANGED <<versions, memoryVars>>

CreateFirstVersion(r) ==
  /\ Doing(r, "create", "version")
  /\ versions' = Append(versions, Version(1, FALSE, "plain", r))
  /\ Becomes(r, [req[r] EXCEPT !.pc = "current", !.seen = Len(versions) + 1])
  /\ UNCHANGED <<piece, memoryVars>>

MakeReady(r) ==
  /\ Doing(r, "create", "current")
  /\ piece' = [piece EXCEPT !.current = req[r].seen, !.status = "READY"]
  /\ Goto(r, "done")
  /\ UNCHANGED <<versions, memoryVars>>

\* Mutant: the number after that of the version that is shown.
NextNumberOfCurrent ==
  IF piece.current = 0 THEN 1 ELSE versions[piece.current].number + 1
\* The numbers of the variations do not count.
NextNumber == Largest(Numbers(FALSE)) + 1

\* What people change in the text that was generated is learnt from.
LearnsFrom(text) ==
  piece.current # 0 /\ ~versions[piece.current].human /\ versions[piece.current].text # text

\* editContent, of the text or only of the asset: what is read decides the number, and
\* whether it is learnt from.
EditContent(r) ==
  /\ Arrives(r, "studio")
  /\ piece.status # "none"
  /\ \/ \E text \in {"plain", "term"} :
          Call(r, [NewRequest EXCEPT !.op = "edit", !.value = text,
                 !.pc = IF piece.type = "VIDEO" THEN "refused" ELSE "rules",
                 !.seen = NextNumber, !.user = IF LearnsFrom(text) THEN "learns" ELSE "none"])
     \/ Call(r, [NewRequest EXCEPT !.op = "edit", !.pc = "version", !.seen = NextNumber])
  /\ UNCHANGED <<studioVars, memoryVars>>

\* createVariations: level of them, all with the largest number there is.
CreateVariations(r) ==
  /\ Arrives(r, "studio")
  /\ piece.status # "none"
  /\ \E text \in {"plain", "term"}, n \in 1..MaxVariations :
       Call(r, [NewRequest EXCEPT !.op = "vary", !.value = text, !.level = n,
              !.pc = IF piece.type = "VIDEO" THEN "refused" ELSE "rules",
              !.seen = Largest(Numbers(TRUE))])
  /\ UNCHANGED <<studioVars, memoryVars>>

\* validateTextBody: the rules of the brand as they are now.
ValidateTextBody(r) ==
  /\ req[r].pc = "rules"
  /\ Goto(r, IF Forbidden /\ req[r].value = "term" THEN "refused" ELSE "version")
  /\ UNCHANGED <<studioVars, memoryVars>>

CreateEdited(r) ==
  /\ Doing(r, "edit", "version")
  /\ versions' = Append(versions, Written(r, req[r].seen, FALSE))
  /\ Becomes(r, [req[r] EXCEPT !.pc = "current", !.level = Len(versions) + 1])
  /\ UNCHANGED <<piece, memoryVars>>

CreateVaried(r) ==
  /\ Doing(r, "vary", "version")
  /\ versions' = Append(versions, Written(r, req[r].seen, TRUE))
  /\ Becomes(r, [req[r] EXCEPT !.pc = IF req[r].level = 1 THEN "done" ELSE "version",
                               !.level = @ - 1])
  /\ UNCHANGED <<piece, memoryVars>>

\* selectVariationAsCurrent of any version, and archive.
SelectVersion(r) ==
  /\ Arrives(r, "studio")
  /\ \E i \in DOMAIN versions :
       Call(r, [NewRequest EXCEPT !.op = "select", !.pc = "current", !.level = i])
  /\ UNCHANGED <<studioVars, memoryVars>>

SetCurrent(r) ==
  /\ req[r].op \in {"edit", "select"} /\ req[r].pc = "current"
  /\ piece' = [piece EXCEPT !.current = req[r].level]
  /\ Becomes(r, [req[r] EXCEPT !.pc = IF req[r].user = "learns" THEN "learn" ELSE "done",
                               !.value = "edited"])
  /\ UNCHANGED <<versions, memoryVars>>

\* captureHumanEditObservations: the words that were removed, then those that were added;
\* there may be none.
LearnFromEdit(r) ==
  /\ Doing(r, "edit", "learn")
  /\ \/ req[r].value = "edited" /\ Observe(r, RemovedKey, [req[r] EXCEPT !.value = "removed"])
     \/ req[r].value # "added" /\ Observe(r, AddedKey, [req[r] EXCEPT !.value = "added"])
     \/ Goto(r, "done")
  /\ UNCHANGED <<studioVars, memoryVars>>

Archive(r) ==
  /\ Arrives(r, "studio")
  /\ piece.status # "none"
  /\ piece' = [piece EXCEPT !.status = "ARCHIVED"]
  /\ Call(r, [NewRequest EXCEPT !.op = "archive", !.pc = "done"])
  /\ UNCHANGED <<versions, memoryVars>>

StudioStep ==
  \E r \in Requests :
    \/ CreatePiece(r) \/ CreateFirstVersion(r) \/ MakeReady(r)
    \/ EditContent(r) \/ CreateVariations(r) \/ ValidateTextBody(r)
    \/ CreateEdited(r) \/ CreateVaried(r) \/ SelectVersion(r) \/ SetCurrent(r)
    \/ LearnFromEdit(r) \/ Archive(r)

-----------------------------------------------------------------------------
\* The revisions of a piece are numbered one after the other, whatever was shown, chosen
\* or varied in between: two of them have the same number only if they were made at the
\* same time (content-studio.service.ts:104), and no variation has a number that no
\* revision has.  What is shown is a version of the piece.
RevisionsAreNumbered ==
  /\ \A i, j \in DOMAIN versions :
       ~versions[i].label /\ ~versions[j].label /\ versions[i].number = versions[j].number
         => i = j \/ Met(versions[i].by, versions[j].by)
  /\ \A i \in DOMAIN versions :
       versions[i].label /\ versions[i].number # 0
         => \E j \in DOMAIN versions : ~versions[j].label /\ versions[j].number = versions[i].number
  /\ piece.current \in 0..Len(versions)
  /\ piece.status = "READY" => piece.current # 0
================================================================================
