------------------------------- MODULE Procedure -------------------------------
(***************************************************************************)
(* ParseProcedure: a Markdown procedure is cut into prose and controls,    *)
(* line by line, and the images of its prose are then checked, block by    *)
(* block, with a second reading of the same fences.                        *)
(*                                                                         *)
(* A line is abstracted to what the parser tells apart: a fence with its   *)
(* marker, width and info string, whether it starts in the first column,   *)
(* a declaration, an image that is not a declared asset, or text.          *)
(***************************************************************************)
EXTENDS Naturals, Sequences, FiniteSets

CONSTANTS
  LineKinds,     \* the lines a procedure may have
  MaxLines,      \* bound: lines of a procedure, all of which are read,
  Samples,       \* and longer ones
  maxControls

(* A line: [kind, marker, width, info, flush, id, bound]. *)
ASSUME ProcedureAssumption ==
  /\ MaxLines \in Nat /\ maxControls \in Nat
  /\ \A l \in LineKinds : l.kind \in {"fence", "image", "declaration", "text"}

VARIABLES
  doc,        \* the source, as lines
  mode,       \* prose, control, images, accepted or rejected
  line,       \* the line at hand
  proseStart, \* where the prose not yet cut begins
  opened,     \* where the control at hand began
  fence,      \* the ordinary fence the line is in
  blocks,     \* the blocks so far: [kind, first, last, id, bound]
  live,       \* lines ParseProcedure read as live prose
  checked     \* lines validateImages looked at

procVars == <<doc, mode, line, proseStart, opened, fence, blocks, live, checked>>

NoFence == [kind |-> "none"]

ProcStart ==
  /\ mode = "prose" /\ line = 1 /\ proseStart = 1 /\ opened = 0
  /\ fence = NoFence /\ blocks = <<>>
  /\ live = {} /\ checked = {}

ProcInit ==
  /\ doc \in Samples \cup UNION {[1..n -> LineKinds] : n \in 1..MaxLines}
  /\ ProcStart

(***************************************************************************)
(* Fences.                                                                 *)
(***************************************************************************)
Here == doc[line]
IsControlFence(l) == l.kind = "fence" /\ l.info \in {"test-field", "test-other"}
WellFormed(l) == l.marker = "tick" /\ l.width = 3 /\ l.info = "test-field" /\ l.flush
EndsControl(l) == l.kind = "fence" /\ l.marker = "tick" /\ l.width = 3 /\ l.info = "" /\ l.flush

closes(f, l) == l.kind = "fence" /\ l.marker = f.marker /\ l.width >= f.width /\ l.info = ""

(* The fence after line l, when f was open before it. *)
FenceAfter(f, l) ==
  IF f # NoFence THEN IF closes(f, l) THEN NoFence ELSE f
  ELSE IF l.kind = "fence" THEN l ELSE NoFence

(***************************************************************************)
(* ParseProcedure.                                                         *)
(***************************************************************************)
(* Mutant: a control is looked for inside ordinary fences as well. *)
MutantLookInside == IsControlFence(Here)

(* nextControl has found one. *)
AtControl == fence = NoFence /\ IsControlFence(Here)

ReadProse ==
  /\ mode = "prose" /\ line <= Len(doc)
  /\ IF AtControl
     THEN /\ mode' = IF WellFormed(Here) THEN "control" ELSE "rejected"
          /\ opened' = line /\ UNCHANGED <<fence, live>>
     ELSE /\ fence' = FenceAfter(fence, Here)
          /\ live' = IF fence = NoFence /\ Here.kind # "fence" THEN live \cup {line} ELSE live
          /\ UNCHANGED <<mode, opened>>
  /\ line' = line + 1
  /\ UNCHANGED <<doc, proseStart, blocks, checked>>

Markdown(first, last) ==
  IF first > last THEN <<>>
  ELSE <<[kind |-> "markdown", first |-> first, last |-> last, id |-> "", bound |-> FALSE]>>

Controls == {n \in DOMAIN blocks : blocks[n].kind = "control"}

(* parseDeclaration takes one declaration; add, the constraints between    *)
(* controls.                                                               *)
Admissible ==
  /\ line = opened + 2 /\ doc[opened + 1].kind = "declaration"
  /\ LET d == doc[opened + 1] IN
     /\ \A n \in Controls : blocks[n].id # d.id /\ ~(d.bound /\ blocks[n].bound)
     /\ Cardinality(Controls) < maxControls

ProseAfterControl == line + 1

ReadControl ==
  /\ mode = "control" /\ line <= Len(doc)
  /\ \/ /\ EndsControl(Here) /\ Admissible
        /\ LET d == doc[opened + 1] IN
           blocks' = blocks \o Markdown(proseStart, opened - 1)
                     \o <<[kind |-> "control", first |-> opened, last |-> line, id |-> d.id, bound |-> d.bound]>>
        /\ mode' = "prose" /\ proseStart' = ProseAfterControl
     \/ /\ EndsControl(Here) /\ ~Admissible
        /\ mode' = "rejected" /\ UNCHANGED <<blocks, proseStart>>
     \/ /\ ~EndsControl(Here)
        /\ UNCHANGED <<mode, blocks, proseStart>>
  /\ line' = line + 1
  /\ UNCHANGED <<doc, opened, fence, live, checked>>

(* The last prose, or a control that is not closed. *)
EndOfSource ==
  /\ line > Len(doc)
  /\ \/ /\ mode = "prose" /\ mode' = "images"
        /\ blocks' = blocks \o Markdown(proseStart, Len(doc))
        /\ line' = 1
     \/ /\ mode = "control" /\ mode' = "rejected"
        /\ UNCHANGED <<blocks, line>>
  /\ fence' = NoFence
  /\ UNCHANGED <<doc, proseStart, opened, live, checked>>

(***************************************************************************)
(* validateImages.                                                         *)
(***************************************************************************)
BlockOf(n) == CHOOSE k \in DOMAIN blocks : blocks[k].first <= n /\ n <= blocks[k].last

(* Every block is read from outside any fence. *)
FenceBefore == IF blocks[BlockOf(line)].first = line THEN NoFence ELSE fence

CheckImages ==
  /\ mode = "images" /\ line <= Len(doc)
  /\ IF blocks[BlockOf(line)].kind = "control" THEN UNCHANGED <<mode, fence, checked>>
     ELSE /\ fence' = FenceAfter(FenceBefore, Here)
          /\ IF FenceBefore = NoFence /\ Here.kind # "fence"
             THEN /\ checked' = checked \cup {line}
                  /\ mode' = IF Here.kind = "image" THEN "rejected" ELSE "images"
             ELSE UNCHANGED <<mode, checked>>
  /\ line' = line + 1
  /\ UNCHANGED <<doc, proseStart, opened, blocks, live>>

AcceptProcedure ==
  /\ mode = "images" /\ line > Len(doc)
  /\ mode' = "accepted"
  /\ UNCHANGED <<doc, line, proseStart, opened, fence, blocks, live, checked>>

ProcNext == ReadProse \/ ReadControl \/ EndOfSource \/ CheckImages \/ AcceptProcedure

ProcSpec == ProcInit /\ [][ProcNext]_procVars

(***************************************************************************)
(* Properties.                                                             *)
(***************************************************************************)
(* "retains the author's bytes" (campaign/procedure.go): the blocks of a   *)
(* procedure follow each other without gap or overlap and make up its      *)
(* source, each control between its own two fences and with an id of its   *)
(* own, at most one of them bound to the result.                           *)
BlocksTile ==
  mode \in {"images", "accepted"} =>
    /\ blocks[1].first = 1 /\ blocks[Len(blocks)].last = Len(doc)
    /\ \A n \in 1..(Len(blocks) - 1) : blocks[n + 1].first = blocks[n].last + 1
    /\ \A n \in Controls : WellFormed(doc[blocks[n].first]) /\ EndsControl(doc[blocks[n].last])
    /\ \A m, n \in Controls : m # n => blocks[m].id # blocks[n].id /\ ~(blocks[m].bound /\ blocks[n].bound)

(* "examples are never interpreted as live declarations" and "instead of   *)
(* claiming that an unchecked embed is ready offline" (procedure.go,       *)
(* package_files.go): the two readings of the fences agree, so that every  *)
(* image a tester will see was checked and none in an example was.         *)
ReadingsAgree ==
  mode = "accepted" => checked = live /\ \A n \in live : doc[n].kind # "image"

(* What a tester is shown of an accepted procedure is what was written and *)
(* what was checked.                                                       *)
ProcedureFaithful == BlocksTile /\ ReadingsAgree
================================================================================
