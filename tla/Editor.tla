------------------------------- MODULE Editor -------------------------------
(* The automation editor: extension/src/editor (the reducer, the outline, the  *)
(* forms, the reading of a file and its download) over the schema's checks. A  *)
(* handler runs to its end before the next event, with the dispatches it makes *)
(* in a loop; what an await separates is two actions.                          *)
EXTENDS Integers, SequencesExt

CONSTANTS Files,     \* files a user may open
          NewKinds,  \* the kinds a form may give a step
          FnNames,   \* names a form may give a function; the outline's is one
          newFunction,
          Nothing, Text, \* Text: a file that is no JSON
          MaxSteps,  \* bound on the steps of a list
          MaxFns,    \* bound on functions, and on inputs
          MaxWork    \* bound on edits, files opened and automations made

VARIABLES automation, selectedNodeId, validation, dirty,  \* EditorState
          uploadError,  \* what the modal offers to load anyway
          reading,      \* the file whose text is awaited
          saving,       \* the automation whose download is awaited
          kept,         \* history: what a file or a factory last gave or took
          overtaken,    \* history: the last download took another than the one on show
          nextId,       \* crypto.randomUUID: every one is new
          edits, opens

state == <<automation, selectedNodeId, validation, dirty>>
editorVars == <<state, uploadError, reading, saving, kept, overtaken, nextId, edits, opens>>

Kinds == {"plain", "loop", "goto", "call", "condition", "aiscope"}

(* A step: the step it jumps to, the function it calls, whether the text its    *)
(* kind requires is there (else, which of two texts is), and its substeps,      *)
(* which outlive a change of kind.                                              *)
(* The instance nests once, so that a path has one index or two.                *)
StepOf(kind, id) == [id |-> id, kind |-> kind, to |-> 0, fn |-> "",
                     ok |-> kind # "aiscope", substeps |-> <<>>]

StepWith(substeps) == [id : Nat, kind : Kinds, to : Nat, fn : FnNames \cup {""}, ok : BOOLEAN,
                       substeps : substeps]
Substep == StepWith({<<>>})
Step == StepWith(Seq(Substep))
Automation == [about : [rev : Nat, ok : BOOLEAN], inputs : Seq(Nat), steps : Seq(Step),
               functions : Seq([name : FnNames, steps : Seq(Step)])]

(* The lists of steps: 0 is the automation's own, i the body of function i.      *)
ListIds(a) == 0..Len(a.functions)
StepsOf(a, l) == IF l = 0 THEN a.steps ELSE a.functions[l].steps
(* The steps of a list and their substeps.                                      *)
Nodes(steps) == ToSet(steps) \cup UNION {ToSet(s.substeps) : s \in ToSet(steps)}
AllNodes(a) == UNION {Nodes(StepsOf(a, l)) : l \in ListIds(a)}
Ids(a) == {n.id : n \in AllNodes(a)}

TopIds(a) == {s.id : s \in ToSet(a.steps)}
Names(a) == {f.name : f \in ToSet(a.functions)}

(* AutomationSchema: what each step's own schema asks, then the references.     *)
Parses(a) == /\ a.about.ok
             /\ \A n \in AllNodes(a) :
                  /\ n.kind \in {"condition", "aiscope"} => n.ok
                  /\ n.kind = "goto" => n.to # 0
                  /\ n.kind = "call" => n.fn # ""
Refers(a) ==
  /\ \A n \in AllNodes(a) :
       n.kind = "call" \/ (n.kind = "condition" /\ n.fn # "") => n.fn \in Names(a)
  /\ \A s \in ToSet(a.steps) :
       /\ s.kind \in {"goto", "condition"} /\ s.to # 0 => s.to \in TopIds(a)
       /\ ~ (s.kind = "condition" /\ s.to # 0 /\ s.fn # "")
Unique(a) == /\ Cardinality(Names(a)) = Len(a.functions)
             /\ Cardinality(TopIds(a)) = Len(a.steps)
Valid(a) == Parses(a) /\ Refers(a) /\ Unique(a)

ASSUME EditorAssumption ==
  /\ NewKinds \subseteq Kinds /\ newFunction \in FnNames
  /\ Files \subseteq Automation \cup {Text}
  /\ {MaxSteps, MaxFns, MaxWork} \subseteq Nat

revalidate(a) == a # Nothing /\ Valid(a)

newEmptyAutomation == [about |-> [rev |-> 0, ok |-> TRUE], inputs |-> <<>>, steps |-> <<>>,
                       functions |-> <<>>]

(* SelectedNode: the list (0: the steps, i: the body of function i) and a path. *)
NoNode == [kind |-> "none", index |-> 0, path |-> <<>>]
Metadata == [NoNode EXCEPT !.kind = "metadata"]
StepNode(l, p) == [kind |-> "step", index |-> l, path |-> p]
InputNode(i) == [NoNode EXCEPT !.kind = "input", !.index = i]
FunctionNode(i) == [NoNode EXCEPT !.kind = "function", !.index = i]

EditorInit ==
  /\ automation = Nothing /\ selectedNodeId = NoNode /\ validation = FALSE /\ dirty = FALSE
  /\ uploadError = Nothing /\ reading = Nothing /\ saving = Nothing
  /\ kept = Nothing /\ overtaken = FALSE /\ nextId = 10 /\ edits = 0 /\ opens = 0

-----------------------------------------------------------------------------
(* Paths.                                                                      *)

Paths(steps) == {<<i>> : i \in DOMAIN steps}
                  \cup {<<i, j>> : i \in DOMAIN steps, j \in 1..MaxSteps}
Resolves(steps, p) == /\ p[1] \in DOMAIN steps
                      /\ Len(p) = 2 => p[2] \in DOMAIN steps[p[1]].substeps
walkPath(steps, p) == IF Len(p) = 1 THEN steps[p[1]] ELSE steps[p[1]].substeps[p[2]]

(* The list that holds the last index of a path, and steps with another there;  *)
(* a path that leads nowhere changes nothing.                                   *)
ListAt(steps, p) == IF Len(p) = 1 THEN steps
                    ELSE IF p[1] \in DOMAIN steps THEN steps[p[1]].substeps ELSE <<>>
WithListAt(steps, p, list) ==
  IF Len(p) = 1 THEN list
  ELSE IF p[1] \in DOMAIN steps THEN [steps EXCEPT ![p[1]].substeps = list] ELSE steps

mapStepAtPath(steps, p, new) ==
  IF Resolves(steps, p) THEN WithListAt(steps, p, [ListAt(steps, p) EXCEPT ![Last(p)] = new])
  ELSE steps
removeStepAtPath(steps, p) ==
  IF Resolves(steps, p) THEN WithListAt(steps, p, RemoveAt(ListAt(steps, p), Last(p)))
  ELSE steps
insertAfter(steps, p, step) ==
  WithListAt(steps, p, InsertAt(ListAt(steps, p), Last(p) + 1, step))
appendSubstep(steps, p, step) ==
  mapStepAtPath(steps, p, [walkPath(steps, p) EXCEPT !.substeps = Append(@, step)])
Swapped(s, i, j) == [s EXCEPT ![i] = s[j], ![j] = s[i]]
moveStepAtPath(steps, p, direction) ==
  LET i == Last(p)
      target == IF direction = "up" THEN i - 1 ELSE i + 1
      s == ListAt(steps, p)
  IN  IF {i, target} \subseteq DOMAIN s THEN WithListAt(steps, p, Swapped(s, i, target))
      ELSE steps

WithList(a, l, steps) == IF l = 0 THEN [a EXCEPT !.steps = steps]
                         ELSE [a EXCEPT !.functions[l].steps = steps]

-----------------------------------------------------------------------------
(* The reducer: every case of an edit validates anew and leaves the editor     *)
(* dirty, as they all write it.                                                *)

(* Mutation: an edit leaves the mark as it is.                                  *)
ReduceTo_unmarked(a) ==
  /\ automation' = a /\ validation' = revalidate(a) /\ edits' = edits + 1
  /\ UNCHANGED <<dirty, uploadError, reading, saving, kept, overtaken, opens>>
ReduceTo(a) == /\ automation' = a /\ validation' = revalidate(a) /\ dirty' = TRUE
               /\ edits' = edits + 1
               /\ UNCHANGED <<uploadError, reading, saving, kept, overtaken, opens>>
Reduce(a) == edits + opens < MaxWork /\ automation # Nothing /\ ReduceTo(a)
Still == UNCHANGED <<selectedNodeId, nextId>>
LOAD(a) == /\ automation' = a /\ selectedNodeId' = Metadata
           /\ validation' = revalidate(a) /\ dirty' = FALSE
           /\ kept' = a /\ overtaken' = FALSE

SELECT_NODE ==
  /\ automation # Nothing
  /\ \E n \in {Metadata}
                \cup {InputNode(i) : i \in DOMAIN automation.inputs}
                \cup {FunctionNode(i) : i \in DOMAIN automation.functions}
                \cup UNION {{StepNode(l, p) : p \in {q \in Paths(StepsOf(automation, l)) :
                                  Resolves(StepsOf(automation, l), q)}} : l \in ListIds(automation)} :
       selectedNodeId' = n /\ n # selectedNodeId
  /\ UNCHANGED <<automation, validation, dirty, uploadError, reading, saving, kept, overtaken,
                 nextId, edits, opens>>

(* The form of the selected node.                                              *)
UPDATE_METADATA ==
  /\ selectedNodeId = Metadata
  /\ \E named \in BOOLEAN : Reduce([automation EXCEPT !.about = [rev |-> edits + 1, ok |-> named]])
  /\ Still
UPDATE_INPUT ==
  /\ selectedNodeId.kind = "input" /\ selectedNodeId.index \in DOMAIN automation.inputs
  /\ Reduce([automation EXCEPT !.inputs[selectedNodeId.index] = nextId])
  /\ nextId' = nextId + 1 /\ UNCHANGED selectedNodeId
UPDATE_FUNCTION ==
  /\ selectedNodeId.kind = "function" /\ selectedNodeId.index \in DOMAIN automation.functions
  /\ \E name \in FnNames :
       Reduce([automation EXCEPT !.functions[selectedNodeId.index].name = name])
  /\ Still

(* The step on show, if the selection still leads to one, becomes any of these.  *)
Selected == /\ automation # Nothing /\ selectedNodeId.kind = "step"
            /\ selectedNodeId.index \in ListIds(automation)
            /\ Resolves(StepsOf(automation, selectedNodeId.index), selectedNodeId.path)
SelectedStep == walkPath(StepsOf(automation, selectedNodeId.index), selectedNodeId.path)
Shows(kind) == Selected /\ SelectedStep.kind = kind
FormEdit(choices) ==
  /\ LET l == selectedNodeId.index
         p == selectedNodeId.path
     IN  \E new \in choices :
           Reduce(WithList(automation, l, mapStepAtPath(StepsOf(automation, l), p, new)))
  /\ Still

handleTypeChange ==
  /\ Selected
  /\ LET s == SelectedStep
     IN  FormEdit({[StepOf(k, s.id) EXCEPT !.substeps = s.substeps] : k \in NewKinds \ {s.kind}})

GotoForm ==
  Shows("goto") /\ FormEdit({[SelectedStep EXCEPT !.to = t] : t \in {0} \cup Ids(automation)})
CallForm ==
  Shows("call") /\ FormEdit({[SelectedStep EXCEPT !.fn = f] : f \in Names(automation)})
(* A branch: none, to a step (the first one until another is chosen), to a      *)
(* function; the choice of one clears the other. The mode of the question.      *)
Branches(s) ==
  {[s EXCEPT !.to = 0, !.fn = ""]}
    \cup {[s EXCEPT !.to = t, !.fn = ""] : t \in TopIds(automation)}
    \cup {[s EXCEPT !.fn = f, !.to = 0] : f \in Names(automation)}
ConditionForm ==
  /\ Shows("condition")
  /\ FormEdit(Branches(SelectedStep) \cup {[SelectedStep EXCEPT !.ok = b] : b \in BOOLEAN})
LoopForm == Shows("loop") /\ FormEdit({[SelectedStep EXCEPT !.ok = ~ @]})
(* The fields every step has, and those of the kinds that refer to nothing.     *)
FieldsForm == Shows("plain") /\ FormEdit({[SelectedStep EXCEPT !.ok = ~ @]})
AiScopeForm == Shows("aiscope") /\ FormEdit({[SelectedStep EXCEPT !.ok = b] : b \in BOOLEAN})

-----------------------------------------------------------------------------
(* The outline.                                                                *)

AddInput == /\ Len(automation.inputs) < MaxFns
            /\ Reduce([automation EXCEPT !.inputs = Append(@, nextId)])
            /\ nextId' = nextId + 1 /\ UNCHANGED selectedNodeId
AddFunction == /\ Len(automation.functions) < MaxFns
               /\ Reduce([automation EXCEPT !.functions =
                            Append(@, [name |-> newFunction, steps |-> <<>>])])
               /\ Still
RemoveInput == \E i \in DOMAIN automation.inputs :
                 Reduce([automation EXCEPT !.inputs = RemoveAt(@, i)]) /\ Still
RemoveFunction == \E i \in DOMAIN automation.functions :
                    Reduce([automation EXCEPT !.functions = RemoveAt(@, i)]) /\ Still
(* What is dropped elsewhere goes to the end, wherever it is dropped.           *)
ToEnd(s, i) == Append(RemoveAt(s, i), s[i])
DropInput == /\ Len(automation.inputs) > 1
             /\ \E i \in DOMAIN automation.inputs :
                  Reduce([automation EXCEPT !.inputs = ToEnd(@, i)]) /\ Still
DropFunction == /\ Len(automation.functions) > 1
                /\ \E i \in DOMAIN automation.functions :
                     Reduce([automation EXCEPT !.functions = ToEnd(@, i)]) /\ Still

AddStep ==
  /\ Len(automation.steps) < MaxSteps
  /\ Reduce([automation EXCEPT !.steps = Append(@, StepOf("plain", nextId))])
  /\ nextId' = nextId + 1 /\ UNCHANGED selectedNodeId
AddFunctionStep ==
  /\ \E i \in DOMAIN automation.functions :
       /\ Len(automation.functions[i].steps) < MaxSteps
       /\ Reduce([automation EXCEPT !.functions[i].steps = Append(@, StepOf("plain", nextId))])
  /\ nextId' = nextId + 1 /\ UNCHANGED selectedNodeId

(* Under a loop of list l at p. The index of the function is not passed on.     *)
AddSubstep ==
  /\ \E l \in ListIds(automation), i \in 1..MaxSteps :
       /\ i \in DOMAIN StepsOf(automation, l) /\ StepsOf(automation, l)[i].kind = "loop"
       /\ Len(StepsOf(automation, l)[i].substeps) < MaxSteps
       /\ i \in DOMAIN automation.steps => Len(automation.steps[i].substeps) < MaxSteps
       /\ Reduce([automation EXCEPT !.steps = appendSubstep(@, <<i>>, StepOf("plain", nextId))])
  /\ nextId' = nextId + 1 /\ UNCHANGED selectedNodeId

(* The rows the outline shows: substeps of a loop only.                         *)
OutlineRows(a) == UNION {{<<l, p>> : p \in {q \in Paths(StepsOf(a, l)) :
                     /\ Resolves(StepsOf(a, l), q)
                     /\ Len(q) = 2 => StepsOf(a, l)[q[1]].kind = "loop"}} : l \in ListIds(a)}

(* In a function's body the row removes the step at its own index of the body,  *)
(* though it be a substep.                                                      *)
RemoveStep ==
  /\ automation # Nothing
  /\ \E r \in OutlineRows(automation) :
       LET steps == StepsOf(automation, r[1])
           i == Last(r[2])
       IN  Reduce(WithList(automation, r[1],
                    IF r[1] = 0 THEN removeStepAtPath(steps, r[2])
                    ELSE IF i \in DOMAIN steps THEN RemoveAt(steps, i) ELSE steps))
  /\ Still

(* Mutation: the copy keeps the id of the step it is of.                        *)
duplicateStep_same(s, n) ==
  [s EXCEPT !.substeps = IF s.kind # "loop" THEN @
                         ELSE [j \in DOMAIN @ |-> [@[j] EXCEPT !.id = n + j]]]
(* Substeps get ids of their own if the step is a loop. Ids from n on.          *)
duplicateStep(s, n) ==
  [s EXCEPT !.id = n,
            !.substeps = IF s.kind # "loop" THEN @
                         ELSE [j \in DOMAIN @ |-> [@[j] EXCEPT !.id = n + j]]]
Copying(n) == automation # Nothing /\ \E r \in n :
  LET steps == StepsOf(automation, r[1])
      source == walkPath(steps, r[2])
      p == [r[2] EXCEPT ![Len(r[2])] = @ + 1]
  IN  /\ Resolves(steps, r[2])
      /\ MaxSteps > Len(IF Len(r[2]) = 1 THEN steps ELSE steps[r[2][1]].substeps)
      /\ Reduce(WithList(automation, r[1], insertAfter(steps, r[2], duplicateStep(source, nextId))))
      /\ selectedNodeId' = StepNode(r[1], p)
      /\ nextId' = nextId + 1 + Len(source.substeps)
(* The button of a row; the form's button and Ctrl+D copy what is selected.     *)
DuplicateRow == Copying(OutlineRows(automation))
DuplicateSelected == Selected /\ Copying({<<selectedNodeId.index, selectedNodeId.path>>})

(* Mutation: every move is from the place the drag began at.                    *)
DragMoves_from(steps, from, to) ==
  LET far == IF from < to THEN to - from ELSE from - to
      move(s) == moveStepAtPath(s, <<from>>, IF from < to THEN "down" ELSE "up")
      run[i \in 0..far] == IF i = 0 THEN steps ELSE move(run[i - 1])
  IN  run[far]
(* Dropping on a row: the last index of each path, and as many moves of the     *)
(* top-level steps as lie between.                                              *)
DragMoves(steps, from, to) ==
  LET far == IF from < to THEN to - from ELSE from - to
      move(s, i) == moveStepAtPath(s, <<IF from < to THEN from + i ELSE from - i>>,
                                   IF from < to THEN "down" ELSE "up")
      run[i \in 0..far] == IF i = 0 THEN steps ELSE move(run[i - 1], i - 1)
  IN  run[far]
Drag(p, q) ==
  /\ Last(p) # Last(q)
  /\ Reduce([automation EXCEPT !.steps = DragMoves(@, Last(p), Last(q))])
DropStep ==
  /\ automation # Nothing
  /\ \E r, t \in {x \in OutlineRows(automation) : x[1] = 0} : Drag(r[2], t[2])
  /\ Still

-----------------------------------------------------------------------------
(* Files.                                                                      *)

handleNew == /\ LOAD(newEmptyAutomation)   \* a dirty editor asks first; the answer is yes
             /\ edits + opens < MaxWork /\ opens' = opens + 1
             /\ UNCHANGED <<uploadError, reading, saving, nextId, edits>>

Upload == /\ reading = Nothing /\ edits + opens < MaxWork /\ opens' = opens + 1
          /\ \E f \in Files : reading' = f
          /\ UNCHANGED <<state, uploadError, saving, kept, overtaken, nextId, edits>>
(* What does not parse leaves the editor as it is; what the schema refuses may  *)
(* be loaded anyway.                                                            *)
Read ==
  /\ reading # Nothing /\ reading' = Nothing
  /\ IF reading # Text /\ Valid(reading)
     THEN LOAD(reading) /\ UNCHANGED uploadError
     ELSE /\ uploadError' = IF reading = Text THEN Nothing ELSE reading
          /\ UNCHANGED <<state, kept, overtaken>>
  /\ UNCHANGED <<saving, nextId, edits, opens>>
(* LOAD, then an update of nothing, which leaves the editor dirty.              *)
handleLoadAnyway ==
  /\ uploadError # Nothing
  /\ automation' = uploadError /\ selectedNodeId' = Metadata
  /\ validation' = revalidate(uploadError) /\ dirty' = TRUE
  /\ kept' = uploadError /\ overtaken' = FALSE /\ uploadError' = Nothing
  /\ UNCHANGED <<reading, saving, nextId, edits, opens>>
Dismiss == /\ uploadError # Nothing /\ uploadError' = Nothing
           /\ UNCHANGED <<state, reading, saving, kept, overtaken, nextId, edits, opens>>

(* automationToJson refuses what is not valid; the modal then offers nothing.   *)
handleDownload ==
  /\ automation # Nothing /\ saving = Nothing
  /\ Valid(automation) /\ saving' = automation
  /\ UNCHANGED <<state, uploadError, reading, kept, overtaken, nextId, edits, opens>>
(* MARK_CLEAN, whatever is on show by then.                                     *)
Saved ==
  /\ saving # Nothing /\ saving' = Nothing
  /\ dirty' = FALSE /\ kept' = saving /\ overtaken' = (automation # saving)
  /\ UNCHANGED <<automation, selectedNodeId, validation, uploadError, reading, nextId, edits,
                 opens>>
(* The user dismisses the dialog: the call rejects and nothing is dispatched.   *)
SaveCancelled ==
  /\ saving # Nothing /\ saving' = Nothing
  /\ UNCHANGED <<state, uploadError, reading, kept, overtaken, nextId, edits, opens>>

Edit ==
  automation # Nothing /\
  (\/ UPDATE_METADATA \/ UPDATE_INPUT \/ UPDATE_FUNCTION
   \/ handleTypeChange \/ GotoForm \/ CallForm \/ ConditionForm \/ AiScopeForm \/ LoopForm \/ FieldsForm
   \/ AddInput \/ AddFunction \/ RemoveInput \/ RemoveFunction \/ DropInput \/ DropFunction
   \/ AddStep \/ AddFunctionStep \/ AddSubstep \/ RemoveStep
   \/ DuplicateRow \/ DuplicateSelected \/ DropStep)
FileStep == \/ handleNew \/ Upload \/ Read \/ handleLoadAnyway \/ Dismiss
            \/ handleDownload \/ Saved \/ SaveCancelled
EditorNext == SELECT_NODE \/ Edit \/ FileStep
EditorSpec == EditorInit /\ [][EditorNext]_editorVars

-----------------------------------------------------------------------------
NodeType == [kind : {"none", "metadata", "step", "input", "function"}, index : Nat, path : Seq(Nat)]
NodeTyped == /\ selectedNodeId \in NodeType
             /\ selectedNodeId.kind = "step" => Len(selectedNodeId.path) \in {1, 2}
EditorTypeOK ==
  /\ automation \in Automation \cup {Nothing}
  /\ NodeTyped
  /\ validation \in BOOLEAN /\ dirty \in BOOLEAN /\ overtaken \in BOOLEAN
  /\ reading \in Files \cup {Nothing}
  /\ {uploadError, saving, kept} \subseteq Automation \cup {Nothing}
  /\ nextId \in Nat /\ edits \in Nat /\ opens \in Nat /\ edits + opens <= MaxWork

(* What is not marked as unsaved is what a file holds: the automation on show   *)
(* is the one last opened, made or downloaded, unless it had changed by the     *)
(* time a download of it was over, when the editor marks it clean all the same. *)
CleanIsKept == automation # Nothing /\ ~ dirty => automation = kept \/ overtaken

(* A row added, copied or dropped elsewhere, in the steps, in a loop or in the   *)
(* body of a function, loses no step of the document, and a document without    *)
(* issues has none after it: what is new has an id of its own, what jumps or    *)
(* calls finds what it found, and the editor still lets it be downloaded.       *)
RowKept ==
  automation # Nothing =>
    (AddStep \/ AddFunctionStep \/ AddSubstep \/ DuplicateRow \/ DuplicateSelected \/ DropStep =>
       Ids(automation) \subseteq Ids(automation') /\ (validation => validation'))
RowsKeepDocument == [][RowKept]_editorVars

(* A top-level step dropped on another takes its place, and the steps between   *)
(* keep their order, though the outline does it by moves of one place.          *)
Lands ==
  automation # Nothing =>
    \A from, to \in DOMAIN automation.steps :
      Drag(<<from>>, <<to>>) =>
        automation'.steps = InsertAt(RemoveAt(automation.steps, from), to, automation.steps[from])
DragLands == [][Lands]_editorVars

=============================================================================
