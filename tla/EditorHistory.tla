---------------------------- MODULE EditorHistory ----------------------------
(***************************************************************************)
(* Undo and redo in the workflow editor. The canvas is pushed onto the     *)
(* history by an effect that runs after every render in which the arrays   *)
(* of nodes and edges are not the ones it saw last; undo and redo put a    *)
(* stored canvas back, and they render too.                                *)
(***************************************************************************)
EXTENDS Naturals, Sequences

CONSTANTS
    Contents,      \* what a canvas shows; Empty is one of them
    Empty,
    HistoryMax,    \* the code keeps 50
    MaxChanges     \* bound on the arrays made

ASSUME HistoryAssumption == Empty \in Contents /\ HistoryMax \in Nat \ {0} /\ MaxChanges \in Nat

VARIABLES
    canvas,        \* the arrays in use: which ones they are, and what they show
    prevNodes,     \* the ones the effect saw last
    history,
    historyIdx,    \* from 1
    made

historyVars == <<canvas, prevNodes, history, historyIdx, made>>

NoCanvas == [id |-> 0, shows |-> Empty]
Canvases == [id : 0..MaxChanges, shows : Contents]

\* pushHistory: the future is cut off, and the oldest entry goes when there are too many.
pushHistory(h, i, c) ==
    LET stack == Append(SubSeq(h, 1, i), c)
        over == IF Len(stack) > HistoryMax THEN Len(stack) - HistoryMax ELSE 0
    IN  SubSeq(stack, over + 1, Len(stack))

\* The effect pushes what is on the canvas, not what was put there.
Rendered_Stale(c, h, i) ==
    /\ canvas' = c
    /\ prevNodes' = c
    /\ history' = IF c # prevNodes THEN pushHistory(h, i, canvas) ELSE h
    /\ historyIdx' = IF c # prevNodes THEN Len(history') ELSE i


\* The effect after a render that shows c, with the history as h and i: by then
\* skipHistoryRef is back to false.
Rendered(c, h, i) ==
    /\ canvas' = c
    /\ prevNodes' = c
    /\ history' = IF c # prevNodes THEN pushHistory(h, i, c) ELSE h
    /\ historyIdx' = IF c # prevNodes THEN Len(history') ELSE i

\* The first render pushes the empty canvas.
HistoryInit ==
    /\ canvas = NoCanvas
    /\ prevNodes = NoCanvas
    /\ history = <<NoCanvas>>
    /\ historyIdx = 1
    /\ made = 0

\* Whatever makes new arrays: the load, a node added, moved or edited, an edge, a restore.
Change(shows) ==
    /\ made < MaxChanges
    /\ made' = made + 1
    /\ Rendered([id |-> made + 1, shows |-> shows], history, historyIdx)

\* An import pushes arrays it built itself, and then the effect pushes the canvas's.
importGeneratedWorkflow(shows) ==
    /\ made + 1 < MaxChanges
    /\ made' = made + 2
    /\ LET pushed == pushHistory(history, historyIdx, [id |-> made + 1, shows |-> shows])
       IN  Rendered([id |-> made + 2, shows |-> shows], pushed, Len(pushed))

undo ==
    /\ historyIdx > 1
    /\ Rendered(history[historyIdx - 1], history, historyIdx - 1)
    /\ UNCHANGED made

redo ==
    /\ historyIdx < Len(history)
    /\ Rendered(history[historyIdx + 1], history, historyIdx + 1)
    /\ UNCHANGED made

HistoryStep ==
    \/ \E shows \in Contents : Change(shows) \/ importGeneratedWorkflow(shows)
    \/ undo
    \/ redo

HistorySpec == HistoryInit /\ [][HistoryStep]_historyVars

-----------------------------------------------------------------------------
HistoryTypeOK ==
    /\ canvas \in Canvases /\ prevNodes \in Canvases
    /\ history \in Seq(Canvases)
    /\ historyIdx \in 1..Len(history)
    /\ made \in 0..MaxChanges

\* Between two events the history stands at the canvas on show, and holds no more
\* than it may: the next undo starts from what the user sees.
HistoryAtCanvas ==
    /\ history[historyIdx] = canvas
    /\ Len(history) <= HistoryMax

\* Undo, through the renders it causes itself.
UndoStartsHere == HistoryTypeOK /\ HistoryAtCanvas

=============================================================================
