----------------------------- MODULE ListMerge -----------------------------
(***************************************************************************)
(* How handleSynData of src/展现web应用/client/mainwindow.cpp brings the   *)
(* widgets in line with the rows of qjo.  It walks down both lists; when   *)
(* the names at hand differ it deletes the widget and goes on with the     *)
(* same row, but at the first widget again.  Rows that are left get new    *)
(* widgets, widgets that are left are deleted.                             *)
(*                                                                         *)
(* WebSync says when rows are fetched and merged and treats a list as one  *)
(* version number; this module looks into the merge itself.                *)
(* No name is one of WebSync's: WebSync_proofs extends both modules.       *)
(***************************************************************************)
EXTENDS Naturals, Sequences, SequencesExt

CONSTANTS
  Names,
  MaxRows,      \* bound: rows of webapplication
  MaxRowEdits   \* bound: changes of webapplication

ASSUME LMAssumption == MaxRows \in Nat /\ MaxRowEdits \in Nat

Empty == ""   \* the name of qjo.value of an index it has not

VARIABLES
  tableRows,  \* webapplication, by id: the names of its rows
  marked,     \* the user's row of webapplicationstate
  qjoRows,    \* qjo: the rows fetched
  vApW,       \* the widgets, each the name of the row it was made from
  pc,         \* of handleSynData
  qjoCount, i,
  it,         \* the iterator: a position in vApW
  was,        \* history: vApW when the walk began
  torn,       \* history: qjo was replaced during the walk
  edits       \* counts changes

walkVars == <<qjoCount, i, it, was, torn>>
mergeVars == <<tableRows, marked, qjoRows, vApW, pc, walkVars, edits>>

Tables == UNION {[1..n -> Names] : n \in 0..MaxRows}
Row(k) == IF k < Len(qjoRows) THEN qjoRows[k + 1] ELSE Empty

\* After the login every row has a widget.
MergeInit ==
  /\ tableRows \in Tables /\ vApW = tableRows /\ marked = FALSE
  /\ qjoRows = <<>> /\ pc = "idle" /\ qjoCount = 0 /\ i = 0 /\ it = 1
  /\ was = <<>> /\ torn = FALSE /\ edits = 0

-----------------------------------------------------------------------------
\* The administrator adds a row, which gets the next id, deletes or changes
\* one; a change may leave the name as it is.
EditRows ==
  /\ edits < MaxRowEdits /\ edits' = edits + 1 /\ marked' = TRUE
  /\ \/ Len(tableRows) < MaxRows /\ \E n \in Names : tableRows' = Append(tableRows, n)
     \/ \E k \in 1..Len(tableRows) : tableRows' = RemoveAt(tableRows, k)
     \/ \E k \in 1..Len(tableRows), n \in Names : tableRows' = ReplaceAt(tableRows, k, n)
  /\ UNCHANGED <<qjoRows, vApW, pc, walkVars>>

\* The synchronisation thread, before the signal; or once more with a poll
\* that had begun before the walk.
Fetch ==
  /\ marked /\ qjoRows' = tableRows
  /\ \/ pc \in {"idle", "signal"} /\ pc' = "signal" /\ UNCHANGED torn
     \/ pc \in {"walk", "create"} /\ ~torn /\ torn' = TRUE /\ UNCHANGED pc
  /\ UNCHANGED <<tableRows, marked, vApW, qjoCount, i, it, was, edits>>

BeginWalk ==
  /\ pc = "signal" /\ pc' = "walk"
  /\ qjoCount' = Len(qjoRows) /\ i' = 0 /\ it' = 1 /\ was' = vApW /\ torn' = FALSE
  /\ UNCHANGED <<tableRows, marked, qjoRows, vApW, edits>>

-----------------------------------------------------------------------------
Walking == pc = "walk" /\ i < qjoCount /\ it <= Len(vApW)

Keep ==
  /\ Walking /\ vApW[it] = Row(i)
  /\ i' = i + 1 /\ it' = it + 1
  /\ UNCHANGED <<tableRows, marked, qjoRows, vApW, pc, qjoCount, was, torn, edits>>

\* Mutant: the row is passed over.
DeletePasses ==
  /\ Walking /\ vApW[it] # Row(i)
  /\ vApW' = RemoveAt(vApW, it) /\ it' = 1 /\ i' = i + 1
  /\ UNCHANGED <<tableRows, marked, qjoRows, pc, qjoCount, was, torn, edits>>
\* Mutant: the widget is deleted and stays in vApW.
DeleteNot ==
  /\ Walking /\ vApW[it] # Row(i)
  /\ it' = 1
  /\ UNCHANGED <<tableRows, marked, qjoRows, vApW, pc, qjoCount, i, was, torn, edits>>
\* The iterator goes back to the first widget, the row stays.
Delete ==
  /\ Walking /\ vApW[it] # Row(i)
  /\ vApW' = RemoveAt(vApW, it) /\ it' = 1
  /\ UNCHANGED <<tableRows, marked, qjoRows, pc, qjoCount, i, was, torn, edits>>

EndWalk ==
  /\ pc = "walk" /\ ~Walking
  /\ pc' = IF i < qjoCount THEN "create" ELSE "drop"
  /\ UNCHANGED <<tableRows, marked, qjoRows, vApW, walkVars, edits>>

Create ==
  /\ pc = "create"
  /\ IF i < qjoCount
     THEN vApW' = Append(vApW, Row(i)) /\ i' = i + 1 /\ UNCHANGED pc
     ELSE pc' = "ack" /\ UNCHANGED <<vApW, i>>
  /\ UNCHANGED <<tableRows, marked, qjoRows, qjoCount, it, was, torn, edits>>

\* Mutant: widgets without a row stay.
DropNot ==
  /\ pc = "drop" /\ pc' = "ack"
  /\ UNCHANGED <<tableRows, marked, qjoRows, vApW, walkVars, edits>>
\* The widgets from the iterator on.
Drop ==
  /\ pc = "drop" /\ pc' = "ack"
  /\ vApW' = SubSeq(vApW, 1, it - 1)
  /\ UNCHANGED <<tableRows, marked, qjoRows, walkVars, edits>>

\* The server is told; it clears the mark whatever has changed since.
AckMerge ==
  /\ pc = "ack" /\ pc' = "idle"
  /\ marked' = FALSE /\ qjoRows' = <<>>
  /\ UNCHANGED <<tableRows, vApW, walkVars, edits>>

MergeThread ==
  BeginWalk \/ Keep \/ Delete \/ EndWalk \/ Create \/ Drop \/ AckMerge

MergeNext == EditRows \/ Fetch \/ MergeThread
MergeSpec == MergeInit /\ [][MergeNext]_mergeVars
\* A slot of the GUI thread runs to its end.
MergeFairSpec == MergeSpec /\ WF_mergeVars(MergeThread)

-----------------------------------------------------------------------------
WalkDone == pc = "ack" /\ ~torn
Distinct(s) == \A j, k \in 1..Len(s) : j # k => s[j] # s[k]

\* Rows go missing from the top only: what is shown after a merge is the end
\* of the list fetched, the newest application always among it, however the
\* iterator went back and forth and whatever names occur twice.
ShowsEnd ==
  WalkDone => IsSuffix(vApW, qjoRows) /\ (qjoRows # <<>> => vApW # <<>>)

\* When a merge shows the whole list, for distinct names: let the widgets
\* before the first row's be gone; what remains begins like the rows do, or
\* the other way round.  So rows added or deleted at the end, and rows
\* deleted at the top, come through; a row deleted or renamed in the middle
\* takes all the rows before it off the screen.
FirstAt(s, n) == {k \in 1..Len(s) : s[k] = n}
Remains ==
  LET at == FirstAt(was, qjoRows[1]) IN
  IF at = {} THEN <<>> ELSE SubSeq(was, CHOOSE k \in at : TRUE, Len(was))
Begins(s, t) == IsPrefix(s, t) \/ IsPrefix(t, s)
WholeWhen ==
  WalkDone /\ qjoRows # <<>> /\ Distinct(qjoRows) /\ Distinct(was) =>
    (vApW = qjoRows <=> Begins(Remains, qjoRows))

\* The loop that takes its index and its iterator back ends, even if qjo is
\* replaced while it runs, and the mark is served.
Ends == pc = "signal" ~> pc = "idle"
=============================================================================
