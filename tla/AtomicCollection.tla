-------------------------- MODULE AtomicCollection --------------------------
(***************************************************************************)
(* What a pass promises of the references it collects, without calls,      *)
(* temporary directories or keys: each reference is read in one step, as   *)
(* it is then, and the status is replaced at once by what one pass read.   *)
(* ComplianceMaps takes this for granted.                                  *)
(***************************************************************************)
EXTENDS Naturals, Sequences

VARIABLES
  content,  \* what each reference has, in their order
  queued,   \* whether a pass is due
  reading,  \* whether one runs
  view,     \* what it has read so far
  shown     \* what the last pass that was not given up had read

vars == <<content, queued, reading, view, shown>>

Init == queued = TRUE /\ reading = FALSE /\ view = <<>> /\ shown = <<>>

\* Any reference gets any content, at any time; a pass will come.
Change ==
  /\ Len(content') = Len(content)
  /\ queued' = TRUE
  /\ UNCHANGED <<reading, view, shown>>

Begin ==
  /\ queued /\ ~reading
  /\ queued' = FALSE /\ reading' = TRUE /\ view' = <<>>
  /\ UNCHANGED <<content, shown>>

Read ==
  /\ reading
  /\ Len(view) < Len(content)
  /\ view' = Append(view, content[Len(view) + 1])
  /\ UNCHANGED <<content, queued, reading, shown>>

\* A call failed or the process died.
GiveUp ==
  /\ queued' = TRUE /\ reading' = FALSE /\ view' = <<>>
  /\ UNCHANGED <<content, shown>>

\* What changed meanwhile stays due.
Publish ==
  /\ reading
  /\ Len(view) = Len(content)
  /\ shown' = view
  /\ queued' \in {queued, TRUE}
  /\ reading' = FALSE /\ view' = <<>>
  /\ UNCHANGED content

Next == Change \/ Begin \/ Read \/ GiveUp \/ Publish

Spec == Init /\ [][Next]_vars
=============================================================================
