--------------------------- MODULE AtomicProject ---------------------------
(***************************************************************************)
(* What the authoring transactions promise of a project: a mutation is     *)
(* applied as a whole to the content it was prepared from, an undone       *)
(* mutation gives that content back as a whole, a saved document replaces  *)
(* one file, and programs that know nothing of transactions may write any  *)
(* file at any time.  A tear is the only other change there is.            *)
(***************************************************************************)
EXTENDS FiniteSets

CONSTANTS Path, Mutation,
          Outcome(_, _),  \* the content a mutation makes of a content
          External,       \* what a program outside the engine writes
          Saved,          \* what a document save writes
          NoContent       \* no content: a mutation that is not in effect

VARIABLES
  content,   \* the project as its next reader is entitled to see it
  log,       \* per mutation in effect, the content it was applied to
  torn       \* an operation was left half done and nothing tells so

\* Equal but for what an outsider wrote meanwhile.
Like(f, g) ==
  \A p \in Path : f[p] = g[p] \/ f[p] = External \/ g[p] = External

Commit(m) ==
  /\ log[m] = NoContent
  /\ Like(content', Outcome(m, content))
  /\ \/ log'[m] # NoContent /\ Like(log'[m], content)
     \/ log'[m] = NoContent   \* in effect, but the record of it was lost
  /\ \A n \in Mutation \ {m} : log'[n] = log[n]
  /\ UNCHANGED torn

Undo(m) ==
  /\ log[m] # NoContent
  /\ Like(content', log[m])
  /\ log' = [log EXCEPT ![m] = NoContent]
  /\ UNCHANGED torn

Save ==
  /\ UNCHANGED <<log, torn>>
  /\ \E p \in Path : content' = [content EXCEPT ![p] = Saved]

\* Any number of files, none included.
Overwritten(f, g) == \A p \in Path : g[p] \in {f[p], External}

Outsiders ==
  /\ UNCHANGED <<torn, log>>
  /\ Overwritten(content, content')

Tear == ~torn /\ torn'

Next ==
  \/ Outsiders
  \/ Save
  \/ \E m \in Mutation : Commit(m) \/ Undo(m)
  \/ Tear

Init == log = [m \in Mutation |-> NoContent] /\ ~torn

\* Once something is torn nothing more is promised.
Spec == Init /\ [][torn \/ Next]_<<content, log, torn>>
=============================================================================
