---------------------------- MODULE AtomicTable ----------------------------
(***************************************************************************)
(* What a cstable promises its users (the class comment of CSTableWriter): *)
(* a writer stages changes that nobody sees, a commit publishes all of     *)
(* them at once, readers keep the version they opened, and a power loss    *)
(* returns to a version that was published.                                *)
(***************************************************************************)
EXTENDS Naturals

CONSTANTS Readers, NoTable

VARIABLES
  staged,     \* the table as the writer holds it
  visible,    \* the table a reader that opens the file now gets
  stable,     \* the table that is left after a power loss
  view        \* per reader: the table it has open

tableVars == <<staged, visible, stable, view>>

TableInit ==
  /\ visible = NoTable
  /\ stable = NoTable
  /\ view = [r \in Readers |-> NoTable]

\* The writer adds to its transaction.
Stage ==
  /\ staged' # staged
  /\ UNCHANGED <<visible, stable, view>>

\* The transaction becomes visible, as a whole.
Publish ==
  /\ visible' = staged
  /\ UNCHANGED <<staged, stable, view>>

\* What is visible becomes durable, as a whole.
Harden ==
  /\ stable' = visible
  /\ UNCHANGED <<staged, visible, view>>

\* What was staged is lost too; staged is left open.
PowerLoss ==
  /\ visible' = stable
  /\ view' = [r \in Readers |-> NoTable]
  /\ UNCHANGED stable

Open(r) ==
  /\ visible # NoTable
  /\ view' = [view EXCEPT ![r] = visible]
  /\ UNCHANGED <<staged, visible, stable>>

Close(r) ==
  /\ view' = [view EXCEPT ![r] = NoTable]
  /\ UNCHANGED <<staged, visible, stable>>

TableNext ==
  \/ Stage
  \/ Publish
  \/ Harden
  \/ PowerLoss
  \/ \E r \in Readers : Open(r) \/ Close(r)

TableSpec == TableInit /\ [][TableNext]_tableVars
=============================================================================
