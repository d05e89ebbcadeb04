------------------------------ MODULE TaskTree ------------------------------
(***************************************************************************)
(* A task and its children: a specification is read and assembled, its     *)
(* structure changed by operations that leave a line in an audit trail,    *)
(* and "done" declared against the criteria, rolled up from the children   *)
(* and put through the gate of the mechanism probes.                       *)
(*                                                                         *)
(* A criterion is the set of its alternatives, each the set of atoms that  *)
(* have to hold together: an all_of of any_ofs written out.                *)
(***************************************************************************)
EXTENDS Naturals, Sequences, SequencesExt, FiniteSets, Functions

CONSTANTS
    TaskSpecs,    \* the task files a caller may load
    Drafts,       \* the tasks a caller may put into the tree
    ClosableNodes, \* the nodes the node gate may sign
    Artefacts,    \* the artefacts that may come to exist
    MaxOps        \* bound on the structural operations

TopLevel == "top"

\* The tasks of a file: the children stand inside their parent, so that going
\* up from any of them ends at a task of the top level.
Nested(tasks) ==
    /\ TopLevel \notin DOMAIN tasks
    /\ \A id \in DOMAIN tasks : tasks[id].parent \in DOMAIN tasks \cup {TopLevel}
    /\ \A ids \in SUBSET DOMAIN tasks : ids # {} => \E id \in ids : tasks[id].parent \notin ids

ASSUME TaskAssumption ==
    /\ MaxOps \in Nat
    /\ \A s \in TaskSpecs : Nested(s)
    /\ \A d \in Drafts :
          /\ Nested(d.tasks)
          /\ d.top \in DOMAIN d.tasks /\ "parent" \in DOMAIN d.tasks[d.top]
          /\ \A id \in DOMAIN d.tasks : d.tasks[id].parent = TopLevel <=> id = d.top

VARIABLES
    taskTree,      \* the assembled tree: task id -> its record; empty before loading
    loadedSpec,    \* the tree as it was loaded
    auditTrail,    \* the lines of the audit file
    auditMemory,   \* the log object's own entries
    closedNodes, presentArtefacts,
    doneVerdict    \* what the last declaration came to

taskVars == <<taskTree, loadedSpec, auditTrail, auditMemory, closedNodes, presentArtefacts, doneVerdict>>

NoTask == [t \in {} |-> 0]
NoVerdict == [by |-> "nobody", passed |-> FALSE, gaps |-> {}]

-----------------------------------------------------------------------------
(* Specifications.                                                         *)

ChildrenIn(tasks, id) == {c \in DOMAIN tasks : tasks[c].parent = id}

AtomsOf(criterion) == UNION criterion
ReferencedChildren(criterion) == {a[2] : a \in {x \in AtomsOf(criterion) : x[1] = "child"}}
ReferencedNodes(criterion) == {a[2] : a \in {x \in AtomsOf(criterion) : x[1] = "node"}}

\* What the reader of a task file refuses.
Readable(tasks) ==
    \A id \in DOMAIN tasks :
        LET task == tasks[id] IN
        /\ ReferencedNodes(task.criterion) \subseteq DOMAIN task.nodes
        /\ ReferencedChildren(task.criterion) \subseteq ChildrenIn(tasks, id)
        /\ task.focus \in DOMAIN task.nodes \cup {"nothing"}
        /\ task.capabilities # {} => task.runner # "nobody"

\* A child its parent's criterion names must have a contract; a name that
\* is no child is passed over.
Assembled(tasks) ==
    \A id \in DOMAIN tasks :
        \A c \in ReferencedChildren(tasks[id].criterion) \cap ChildrenIn(tasks, id) : tasks[c].contract

LoadTask(tasks) ==
    /\ taskTree = NoTask /\ Readable(tasks) /\ Assembled(tasks)
    /\ taskTree' = tasks /\ loadedSpec' = tasks
    /\ UNCHANGED <<auditTrail, auditMemory, closedNodes, presentArtefacts, doneVerdict>>

RefuseTask(tasks) ==
    /\ taskTree = NoTask /\ ~(Readable(tasks) /\ Assembled(tasks))
    /\ doneVerdict' = [NoVerdict EXCEPT !.by = "loader"]
    /\ UNCHANGED <<taskTree, loadedSpec, auditTrail, auditMemory, closedNodes, presentArtefacts>>

-----------------------------------------------------------------------------
(* Structural operations.  The new tree is made, then logged, then given   *)
(* back; the caller wraps it with assemble_task_tree and keeps its old one *)
(* when any of these raises.                                               *)

AncestorsIn(tasks) ==
    LET up[id \in DOMAIN tasks] ==
            IF tasks[id].parent = TopLevel THEN {} ELSE {tasks[id].parent} \cup up[tasks[id].parent]
    IN up

WithoutSubtree(tasks, id) == Restrict(tasks, {t \in DOMAIN tasks : t # id /\ id \notin AncestorsIn(tasks)[t]})

UnderParent(draft, parent) == [t \in DOMAIN draft.tasks |->
                                 IF t = draft.top THEN [draft.tasks[t] EXCEPT !.parent = parent] ELSE draft.tasks[t]]

TaskEntry(op, parent, child) == [op |-> op, task |-> parent, detail |-> child]

Joined(kept, added) ==
    [id \in DOMAIN kept \cup DOMAIN added |-> IF id \in DOMAIN kept THEN kept[id] ELSE added[id]]

\* Ids have to be unique across the tree that is wrapped.
Wraps(kept, added) == DOMAIN kept \cap DOMAIN added = {} /\ Assembled(Joined(kept, added))

\* Slip: a trail that cannot be written does not stop the operation.
CommitRegardless(kept, added, entry, writable) ==
    /\ auditMemory' = Append(auditMemory, entry)
    /\ auditTrail' = IF writable THEN Append(auditTrail, entry) ELSE auditTrail
    /\ taskTree' = IF Wraps(kept, added) THEN Joined(kept, added) ELSE taskTree

\* The entry is in the log object before it is in the file, and in the file
\* before anybody has looked at the tree it speaks of.
Commit(kept, added, entry, writable) ==
    /\ auditMemory' = Append(auditMemory, entry)
    /\ auditTrail' = IF writable THEN Append(auditTrail, entry) ELSE auditTrail
    /\ taskTree' = IF writable /\ Wraps(kept, added) THEN Joined(kept, added) ELSE taskTree

Quiet == UNCHANGED <<loadedSpec, closedNodes, presentArtefacts, doneVerdict>>

InsertChild(parent, draft, writable) ==
    /\ Len(auditMemory) < MaxOps
    /\ parent \in DOMAIN taskTree
    /\ Commit(taskTree, UnderParent(draft, parent), TaskEntry("insert_child", parent, draft.top), writable)
    /\ Quiet

\* The replacement keeps the id and brings everything else, its criterion too.
ReplaceChild(parent, child, draft, writable) ==
    /\ Len(auditMemory) < MaxOps
    /\ child = draft.top
    /\ parent \in DOMAIN taskTree /\ child \in ChildrenIn(taskTree, parent)
    /\ Commit(WithoutSubtree(taskTree, child), UnderParent(draft, parent), TaskEntry("replace_child", parent, child), writable)
    /\ Quiet

DeleteChild(parent, child, writable) ==
    /\ Len(auditMemory) < MaxOps
    /\ parent \in DOMAIN taskTree /\ child \in ChildrenIn(taskTree, parent)
    /\ Commit(WithoutSubtree(taskTree, child), NoTask, TaskEntry("delete_child", parent, child), writable)
    /\ Quiet

-----------------------------------------------------------------------------
(* Done.                                                                   *)

Holds(atom, closed, children, artefacts) ==
    CASE atom[1] = "node" -> atom[2] \in closed
      [] atom[1] = "child" -> atom[2] \in children
      [] OTHER -> atom[2] \in artefacts

Satisfied(criterion, closed, children, artefacts) ==
    \E alternative \in criterion : \A atom \in alternative : Holds(atom, closed, children, artefacts)

Gaps(criterion, closed, children, artefacts) ==
    IF Satisfied(criterion, closed, children, artefacts) THEN {}
    ELSE {atom \in AtomsOf(criterion) : ~Holds(atom, closed, children, artefacts)}

\* A task is done by its own criterion over the nodes, the artefacts and the
\* children that are done themselves; nodes of all tasks are one set.
DoneTasks ==
    LET done[n \in 0..Cardinality(DOMAIN taskTree)] ==
            IF n = 0 THEN {}
            ELSE {id \in DOMAIN taskTree :
                    Satisfied(taskTree[id].criterion, closedNodes, ChildrenIn(taskTree, id) \cap done[n - 1],
                              presentArtefacts)}
    IN  done[Cardinality(DOMAIN taskTree)]

RootTask == CHOOSE id \in DOMAIN taskTree : taskTree[id].parent = TopLevel

\* The gate: the criterion, and the mechanism probes when both they and what
\* to run them on are given.
TaskGate(by, criterion, closed, children, artefacts, floor) ==
    doneVerdict' = [by |-> by,
                    passed |-> Satisfied(criterion, closed, children, artefacts) /\ floor # "fails",
                    gaps |-> Gaps(criterion, closed, children, artefacts)]

DeclareDone(floor) ==
    /\ taskTree # NoTask
    /\ TaskGate("tree", taskTree[RootTask].criterion, closedNodes,
                ChildrenIn(taskTree, RootTask) \cap DoneTasks, presentArtefacts, floor)
    /\ UNCHANGED <<taskTree, loadedSpec, auditTrail, auditMemory, closedNodes, presentArtefacts>>

\* Without a context only the nodes the file itself calls closed count.
DeclareDoneAlone(floor) ==
    /\ taskTree # NoTask
    /\ LET task == taskTree[RootTask] IN
       TaskGate("spec", task.criterion, {n \in DOMAIN task.nodes : task.nodes[n] = "closed"}, {}, {}, floor)
    /\ UNCHANGED <<taskTree, loadedSpec, auditTrail, auditMemory, closedNodes, presentArtefacts>>

\* The node gate signs a node; an artefact appears.
CloseNode(n) ==
    /\ taskTree # NoTask /\ n \notin closedNodes
    /\ closedNodes' = closedNodes \cup {n}
    /\ UNCHANGED <<taskTree, loadedSpec, auditTrail, auditMemory, presentArtefacts, doneVerdict>>

ArtefactAppears(a) ==
    /\ taskTree # NoTask /\ a \notin presentArtefacts
    /\ presentArtefacts' = presentArtefacts \cup {a}
    /\ UNCHANGED <<taskTree, loadedSpec, auditTrail, auditMemory, closedNodes, doneVerdict>>

-----------------------------------------------------------------------------
TaskInit ==
    /\ taskTree = NoTask /\ loadedSpec = NoTask
    /\ auditTrail = <<>> /\ auditMemory = <<>>
    /\ closedNodes = {} /\ presentArtefacts = {} /\ doneVerdict = NoVerdict

Floors == {"holds", "fails", "unwired"}

TaskNext ==
    \/ \E s \in TaskSpecs : LoadTask(s) \/ RefuseTask(s)
    \/ \E p \in DOMAIN taskTree, d \in Drafts, w \in BOOLEAN : InsertChild(p, d, w)
    \/ \E p, c \in DOMAIN taskTree, d \in Drafts, w \in BOOLEAN : ReplaceChild(p, c, d, w)
    \/ \E p, c \in DOMAIN taskTree, w \in BOOLEAN : DeleteChild(p, c, w)
    \/ \E f \in Floors : DeclareDone(f) \/ DeclareDoneAlone(f)
    \/ \E n \in ClosableNodes : CloseNode(n)
    \/ \E a \in Artefacts : ArtefactAppears(a)

TaskTreeSpec == TaskInit /\ [][TaskNext]_taskVars

-----------------------------------------------------------------------------
Touched(trail, ops, ids) ==
    \E i \in DOMAIN trail : trail[i].op \in ops /\ trail[i].detail \in ids

\* The audit file accounts for the tree: a task the specification did not
\* declare was inserted, or came with one that was put in, and one it did
\* declare and that is gone was deleted or replaced, or an ancestor was
\* (audit.py: every accepted op is logged).
TrailAccountsForTree ==
    /\ \A id \in DOMAIN taskTree \ DOMAIN loadedSpec :
          Touched(auditTrail, {"insert_child", "replace_child"}, {id} \cup AncestorsIn(taskTree)[id])
    /\ \A id \in DOMAIN loadedSpec \ DOMAIN taskTree :
          Touched(auditTrail, {"delete_child", "replace_child"}, {id} \cup AncestorsIn(loadedSpec)[id])

=============================================================================
