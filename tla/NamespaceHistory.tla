-------------------------- MODULE NamespaceHistory --------------------------
(***************************************************************************)
(* The history of the namespaces a test run creates, kept in the file      *)
(* logs/namespace_history.log by bddframework/pkg/framework/namespace.go,  *)
(* and the command that prunes them after the run                          *)
(* (framework/kubernetes.go, testbdd/scripts/prune_namespaces.go).         *)
(*                                                                         *)
(* There are two kinds of writers.  Each scenario creates and deletes a    *)
(* namespace named like itself.  A cluster wide installation from YAML     *)
(* files records its fixed namespace after all files are applied, whoever  *)
(* has created that, and removes the line after the suite                  *)
(* (installers/service_installer.go).  The hooks only log their errors.    *)
(*                                                                         *)
(* Appending a line is one write (O_APPEND); removing one reads the whole  *)
(* file, truncates it and writes the other lines from the beginning.  The  *)
(* file is a sequence of lines.  Names differ in length, so what a shorter *)
(* write leaves of a longer file may begin with a part of a name (Torn).   *)
(***************************************************************************)
EXTENDS Naturals, Sequences, FiniteSets, SequencesExt

CONSTANTS Scenarios,      \* scenarios of the run, and their namespaces
          Installations,  \* cluster wide installations, and their namespaces
          Others,         \* other namespaces of the cluster
          Torn,           \* a line that is a part of a name
          Histories       \* what earlier runs may have left in the file

Writers == Scenarios \cup Installations
Names == Writers \cup Others
Lines == Names \cup {Torn}

ASSUME ConstAssumption ==
    /\ Histories \subseteq Seq(Names) /\ Torn \notin Names
    /\ Scenarios \cap Installations = {}

VARIABLES
    pc,        \* [Writers -> step of the writer]
    snap,      \* lines read by removeNamespaceFromHistory
    file,      \* the history
    exists,    \* namespaces in the cluster
    run,       \* "on", or "over" (ended or killed), then the prune command
    pruneTodo, \* lines PruneNamespaces has not handled
    \* observers, not part of the program:
    earlier,   \* namespaces recorded before the run
    created,   \* namespaces the run has created
    missed,    \* those whose hook failed, or was not called
    overlapped,\* the file was written between a removal's read and its write
    damaged    \* a failing read or write has emptied the file

observers == <<earlier, created, missed, overlapped, damaged>>
vars == <<pc, snap, file, exists, run, pruneTodo, observers>>

TypeOK ==
    /\ pc \in [Writers -> {"idle", "append", "body", "install", "failed",
                           "remove", "truncate", "write", "done"}]
    /\ snap \in [Writers -> Seq(Lines)]
    /\ file \in Seq(Lines)
    /\ exists \subseteq Names
    /\ run \in {"on", "over", "prune", "pruned"}
    /\ pruneTodo \in Seq(Lines)
    /\ earlier \subseteq Names /\ created \subseteq Writers /\ missed \subseteq Writers
    /\ overlapped \in BOOLEAN /\ damaged \in BOOLEAN

\* Any of the namespaces may exist before the run, recorded or not.
Init ==
    /\ pc = [s \in Writers |-> "idle"]
    /\ snap = [s \in Writers |-> <<>>]
    /\ file \in Histories /\ earlier = ToSet(file)
    /\ exists \in SUBSET Names
    /\ run = "on"
    /\ pruneTodo = <<>>
    /\ created = {} /\ missed = {} /\ overlapped = FALSE /\ damaged = FALSE

At(s, place) == run = "on" /\ pc[s] = place
Goto(s, from, to) == At(s, from) /\ pc' = [pc EXCEPT ![s] = to]

\* Removals of others that have read the file and not yet written it.
Disturbed(s) == {u \in Writers \ {s} : pc[u] \in {"truncate", "write"}}

Overlap(s) == overlapped' = (overlapped \/ Disturbed(s) # {})

\* Seeded fault: the namespace's own line is kept and the others are dropped.
Without_Inverted(lines, s) == SelectSeq(lines, LAMBDA line : line = s)

\* The other lines of a history: the loop keeps each line that is not the name.
Without(lines, s) ==
    LET kept[i \in 0 .. Len(lines)] ==
            IF i = 0 THEN <<>>
            ELSE IF lines[i] = s THEN kept[i - 1] ELSE Append(kept[i - 1], lines[i])
    IN kept[Len(lines)]

\* What the file may hold after `output' is written over its beginning: behind
\* the output the lines it does not reach, and perhaps the rest of one it cuts.
Overwritten(output) ==
    IF output = <<>> \/ file = <<>> THEN {output \o file}
    ELSE LET rest(k) == SubSeq(file, k, Len(file))
         IN UNION {{output \o rest(k), output \o <<Torn>> \o rest(k)} : k \in 2 .. Len(file) + 1}

(***************************************************************************)
(* Creation: the scenario's step, and the installation of a cluster wide   *)
(* service by one of the scenarios.                                        *)
(***************************************************************************)
\* Seeded fault: the hook also runs when the namespace already exists.
CreateNamespace_HookAlways(s) ==
    /\ Goto(s, "idle", "append")
    /\ exists' = exists \cup {s}
    /\ created' = IF s \in exists THEN created ELSE created \cup {s}
    /\ UNCHANGED <<snap, file, run, pruneTodo, earlier, missed, overlapped, damaged>>

\* The namespace is created; an error (it exists, or another one) ends the step.
CreateNamespace(s) ==
    /\ \/ /\ s \notin exists
          /\ Goto(s, "idle", "append")
          /\ exists' = exists \cup {s} /\ created' = created \cup {s}
       \/ Goto(s, "idle", "body") /\ UNCHANGED <<exists, created>>
    /\ UNCHANGED <<snap, file, run, pruneTodo, earlier, missed, overlapped, damaged>>

\* YamlClusterWideServiceInstaller.Install by scenario s, the first to ask for
\* it: InstallClusterYaml applies its files.  It may fail with the namespace
\* created; there is no hook then.
InstallClusterYaml(s, i) ==
    /\ At(s, "body") /\ At(i, "idle")
    /\ \/ /\ pc' = [pc EXCEPT ![s] = "install", ![i] = "append"]
          /\ exists' = exists \cup {i} /\ created' = created \cup ({i} \ exists)
          /\ UNCHANGED missed
       \/ /\ pc' = [pc EXCEPT ![i] = "failed"]
          /\ \/ /\ exists' = exists \cup {i} /\ created' = created \cup ({i} \ exists)
                /\ missed' = missed \cup ({i} \ exists)
             \/ UNCHANGED <<exists, created, missed>>
    /\ UNCHANGED <<snap, file, run, pruneTodo, earlier, overlapped, damaged>>

\* addNamespaceToHistory with O_APPEND, or an error that is logged.
AppendLine(s) ==
    \/ file' = Append(file, s) /\ Overlap(s) /\ UNCHANGED missed
    \/ missed' = missed \cup {s} /\ UNCHANGED <<file, overlapped>>

\* OnNamespacePostCreated of a scenario's namespace,
AddToHistory(s) ==
    /\ Goto(s, "append", "body")
    /\ AppendLine(s)
    /\ UNCHANGED <<snap, exists, run, pruneTodo, earlier, created, damaged>>

\* and of an installation's.
RecordInstallation(s, i) ==
    /\ At(s, "install") /\ At(i, "append")
    /\ pc' = [pc EXCEPT ![s] = "body", ![i] = "body"]
    /\ AppendLine(i)
    /\ UNCHANGED <<snap, exists, run, pruneTodo, earlier, created, damaged>>

(***************************************************************************)
(* Deletion and OnNamespacePostDeleted.                                    *)
(***************************************************************************)
\* The namespace is deleted, whoever created it, or the call fails (or is not
\* made: there is none, or the configuration keeps it).
DeleteNamespace(s) ==
    /\ \/ s \in exists /\ Goto(s, "body", "remove") /\ exists' = exists \ {s}
       \/ Goto(s, "body", "done") /\ UNCHANGED exists
    /\ UNCHANGED <<snap, file, run, pruneTodo, observers>>

\* uninstallFromCluster, after all scenarios and one after the other, of all
\* installations that were begun.  UninstallClusterYaml deletes what the files
\* name and may fail halfway; a run that keeps its namespaces ends before it.
UninstallClusterYaml(i) ==
    /\ \A s \in Scenarios : pc[s] = "done"
    /\ \A u \in Installations : pc[u] \notin {"remove", "truncate", "write"}
    /\ \E from \in {"body", "failed"} :
          \/ Goto(i, from, "remove") /\ exists' = exists \ {i}
          \/ Goto(i, from, "done") /\ exists' \in {exists, exists \ {i}}
    /\ UNCHANGED <<snap, file, run, pruneTodo, observers>>

\* removeNamespaceFromHistory: os.ReadFile, without the namespace's line; an
\* error counts as a history without lines.
RemoveRead(s) ==
    /\ Goto(s, "remove", "truncate")
    /\ \/ snap' = [snap EXCEPT ![s] = Without(file, s)] /\ UNCHANGED damaged
       \/ snap' = [snap EXCEPT ![s] = <<>>] /\ damaged' = TRUE
    /\ UNCHANGED <<file, exists, run, pruneTodo, earlier, created, missed, overlapped>>

\* os.WriteFile: opened with O_TRUNC, or an error that is logged,
RemoveTruncate(s) ==
    /\ \/ Goto(s, "truncate", "write") /\ file' = <<>> /\ Overlap(s)
       \/ Goto(s, "truncate", "done") /\ UNCHANGED <<file, overlapped>>
    /\ UNCHANGED <<snap, exists, run, pruneTodo, earlier, created, missed, damaged>>

\* then one write at the beginning of the file, which may fail as well.
RemoveWrite(s) ==
    /\ Goto(s, "write", "done")
    /\ \/ file' \in Overwritten(snap[s]) /\ Overlap(s) /\ UNCHANGED damaged
       \/ damaged' = TRUE /\ UNCHANGED <<file, overlapped>>
    /\ UNCHANGED <<snap, exists, run, pruneTodo, earlier, created, missed>>

\* The run ends, or is killed in the middle of something.
RunOver ==
    /\ run = "on"
    /\ run' = "over"
    /\ UNCHANGED <<pc, snap, file, exists, pruneTodo, observers>>

(***************************************************************************)
(* PruneNamespaces, in a process of its own.                               *)
(***************************************************************************)
\* Seeded fault: the empty line after the last newline is not left out.
PruneRead_EmptyLine ==
    /\ run = "over"
    /\ run' = "prune"
    /\ pruneTodo' = Append(file, "")
    /\ UNCHANGED <<pc, snap, file, exists, observers>>

\* GetNamespacesInHistory: the non-empty lines, or none after an error.
PruneRead ==
    /\ run = "over"
    /\ run' = "prune"
    /\ pruneTodo' \in {file, <<>>}
    /\ UNCHANGED <<pc, snap, file, exists, observers>>

\* The existing namespaces a line may name: a part of a name may be another.
Named(line) == IF line = Torn THEN exists ELSE exists \cap {line}

\* DeleteNamespace with its hook, which removes the line, cannot read the file
\* and empties it, or cannot write it; an error (there is no such namespace, the
\* cluster does not answer) is only logged.
PruneDelete ==
    /\ run = "prune" /\ pruneTodo # <<>>
    /\ \/ /\ \E s \in Named(Head(pruneTodo)) : exists' = exists \ {s}
          /\ \/ file' = Without(file, Head(pruneTodo)) /\ UNCHANGED damaged
             \/ file' = <<>> /\ damaged' = TRUE
             \/ UNCHANGED <<file, damaged>>
       \/ UNCHANGED <<exists, file, damaged>>
    /\ pruneTodo' = Tail(pruneTodo)
    /\ UNCHANGED <<pc, snap, run, earlier, created, missed, overlapped>>

\* ClearNamespaceHistory, whose error is ignored
PruneClear ==
    /\ run = "prune" /\ pruneTodo = <<>>
    /\ run' = "pruned"
    /\ file' \in {<<>>, file}
    /\ UNCHANGED <<pc, snap, exists, pruneTodo, observers>>
-----------------------------------------------------------------------------
Prune == PruneRead \/ PruneDelete \/ PruneClear

RemoveLine(s) == RemoveRead(s) \/ RemoveTruncate(s) \/ RemoveWrite(s)

Scenario(s) == \/ CreateNamespace(s) \/ AddToHistory(s) \/ DeleteNamespace(s)
               \/ \E i \in Installations :
                     InstallClusterYaml(s, i) \/ RecordInstallation(s, i)

Terminated == run = "pruned" /\ UNCHANGED vars

Next == \/ \E s \in Scenarios : Scenario(s)
        \/ \E i \in Installations : UninstallClusterYaml(i)
        \/ \E s \in Writers : RemoveLine(s)
        \/ RunOver \/ Prune \/ Terminated

Spec == Init /\ [][Next]_vars

(***************************************************************************)
(* Properties.                                                             *)
(***************************************************************************)
\* The namespaces the history, or a removal that is rewriting it, knows.
Recorded == ToSet(file)
            \cup UNION {ToSet(snap[s]) : s \in {u \in Writers : pc[u] = "write"}}

\* A namespace the run has created and not deleted is in the history, so that
\* PruneNamespaces finds it even after the run was killed ("retrieves all the
\* namespaces in the history"), however scenarios and installations have been
\* adding and removing lines.  What excuses a missing line: it is about to be
\* appended (an installation's only after all its files are applied), its hook
\* failed or was not called, a read or write of the file has failed, or the file
\* was written between the read and the write of a removal.
LostOnlyByOverlap ==
    run # "pruned" /\ ~overlapped /\ ~damaged =>
        \A s \in (created \cap exists) \ missed : pc[s] = "append" \/ s \in Recorded

\* The installations whose hooks may have run.
Installed == {i \in Installations : pc[i] \notin {"idle", "append", "failed"}}

\* PruneNamespaces deletes only namespaces the run has created, those earlier
\* runs have recorded, and those of its installations, which are deleted also if
\* they were there before the run.  When a removal was disturbed a line may be
\* cut, and name anything.
PruneSparesForeign ==
    [][run = "prune" /\ ~overlapped
          => exists \ exists' \subseteq created \cup earlier \cup Installed]_vars
=============================================================================
