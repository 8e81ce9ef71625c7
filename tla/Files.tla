------------------------------- MODULE Files ----------------------------------
(***************************************************************************)
(* What a process holds by handle, one unit per behaviour: the tree of the *)
(* in-memory file system, the bytes of a file of it, the descriptor table  *)
(* of System.Native, its children, and a watcher of Linux.                 *)
(***************************************************************************)
EXTENDS MemFs, Descriptors, Children

-----------------------------------------------------------------------------
\* Small sets of paths, and what a behaviour uses of the file system: the tree with
\* a handle, or less of a tree with a watcher.
P(components) == Path(FALSE, components, FALSE)
Root == Path(TRUE, <<>>, TRUE)
MCPaths == {P(<<"a">>), P(<<"b">>), P(<<"a", "b">>), Path(TRUE, <<"b">>, TRUE), Root}
MCTargets == {P(<<"a">>), P(<<"..">>)}

VARIABLE scenario

Contents == {"ACCESS", "MODIFY", "ATTRIBUTES"}

\* The nodes, the capacities, what watches ask for, the directories that may be
\* current, and whether a file is closed as soon as it is opened.
Scenario(ids, kinds, capacities, asks, working, brief) ==
    [ids |-> 1 .. ids, kinds |-> kinds, capacities |-> capacities, asks |-> asks,
     working |-> working, brief |-> brief]

Scenarios == {
    Scenario(4, {"file", "directory", "link"}, {1}, {}, 1 .. 2, FALSE),
    Scenario(3, {"file"}, {1}, {NameChanges}, {ROOT}, TRUE),
    Scenario(3, {"directory"}, {1}, {NameChanges}, {ROOT}, TRUE),
    Scenario(2, {"file"}, {1}, {Contents}, {ROOT}, FALSE),
    Scenario(2, {"file", "directory"}, {0, 1}, {}, {ROOT}, FALSE),
    Scenario(2, {"directory"}, {1}, Asks, 1 .. 2, FALSE)}

TreeInit == Init /\ scenario \in Scenarios

TreeNext ==
    /\ IF scenario.brief /\ \E h \in Handles : handles[h] # None
       THEN \E h \in Handles : close(h)
       ELSE Next
    /\ DOMAIN fs'.nodes \subseteq scenario.ids
    /\ \A id \in DOMAIN fs'.nodes \ {ROOT} : fs'.nodes[id].kind \in scenario.kinds
    /\ fs'.capacity \in scenario.capacities
    /\ fs'.working \in scenario.working
    /\ \A w \in DOMAIN fs'.watchers :
          /\ scenario.asks # {}
          /\ \A asked \in ToSet(fs'.watchers[w].watches) : asked.events \in scenario.asks
    /\ UNCHANGED scenario

-----------------------------------------------------------------------------

VARIABLES
    unit,                                                            \* the unit of this behaviour
    absent,                                                          \* see Absent
    content, heap, mappings, maps, opens, links, file, mapped,       \* bytes
    opened, queue, watched, last_wd, buffer, reader, patience, due, untold \* of the watcher

\* Two threads with an object of each kind and a second socket, or three that share a
\* watch.  The children have two threads.
Absent == {{"t3"}, {"f1", "s1", "s2"}}   \* the threads and objects that take no part
DescriptorNext ==
    /\ DescriptorsNext
    /\ \A t \in Threads \intersect absent : op'[t] = op[t] /\ doomed'[t] = doomed[t]
    /\ open' \intersect absent = {}
    /\ UNCHANGED absent

ChildNext ==
    /\ ChildrenNext
    /\ \A t \in Threads \intersect absent : child_op'[t] = child_op[t] /\ owner'[t] = owner[t]

\* Pages of two bytes, files of three.
Content == INSTANCE MemContent
    WITH PAGE <- 2, Capacity <- 3, MaxSize <- 4, Lengths <- {2, 3}, MaxHeld <- 2,
         Blocks <- {"b1", "b2", "b3"}, held <- mapped

Linux == INSTANCE LinuxWatches WITH Nodes <- {"n1", "n2"}, MaxWd <- 2, Batch <- 2, QueueMax <- 3

tree == <<vars, scenario>>
fds == <<descriptor_table, absent>>
bytes == <<content, heap, mappings, maps, opens, links, file, mapped>>
watcher == <<opened, queue, watched, last_wd, buffer, reader, patience, due, untold>>
all == <<unit, tree, fds, process_table, bytes, watcher>>

FilesInit ==
    /\ unit \in {"tree", "bytes", "descriptors", "children", "watcher"}
    /\ TreeInit /\ (unit # "tree" => scenario = Scenario(2, {"directory"}, {1}, Asks, 1 .. 2, FALSE))
    /\ DescriptorsInit /\ absent \in Absent /\ (unit # "descriptors" => absent = {"t3"})
    /\ ChildrenInit /\ Content!ContentInit /\ Linux!WatchesInit

TreeStep == unit = "tree" /\ TreeNext /\ UNCHANGED <<unit, fds, process_table, bytes, watcher>>
ByteStep == unit = "bytes" /\ Content!ContentNext /\ UNCHANGED <<unit, tree, fds, process_table, watcher>>
DescriptorStep == unit = "descriptors" /\ DescriptorNext /\ UNCHANGED <<unit, tree, process_table, bytes, watcher>>
ChildStep == unit = "children" /\ ChildNext /\ UNCHANGED <<unit, tree, fds, bytes, watcher>>
WatcherStep(steps) == unit = "watcher" /\ steps /\ UNCHANGED <<unit, tree, fds, process_table, bytes>>
FilesNext == TreeStep \/ ByteStep \/ DescriptorStep \/ ChildStep \/ WatcherStep(Linux!WatchesNext)

\* The fairness of the descriptor table, of the children and of a watcher's reader,
\* for which time passes; in the other behaviours none of their steps is enabled.
FilesSpec ==
    /\ FilesInit /\ [][FilesNext]_all /\ DescriptorsFairness /\ ChildrenFairness
    /\ WF_all(WatcherStep(Linux!WatchesStep)) /\ WF_all(WatcherStep(Linux!tick))

-----------------------------------------------------------------------------
\* The tree of the file system is sound, and the paths it spells lead back to what
\* they are spelled for (`release`, `rename`, `real_path` of dotnet-pal-memfs); a file
\* is what was written to it, mapped or not (`map`, `set_size`).
FilesAreSound ==
    /\ unit = "tree" => TreeIsSound /\ RealPathsLead
    /\ unit = "bytes" => Content!FileIsItsBytes

\* A watcher's reader keeps the directory's listing (`tell`, `read`), and on Linux it
\* gets every event the contract has a word for (`read`, `buffered`).
ReadersSeeTheTree ==
    /\ unit = "tree" => EventsTellTheTree
    /\ unit = "watcher" => Linux!EventsAreTold

\* A closed watcher's reader ends, and on Linux a read that something has happened for
\* or whose time is up; an ended child is told of, a collected one freed.
EndsAreSeen == ClosedWatchEnds /\ Linux!ReadsEnd /\ EndedAreReleased
=============================================================================
