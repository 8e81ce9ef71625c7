-------------------------------- MODULE MemFs --------------------------------
(* The in-memory file system of dotnet-pal-memfs: the tree with hard and        *)
(* symbolic links, the walk of a path, the handles of files and the watchers    *)
(* that hear of every change.  One spin lock guards it all, so a call is a      *)
(* step; `fs` is the State of the code and the operators named like its methods *)
(* take one State to the next.  A call that is refused changes nothing.  The    *)
(* bytes of a file are its size here and its bytes in MemContent; its locks and *)
(* the wait of a watcher's read are in MemWaits; times, modes and the listings  *)
(* of open directories are left out, and the allocator does not fail.           *)
EXTENDS Integers, Sequences, FiniteSets, TLC, SequencesExt, FiniteSetsExt, Functions

CONSTANTS
    Names,
    Handles,
    Watchers,
    Paths,         \* what the calls are given: see Path
    Targets,       \* the targets symbolic links are given, paths too
    Asks,          \* the sets of kinds a watch may ask for
    Flags,         \* the flags open is given
    MaxLinks,      \* MAX_LINKS: 40
    QueueLimit,    \* QUEUE_LIMIT: 1024
    Capacities,    \* what set_capacity is given
    Sizes,
    MaxId,         \* bound: ids are not used twice
    MaxWatch,      \* bound: u32::MAX
    MaxCookie,     \* u32::MAX
    None

VARIABLES
    fs,            \* State
    handles,       \* the file behind each handle, or None
    view           \* history: the names a reader believes each watched directory has

vars == <<fs, handles, view>>

ROOT == 1

\* A path: is it absolute, its components, does a slash end it.
Path(abs, components, slash) == [abs |-> abs, components |-> components, slash |-> slash]

Node(kind) == [kind |-> kind, links |-> 1, opens |-> 0]
File == Node("file") @@ [size |-> 0]
Directory(parent) == Node("directory") @@ [parent |-> parent, entries |-> <<>>]
Link(target) == Node("link") @@ [target |-> target]

Init ==
    /\ fs = [nodes |-> (ROOT :> Directory(ROOT)), next_id |-> ROOT + 1, used |-> 0,
             capacity |-> Max(Capacities), working |-> ROOT, watchers |-> <<>>, cookie |-> 0]
    /\ handles = [h \in Handles |-> None]
    /\ view = [w \in Watchers |-> <<>>]

is_directory(s, id) == s.nodes[id].kind = "directory"
entries(s, id) == s.nodes[id].entries
lookup(s, id, name) == IF name \in DOMAIN entries(s, id) THEN entries(s, id)[name] ELSE None

-----------------------------------------------------------------------------
\* Pending::follows, for the texts that are left when a link is found.
follows(texts, last) ==
    CASE last = "Follow" -> TRUE
      [] last = "Keep" -> \E i \in DOMAIN texts : texts[i].components # <<>> \/ texts[i].slash
      [] OTHER -> \E i \in DOMAIN texts : texts[i].components # <<>>

\* The rest of State::walk.  `texts` has the innermost text first, `found` the
\* name the walk has come to and its node; None is a walk that failed.
RECURSIVE Resolve(_, _, _, _, _, _, _)
Resolve(s, last, parent, texts, found, slash, entered) ==
    IF texts = <<>> THEN
        IF found = None THEN [parent |-> parent, name |-> None, node |-> parent, slash |-> slash]
        ELSE IF found.node # None /\ slash /\ last # "Create" /\ ~is_directory(s, found.node) THEN None
        ELSE [parent |-> parent, name |-> found.name, node |-> found.node, slash |-> slash]
    ELSE IF Head(texts).components = <<>> THEN
        Resolve(s, last, parent, Tail(texts), found, slash \/ Head(texts).slash, entered)
    ELSE
    LET component == Head(Head(texts).components)
        rest == <<[Head(texts) EXCEPT !.components = Tail(@)]>> \o Tail(texts)
        at == IF found = None THEN parent ELSE found.node
    IN  IF at = None THEN None
        ELSE IF ~is_directory(s, at) THEN None
        ELSE IF component = "." THEN Resolve(s, last, at, rest, None, FALSE, entered)
        ELSE IF component = ".." THEN Resolve(s, last, s.nodes[at].parent, rest, None, FALSE, entered)
        ELSE LET node == lookup(s, at, component)
                 enters == IF node = None THEN FALSE
                           ELSE s.nodes[node].kind = "link" /\ follows(rest, last)
             IN  IF ~enters THEN Resolve(s, last, at, rest, [name |-> component, node |-> node], FALSE, entered)
                 ELSE IF entered = MaxLinks THEN None
                 ELSE LET target == s.nodes[node].target
                      IN  Resolve(s, last, IF target.abs THEN ROOT ELSE at,
                                  <<target>> \o rest, None, FALSE, entered + 1)

walk(s, path, last) ==
    IF ~path.abs /\ s.working \notin DOMAIN s.nodes THEN None
    ELSE Resolve(s, last, IF path.abs THEN ROOT ELSE s.working, <<path>>, None, FALSE, 0)

\* The node a path leads to, or None.
node_of(s, path, last) ==
    LET place == walk(s, path, last) IN IF place = None THEN None ELSE place.node

\* State::climb and spell: the absolute path of a name, or of a directory.
RECURSIVE climb(_, _, _)
climb(s, directory, names) ==
    IF directory = ROOT THEN Path(TRUE, names, FALSE)
    ELSE LET above == s.nodes[directory].parent
             own == {n \in DOMAIN entries(s, above) : entries(s, above)[n] = directory}
         IN  IF own = {} THEN None
             ELSE climb(s, above, <<CHOOSE n \in own : TRUE>> \o names)

spell(s, directory, name) == climb(s, directory, IF name = None THEN <<>> ELSE <<name>>)

-----------------------------------------------------------------------------
\* The events of a watcher.
Event(watch, kind, directory, cookie, name) ==
    [watch |-> watch, kind |-> kind, directory |-> directory, cookie |-> cookie, name |-> name]
OVERFLOW == Event(0, "OVERFLOW", FALSE, 0, None)

\* Mutant: what does not fit is dropped and nobody is told.
push_Silently(queue, event) ==
    IF Len(queue.events) < QueueLimit
    THEN [queue EXCEPT !.events = Append(@, event)]
    ELSE queue

push(queue, event) ==
    CASE Len(queue.events) < QueueLimit -> [queue EXCEPT !.events = Append(@, event)]
      [] queue.lost -> queue
      [] OTHER -> [events |-> Append(queue.events, OVERFLOW), lost |-> TRUE]

\* Every watcher w hears the events heard[w].
Tell(s, heard) ==
    [s EXCEPT !.watchers = [w \in DOMAIN @ |->
        [@[w] EXCEPT !.queue = FoldLeft(push, @, heard[w])]]]

\* State::report: the watches of the directories that hold the node, under each of
\* its names there, and then the watch of the node itself.
report(s, id, kind) ==
    LET mark == is_directory(s, id)
        holds(watch) == /\ kind \in watch.events
                        /\ watch.node # id /\ is_directory(s, watch.node)
                        /\ mark => s.nodes[id].parent = watch.node
        names(watch) == SetToSeq({n \in DOMAIN entries(s, watch.node) :
                                    entries(s, watch.node)[n] = id})
        heard(watch) == [i \in DOMAIN names(watch) |->
                            Event(watch.id, kind, mark, 0, names(watch)[i])]
        own(watches) == SelectSeq(watches, LAMBDA x : x.node = id /\ kind \in x.events)
        all(watches) ==
            LET held == SelectSeq(watches, holds)
            IN  FlattenSeq([i \in DOMAIN held |-> heard(held[i])])
                \o [i \in DOMAIN own(watches) |-> Event(own(watches)[i].id, kind, mark, 0, None)]
    IN  Tell(s, [w \in DOMAIN s.watchers |-> all(s.watchers[w].watches)])

report_entry(s, directory, name, kind, mark, cookie) ==
    LET own(w) == SelectSeq(s.watchers[w].watches, LAMBDA x : x.node = directory /\ kind \in x.events)
    IN  Tell(s, [w \in DOMAIN s.watchers |->
                    [i \in DOMAIN own(w) |-> Event(own(w)[i].id, kind, mark, cookie, name)]])

\* State::ended: the watches of a node without a name end.
ended(s, id) ==
    LET own(w) == SelectSeq(s.watchers[w].watches, LAMBDA x : x.node = id)
        told == Tell(s, [w \in DOMAIN s.watchers |->
                    [i \in DOMAIN own(w) |-> Event(own(w)[i].id, "REMOVED", FALSE, 0, None)]])
    IN  [told EXCEPT !.watchers = [w \in DOMAIN @ |->
            [@[w] EXCEPT !.watches = SelectSeq(@, LAMBDA x : x.node # id)]]]

-----------------------------------------------------------------------------
\* The changes of the tree.
insert(s, directory, name, id) ==
    [s EXCEPT !.nodes[directory].entries = (name :> id) @@ @]
erase(s, directory, name) ==
    [s EXCEPT !.nodes[directory].entries = Restrict(@, DOMAIN @ \ {name})]

create(s, place, node) ==
    LET id == s.next_id
        made == [insert(s, place.parent, place.name, id)
                    EXCEPT !.next_id = id + 1, !.nodes = @ @@ (id :> node)]
    IN  report_entry(made, place.parent, place.name, "CREATE", node.kind = "directory", 0)

Size(node) == IF node.kind = "file" THEN node.size ELSE 0

reap(s, id) ==
    IF s.nodes[id].links = 0 /\ s.nodes[id].opens = 0
    THEN [s EXCEPT !.nodes = Restrict(@, DOMAIN @ \ {id}), !.used = @ - Size(s.nodes[id])]
    ELSE s

unlinked(s, id, counted) ==
    LET less == [s EXCEPT !.nodes[id].links = Max({@ - 1, 0})]
        told == IF counted THEN report(less, id, "ATTRIBUTES") ELSE less
    IN  reap(IF less.nodes[id].links = 0 THEN ended(told, id) ELSE told, id)

\* State::change with Content::resize and write: what does not fit is refused.
Fits(s, id, size) == size - s.nodes[id].size <= Max({s.capacity - s.used, 0})
change(s, id, size, told) ==
    LET before == s.nodes[id].size
        done == [s EXCEPT !.nodes[id].size = size, !.used = @ - before + size]
    IN  IF told \/ before # size THEN report(done, id, "MODIFY") ELSE done

-----------------------------------------------------------------------------
\* Files.  Handles are opened for reading and writing.
open_file(h, path, flags) ==
    LET place == walk(fs, path, IF "EXCLUSIVE" \in flags THEN "Create" ELSE "Follow")
        new == place.node = None
        id == IF new THEN fs.next_id ELSE place.node
        emptied == IF "TRUNCATE" \in flags THEN change(fs, id, 0, FALSE) ELSE fs
        opened == IF new THEN create(fs, place, File) ELSE emptied
    IN  /\ handles[h] = None
        /\ place # None
        /\ IF new THEN "CREATE" \in flags /\ ~place.slash /\ id <= MaxId
                  ELSE "EXCLUSIVE" \notin flags /\ ~is_directory(fs, id)
        /\ fs' = [opened EXCEPT !.nodes[id].opens = @ + 1]
        /\ handles' = [handles EXCEPT ![h] = id]
        /\ UNCHANGED view

close(h) ==
    /\ handles[h] # None
    /\ fs' = reap([fs EXCEPT !.nodes[handles[h]].opens = Max({@ - 1, 0})], handles[h])
    /\ handles' = [handles EXCEPT ![h] = None]
    /\ UNCHANGED view

\* The other calls on a handle, for what they make of the State.
OnFile(h, after) ==
    /\ handles[h] # None
    /\ fs' = after
    /\ UNCHANGED <<handles, view>>

\* A read at the end of the file is no access.
read_at(h) ==
    LET id == handles[h]
    IN  OnFile(h, IF fs.nodes[id].size = 0 THEN fs ELSE report(fs, id, "ACCESS"))

\* The front end sees to a write of nothing.
write_at(h, offset, size) ==
    LET id == handles[h]
        end == Max({fs.nodes[id].size, offset + size})
    IN  OnFile(h, IF Fits(fs, id, end) THEN change(fs, id, end, TRUE) ELSE fs)

set_size(h, size) ==
    LET id == handles[h]
    IN  OnFile(h, IF Fits(fs, id, size) THEN change(fs, id, size, FALSE) ELSE fs)

\* set_mode and set_times, by handle and by path.
set_file_mode(h) == OnFile(h, report(fs, handles[h], "ATTRIBUTES"))

set_mode(path, last) ==
    LET id == node_of(fs, path, last)
    IN  /\ id # None
        /\ fs' = report(fs, id, "ATTRIBUTES")
        /\ UNCHANGED <<handles, view>>

remove(path) ==
    LET place == walk(fs, path, "Entry")
    IN  /\ place # None /\ place.node # None
        /\ ~is_directory(fs, place.node)
        /\ fs' = report_entry(unlinked(erase(fs, place.parent, place.name), place.node, TRUE),
                              place.parent, place.name, "DELETE", FALSE, 0)
        /\ UNCHANGED <<handles, view>>

\* Mutant: a directory may be moved into itself.
inside_Never(s, id, directory) == FALSE

\* The walk up from the directory that gets the new name.
RECURSIVE inside(_, _, _)
inside(s, id, directory) ==
    directory # ROOT /\ (directory = id \/ inside(s, id, s.nodes[directory].parent))

Replaces(s, directory, id) ==
    /\ directory = is_directory(s, id)
    /\ directory => entries(s, id) = <<>>

\* Mutant: the directory that moved still says it is where it was.
adopted_Never(s, id, parent) == s
adopted(s, id, parent) ==
    IF is_directory(s, id) THEN [s EXCEPT !.nodes[id].parent = parent] ELSE s

\* The move itself, once nothing can refuse it.
moved(s, source, target) ==
    LET id == source.node
        directory == is_directory(s, id)
        cookie == IF s.cookie = MaxCookie THEN 1 ELSE s.cookie + 1
        put == [insert(erase(s, source.parent, source.name), target.parent, target.name, id)
                    EXCEPT !.cookie = cookie]
        from == report_entry(put, source.parent, source.name, "MOVED_FROM", directory, cookie)
        to == report_entry(from, target.parent, target.name, "MOVED_TO", directory, cookie)
    IN  adopted(IF target.node = None THEN to ELSE unlinked(to, target.node, TRUE), id, target.parent)

rename(from, to) ==
    LET source == walk(fs, from, "Entry")
        target == walk(fs, to, "Entry")
    IN  /\ source # None /\ source.node # None /\ source.name # None
        /\ target # None /\ target.name # None
        /\ target.node # source.node
        /\ IF is_directory(fs, source.node) THEN ~inside(fs, source.node, target.parent)
                                           ELSE ~target.slash
        /\ target.node # None => Replaces(fs, is_directory(fs, source.node), target.node)
        /\ fs' = moved(fs, source, target)
        /\ UNCHANGED <<handles, view>>

Make(place, node) ==
    /\ fs.next_id <= MaxId
    /\ fs' = create(fs, place, node)
    /\ UNCHANGED <<handles, view>>

create_directory(path) ==
    LET place == walk(fs, path, "Create")
    IN  place # None /\ place.node = None /\ Make(place, Directory(place.parent))

remove_directory(path) ==
    LET place == walk(fs, path, "Entry")
    IN  /\ place # None /\ place.node \notin {None, ROOT}
        /\ is_directory(fs, place.node)
        /\ entries(fs, place.node) = <<>>
        /\ place.name # None
        /\ fs' = report_entry(unlinked(erase(fs, place.parent, place.name), place.node, FALSE),
                              place.parent, place.name, "DELETE", TRUE, 0)
        /\ UNCHANGED <<handles, view>>

\* A name that a file or a link may be given.
vacant(path) ==
    LET place == walk(fs, path, "Create")
    IN  IF place = None THEN None
        ELSE IF place.node = None /\ ~place.slash THEN place ELSE None

link(existing, created) ==
    LET id == node_of(fs, existing, "Keep")
        place == vacant(created)
        told == report(fs, id, "ATTRIBUTES")
        linked == [insert(told, place.parent, place.name, id) EXCEPT !.nodes[id].links = @ + 1]
    IN  /\ id # None /\ ~is_directory(fs, id)
        /\ place # None
        /\ fs' = report_entry(linked, place.parent, place.name, "CREATE", FALSE, 0)
        /\ UNCHANGED <<handles, view>>

symlink(target, created) ==
    LET place == vacant(created) IN place # None /\ Make(place, Link(target))

set_current_directory(path) ==
    LET id == node_of(fs, path, "Follow")
    IN  /\ id # None /\ is_directory(fs, id)
        /\ fs' = [fs EXCEPT !.working = id]
        /\ UNCHANGED <<handles, view>>

set_capacity(bytes) ==
    /\ fs' = [fs EXCEPT !.capacity = bytes]
    /\ UNCHANGED <<handles, view>>

-----------------------------------------------------------------------------
\* Watches.  A reader that asks a new watch for every change of names takes the
\* listing of the directory, and keeps it up to date from what it reads.
NameChanges == {"CREATE", "DELETE", "MOVED_FROM", "MOVED_TO"}
Listing(s, directory) == [n \in DOMAIN entries(s, directory) |-> is_directory(s, entries(s, directory)[n])]

Follow(listing, event) ==
    CASE event.kind \in {"CREATE", "MOVED_TO"} -> (event.name :> event.directory) @@ listing
      [] event.kind \in {"DELETE", "MOVED_FROM"} -> Restrict(listing, DOMAIN listing \ {event.name})
      [] OTHER -> listing

watcher_open(w) ==
    /\ w \notin DOMAIN fs.watchers
    /\ fs' = [fs EXCEPT !.watchers = @ @@
                (w :> [queue |-> [events |-> <<>>, lost |-> FALSE], watches |-> <<>>, last |-> 0])]
    /\ UNCHANGED <<handles, view>>

watcher_close(w) ==
    /\ w \in DOMAIN fs.watchers
    /\ fs' = [fs EXCEPT !.watchers = Restrict(@, DOMAIN @ \ {w})]
    /\ view' = [view EXCEPT ![w] = <<>>]
    /\ UNCHANGED handles

\* A node that is watched already keeps its watch, with the kinds asked for now.
add(w, path, wanted, last) ==
    LET id == node_of(fs, path, last)
        watches == fs.watchers[w].watches
        fresh == fs.watchers[w].last + 1
        known == {i \in DOMAIN watches : watches[i].node = id}
    IN  /\ w \in DOMAIN fs.watchers
        /\ id # None
        /\ \/ \E i \in known :
                 /\ fs' = [fs EXCEPT !.watchers[w].watches[i].events = wanted]
                 /\ view' = IF watches[i].events = wanted THEN view
                            ELSE [view EXCEPT ![w] = Restrict(@, DOMAIN @ \ {watches[i].id})]
           \/ /\ known = {}
              /\ fresh <= MaxWatch
              /\ fs' = [fs EXCEPT !.watchers[w].last = fresh,
                        !.watchers[w].watches = Append(@, [id |-> fresh, node |-> id, events |-> wanted])]
              /\ view' = IF NameChanges \subseteq wanted /\ is_directory(fs, id)
                         THEN [view EXCEPT ![w] = @ @@ (fresh :> Listing(fs, id))] ELSE view
        /\ UNCHANGED handles

watch_remove(w, id) ==
    /\ w \in DOMAIN fs.watchers
    /\ \E i \in DOMAIN fs.watchers[w].watches : fs.watchers[w].watches[i].id = id
    /\ fs' = [fs EXCEPT !.watchers[w].watches = SelectSeq(@, LAMBDA x : x.id # id),
                        !.watchers[w].queue = push(@, Event(id, "REMOVED", FALSE, 0, None))]
    /\ UNCHANGED <<handles, view>>

\* Queue::pop, and what the reader makes of the event.
read(w) ==
    LET event == Head(fs.watchers[w].queue.events)
    IN  /\ w \in DOMAIN fs.watchers
        /\ fs.watchers[w].queue.events # <<>>
        /\ fs' = [fs EXCEPT !.watchers[w].queue =
                    [events |-> Tail(@.events), lost |-> @.lost /\ event # OVERFLOW]]
        /\ view' = [view EXCEPT ![w] =
                    CASE event = OVERFLOW -> <<>>
                      [] event.kind = "REMOVED" -> Restrict(@, DOMAIN @ \ {event.watch})
                      [] OTHER -> [x \in DOMAIN @ |-> IF x = event.watch THEN Follow(@[x], event) ELSE @[x]]]
        /\ UNCHANGED handles

-----------------------------------------------------------------------------
Next ==
    \/ \E h \in Handles :
          \/ \E path \in Paths, flags \in Flags : open_file(h, path, flags)
          \/ close(h) \/ read_at(h) \/ set_file_mode(h)
          \/ \E offset \in Sizes, size \in Sizes \ {0} : write_at(h, offset, size)
          \/ \E size \in Sizes : set_size(h, size)
    \/ \E path \in Paths :
          \/ remove(path) \/ create_directory(path) \/ remove_directory(path)
          \/ set_current_directory(path)
          \/ \E last \in {"Follow", "Keep"} : set_mode(path, last)
          \/ \E to \in Paths : rename(path, to) \/ link(path, to)
          \/ \E target \in Targets : symlink(target, path)
    \/ \E bytes \in Capacities : set_capacity(bytes)
    \/ \E w \in Watchers :
          \/ watcher_open(w) \/ watcher_close(w) \/ read(w)
          \/ \E path \in Paths, wanted \in Asks, last \in {"Follow", "Keep"} : add(w, path, wanted, last)
          \/ \E id \in 1 .. MaxWatch : watch_remove(w, id)

Spec == Init /\ [][Next]_vars

-----------------------------------------------------------------------------
Live == DOMAIN fs.nodes
Directories == {id \in Live : is_directory(fs, id)}
NamesOf(id) == UNION {{<<d, n>> : n \in {m \in DOMAIN entries(fs, d) : entries(fs, d)[m] = id}} :
                      d \in Directories}

\* The directories from one up to the root, `steps` at most.
RECURSIVE Up(_, _)
Up(id, steps) == IF id = ROOT \/ steps = 0 THEN id ELSE Up(fs.nodes[id].parent, steps - 1)

\* "Entries and open handles keep their node in the table": a node is there as long
\* as something refers to it and no longer, its counts are exact, the directories
\* are a tree whose parents and entries agree, whatever is renamed, replaced,
\* linked and removed while it is open, and the space in use is what the files hold.
TreeIsSound ==
    /\ ROOT \in Directories
    /\ \A d \in Directories : \A n \in DOMAIN entries(fs, d) : entries(fs, d)[n] \in Live
    /\ \A h \in Handles : handles[h] \in Live \union {None}
    /\ \A id \in Live :
          LET node == fs.nodes[id] IN
          /\ node.links = Cardinality(NamesOf(id)) + (IF id = ROOT THEN 1 ELSE 0)
          /\ node.opens = Cardinality({h \in Handles : handles[h] = id})
          /\ node.links + node.opens > 0
    /\ \A d \in Directories \ {ROOT} :
          /\ \E n \in Names : NamesOf(d) = {<<fs.nodes[d].parent, n>>}
          /\ Up(d, MaxId) = ROOT
    /\ fs.used = MapThenSumSet(LAMBDA id : Size(fs.nodes[id]), Live)

\* real_path and current_directory spell a path that leads to the node they were
\* asked about, by names alone: nothing on it is a symbolic link.
Leads(path, id) ==
    /\ path # None
    /\ node_of(fs, path, "Follow") = id
    /\ \A i \in 1 .. Len(path.components) :
          node_of(fs, [path EXCEPT !.components = SubSeq(@, 1, i)], "Create")
             \in (IF i = Len(path.components) THEN {id} ELSE Directories)
RealPathsLead ==
    /\ \A path \in Paths :
          LET place == walk(fs, path, "Follow") IN
          place # None => (place.node # None => Leads(spell(fs, place.parent, place.name), place.node))
    /\ fs.working \in Live => Leads(spell(fs, fs.working, None), fs.working)

\* "A reader gets them complete, in the order they happened": as long as no overflow
\* waits in its queue, what a reader has made of the events it read, and of those it
\* will, is the directory as it is.  An overflow waits exactly when something was
\* lost, and a watch names a node that has a name.
EventsTellTheTree ==
    \A w \in DOMAIN fs.watchers :
        LET watcher == fs.watchers[w]
            queue == watcher.queue
            Of(id) == SelectSeq(queue.events, LAMBDA e : e.watch = id) IN
        /\ queue.lost <=> OVERFLOW \in ToSet(queue.events)
        /\ Len(queue.events) <= QueueLimit + 1
        /\ \A i \in DOMAIN watcher.watches :
              LET watch == watcher.watches[i] IN
              /\ watch.node \in Live /\ fs.nodes[watch.node].links > 0
              /\ \A j \in DOMAIN watcher.watches : watcher.watches[j].node = watch.node => i = j
              /\ watch.id \in DOMAIN view[w] /\ ~queue.lost =>
                    FoldLeft(Follow, view[w][watch.id], Of(watch.id)) = Listing(fs, watch.node)
=============================================================================
