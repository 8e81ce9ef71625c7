----------------------------- MODULE Consumers ------------------------------
(***************************************************************************)
(* Loops of the native bridge over the table: CopyFile, the texts of the    *)
(* system group and GetEnviron (crates/dotnet-pal-build/native).  Their    *)
(* calls go through the handlers of the front ends; behind those a file    *)
(* moves less than asked, an environment changes between two questions,    *)
(* and anything may fail, the native heap included.                        *)
(***************************************************************************)
EXTENDS SystemGroups, SequencesExt

CHUNK == 2             \* bytes CopyFile moves at a time
MAX_ENTRIES == 3       \* entries GetEnviron looks at
FIRST_CAPACITY == 1    \* entries of its first list

VARIABLES
    job,        \* "copy", "text" or "environ"
    pc,         \* where the loop stands; "done" when it returned
    source,     \* what is being read: the file, or the lengths of the texts
    read_to,    \* cursor of the source, or index of the entry
    target,     \* the copy, or the list being built
    chunk,      \* bytes read and not written yet
    needed,     \* length the boundary asked for
    capacity,   \* room of the list
    heap,       \* allocations that live
    skipped,    \* entries the boundary did not hand over
    result      \* what the caller gets: 0, -1, "text", "list" or "NULL"

vars == <<job, pc, source, read_to, target, chunk, needed, capacity, heap, skipped, result>>

Lengths == 2..3
Init ==
    /\ job \in {"copy", "text", "environ"}
    /\ source \in CASE job = "copy" -> {[i \in 1..n |-> i] : n \in 0..3}
                    [] job = "text" -> {<<n>> : n \in Lengths}
                    [] job = "environ" -> UNION {[1..n -> Lengths \union {MAX_ENVIRONMENT_ENTRY + 1}] : n \in 0..3}
    /\ pc = "start" /\ read_to = 0 /\ target = <<>> /\ chunk = <<>> /\ needed = 0
    /\ capacity = 0 /\ heap = 0 /\ skipped = {} /\ result = "none"

return(r) == pc' = "done" /\ result' = r
goto(label) == pc' = label /\ UNCHANGED result

-----------------------------------------------------------------------------
copy_start ==
    /\ job = "copy" /\ pc = "start"
    /\ \/ heap' = heap + 1 /\ goto("read")
       \/ UNCHANGED heap /\ return("-1")
    /\ UNCHANGED <<job, source, read_to, target, chunk, needed, capacity, skipped>>

\* The file answers with some of what is left, with more than was asked for (a
\* provider's mistake), or with an error.
file_read ==
    /\ job = "copy" /\ pc = "read"
    /\ \E r \in {[status |-> OK, value |-> <<n>>] : n \in {m \in 0..CHUNK + 1 : m <= Len(source) - read_to}}
                   \union {[status |-> OS_ERROR, value |-> <<>>]} :
         /\ r.status = OK /\ r.value[1] = 0 => read_to = Len(source)
         /\ LET q == read_at(TRUE, read_to, TRUE, CHUNK, TRUE, r)
                got == IF q.status = OK THEN q.out[1] ELSE 0
            IN /\ chunk' = SubSeq(source, read_to + 1, read_to + got)
               /\ read_to' = read_to + got
               /\ IF q.status # OK THEN return("-1") /\ heap' = heap - 1
                  ELSE IF got = 0 THEN return("0") /\ heap' = heap - 1
                  ELSE goto("write") /\ UNCHANGED heap
    /\ UNCHANGED <<job, source, target, needed, capacity, skipped>>

\* Mutant: the position stays where it is after a write.
advance_Stays(by) == 0
advance(by) == by
file_write ==
    /\ job = "copy" /\ pc = "write"
    /\ \E r \in {[status |-> OK, value |-> <<n>>] : n \in 0..CHUNK + 1} \union {[status |-> NO_SPACE, value |-> <<>>]} :
         LET q == write_at(TRUE, Len(target), TRUE, Len(chunk), TRUE, r)
             put == IF q.status = OK THEN q.out[1] ELSE 0
         IN /\ target' = target \o SubSeq(chunk, 1, put)
            /\ chunk' = SubSeq(chunk, advance(put) + 1, Len(chunk))
            /\ IF put = 0 THEN return("-1") /\ heap' = heap - 1
               ELSE goto(IF put < Len(chunk) THEN "write" ELSE "read") /\ UNCHANGED heap
    /\ UNCHANGED <<job, source, read_to, needed, capacity, skipped>>

-----------------------------------------------------------------------------
\* The system answers truthfully about the text it has, or fails.
Truth(i) ==
    {[status |-> OK, value |-> <<source[i], WHOLE, 1>>], [status |-> OS_ERROR, value |-> <<>>]}
ask_text(n, r) == system_text(1, n > 0, n, TRUE, r)

text_ask ==
    /\ job = "text" /\ pc = "start"
    /\ \E r \in Truth(1), malloc \in BOOLEAN :
         LET q == ask_text(0, r)
         IN IF q.status # BUFFER_TOO_SMALL \/ ~malloc THEN return("NULL") /\ UNCHANGED <<needed, heap>>
            ELSE goto("fetch") /\ needed' = q.out[1] /\ heap' = heap + 1
    /\ UNCHANGED <<job, source, read_to, target, chunk, capacity, skipped>>
text_fetch ==
    /\ job = "text" /\ pc = "fetch"
    /\ \E r \in Truth(1) :
         LET q == ask_text(needed, r)
         IN IF q.status = OK THEN return("text") /\ target' = <<q.out[1]>> /\ UNCHANGED heap
            ELSE return("NULL") /\ heap' = heap - 1 /\ UNCHANGED target
    /\ UNCHANGED <<job, source, read_to, chunk, needed, capacity, skipped>>

-----------------------------------------------------------------------------
\* Mutant: the list is freed without its entries.
FreeEnviron_ListOnly == return("NULL") /\ heap' = heap - 1
FreeEnviron == return("NULL") /\ heap' = heap - 1 - Len(target)

environ_start ==
    /\ job = "environ" /\ pc = "start"
    /\ \/ heap' = heap + 1 /\ capacity' = FIRST_CAPACITY /\ goto("ask")
       \/ UNCHANGED <<heap, capacity>> /\ return("NULL")
    /\ UNCHANGED <<job, source, read_to, target, chunk, needed, skipped>>

entries(i) == IF i < Len(source) THEN Truth(i + 1) ELSE {[status |-> NOT_FOUND, value |-> <<>>]}
next_index(i) == i + 1
environ_ask ==
    /\ job = "environ" /\ pc = "ask"
    /\ IF read_to >= MAX_ENTRIES
       THEN FreeEnviron /\ UNCHANGED <<read_to, needed, skipped>>
       ELSE \E r \in entries(read_to), malloc \in BOOLEAN :
              LET q == environment_entry(FALSE, 0, TRUE, r)
              IN CASE q.status = NOT_FOUND ->
                        return("list") /\ UNCHANGED <<read_to, needed, heap, skipped>>
                   [] q.status \notin {NOT_FOUND, BUFFER_TOO_SMALL} ->
                        /\ goto("ask") /\ read_to' = next_index(read_to) /\ skipped' = skipped \union {read_to}
                        /\ UNCHANGED <<needed, heap>>
                   [] q.status = BUFFER_TOO_SMALL /\ ~malloc ->
                        FreeEnviron /\ UNCHANGED <<read_to, needed, skipped>>
                   [] OTHER ->
                        goto("fetch") /\ needed' = q.out[1] /\ heap' = heap + 1 /\ UNCHANGED <<read_to, skipped>>
    /\ UNCHANGED <<job, source, target, chunk, capacity>>

\* Mutant: an entry that has changed since it was asked for is asked for again.
environ_fetch_Retries ==
    /\ job = "environ" /\ pc = "fetch"
    /\ \E r \in entries(read_to) :
         LET q == environment_entry(TRUE, needed, TRUE, r)
         IN /\ goto("ask")
            /\ IF q.status # OK
               THEN heap' = heap - 1 /\ UNCHANGED <<read_to, target>>
               ELSE /\ read_to' = next_index(read_to) /\ UNCHANGED heap
                    /\ target' = Append(target, [index |-> read_to, length |-> q.out[1]])
    /\ UNCHANGED <<job, source, chunk, needed, capacity, skipped>>

\* The entry goes on the list, which doubles when it is full.
environ_fetch ==
    /\ job = "environ" /\ pc = "fetch"
    /\ \E r \in entries(read_to), calloc \in BOOLEAN :
         LET q == environment_entry(TRUE, needed, TRUE, r)
             full == Len(target) = capacity
         IN IF q.status # OK \/ (full /\ ~calloc)
            THEN return("NULL") /\ heap' = heap - 2 - Len(target) /\ UNCHANGED <<read_to, target, capacity>>
            ELSE /\ goto("ask") /\ read_to' = next_index(read_to) /\ UNCHANGED heap
                 /\ target' = Append(target, [index |-> read_to, length |-> q.out[1]])
                 /\ capacity' = IF full THEN capacity * 2 ELSE capacity
    /\ UNCHANGED <<job, source, chunk, needed, skipped>>

\* A text that is not the same length the second time.
Change ==
    /\ job # "copy" /\ pc = "fetch"
    /\ \E i \in DOMAIN source, n \in Lengths : n # source[i] /\ source' = [source EXCEPT ![i] = n]
    /\ UNCHANGED <<job, pc, read_to, target, chunk, needed, capacity, heap, skipped, result>>

Step ==
    \/ copy_start \/ file_read \/ file_write
    \/ text_ask \/ text_fetch
    \/ environ_start \/ environ_ask \/ environ_fetch
Next == Step \/ Change
Fairness == WF_vars(Step)

-----------------------------------------------------------------------------
TypeOK ==
    /\ pc \in {"start", "read", "write", "ask", "fetch", "done"}
    /\ read_to \in 0..3 /\ heap \in 0..5 /\ skipped \subseteq 0..2

\* What the loops hand back is whole whatever the boundary does in between: a copy
\* that reports success is the file, and at every moment a part of it from the
\* start (a short write continues where it ended); a text was fetched entire into
\* the room that was made for it; an environment has every entry in order but
\* those the boundary refused to hand over.
ResultsAreWhole ==
    /\ job = "copy" => IsPrefix(target, source) /\ (result = "0" => target = source)
    /\ result = "text" => target[1] <= needed
    /\ job = "environ" =>
         /\ \A i \in 1..Len(target) - 1 : target[i].index < target[i + 1].index
         /\ result = "list" => {target[i].index : i \in DOMAIN target} \union skipped = 0..Len(source) - 1
         /\ Len(target) <= capacity

\* Nothing leaks: a loop that returned has freed all it allocated but what it
\* hands to its caller, on every way out (SystemNative_Free, FreeEnviron).
NothingLeaks ==
    pc = "done" => heap = CASE result = "text" -> 1
                            [] result = "list" -> 1 + Len(target)
                            [] OTHER -> 0

\* Every loop ends: a write of nothing is an error and not a reason to try again,
\* and an environment whose entries all fail is given up at the last index.
LoopsEnd == <>(pc = "done")
=============================================================================
