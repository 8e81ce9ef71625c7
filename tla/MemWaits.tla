------------------------------ MODULE MemWaits ------------------------------
(***************************************************************************)
(* What callers of dotnet-pal-memfs wait for: the lock of a file and the   *)
(* events of a watcher.                                                    *)
(***************************************************************************)
EXTENDS Integers, FiniteSets, FiniteSetsExt

-----------------------------------------------------------------------------
\* The advisory locks of a file: locks of the whole file, which a handle may wait
\* for, and locks of ranges.  The two kinds do not see each other.  A call, or one
\* attempt of a call that waits, is a step.
CONSTANTS
    Handles,
    END            \* u64::MAX: where the whole file ends

ASSUME FilesHaveBytes == END \in Nat \ {0}

VARIABLES
    locks,         \* node.locks
    access,        \* what each handle was opened for; {} is a closed one
    waits,         \* the mode a handle waits for in `lock`, or "UNLOCK"
    covered        \* history: what each handle holds of each byte, and of the file

locks_vars == <<locks, access, waits, covered>>

Bytes == 0 .. END - 1
Modes == {"UNLOCK", "SHARED", "EXCLUSIVE"}
Lock(owner, whole, start, end, exclusive) ==
    [owner |-> owner, whole |-> whole, start |-> start, end |-> end, exclusive |-> exclusive]

LocksInit ==
    /\ locks = {}
    /\ access = [h \in Handles |-> {}]
    /\ waits = [h \in Handles |-> "UNLOCK"]
    /\ covered = [h \in Handles |-> [whole \in BOOLEAN |-> [b \in Bytes |-> "UNLOCK"]]]

meets(held, wanted) ==
    held.whole = wanted.whole /\ held.start < wanted.end /\ wanted.start < held.end

\* Mutant: of a lock that is split the end is forgotten.
pieces_Head(held, wanted) ==
    {piece \in {[held EXCEPT !.end = wanted.start]} : piece.start < piece.end}
\* What is left of a lock of the owner beside the bytes that are wanted.
pieces(held, wanted) ==
    {piece \in {[held EXCEPT !.end = wanted.start], [held EXCEPT !.start = wanted.end]} : piece.start < piece.end}

\* State::relock: is another handle's lock in the way, and what the locks become.
Blocked(held, wanted) ==
    \E other \in held : /\ other.owner # wanted.owner /\ meets(other, wanted)
                        /\ other.exclusive \/ wanted.exclusive
Relocked(held, mode, wanted) ==
    LET own == {lock \in held : lock.owner = wanted.owner /\ meets(lock, wanted)}
    IN  (held \ own) \union (UNION {pieces(lock, wanted) : lock \in own})
        \union (IF mode = "UNLOCK" THEN {} ELSE {wanted})

Covers(cover, wanted, mode) ==
    [cover EXCEPT ![wanted.owner][wanted.whole] =
        [b \in Bytes |-> IF wanted.start <= b /\ b < wanted.end THEN mode ELSE @[b]]]
Whole(h, mode) == Lock(h, TRUE, 0, END, mode = "EXCLUSIVE")
Idle(h) == access[h] # {} /\ waits[h] = "UNLOCK"

-----------------------------------------------------------------------------
open(h, rights) ==
    /\ access[h] = {}
    /\ access' = [access EXCEPT ![h] = rights]
    /\ UNCHANGED <<locks, waits, covered>>

close(h) ==
    /\ Idle(h)
    /\ access' = [access EXCEPT ![h] = {}]
    /\ locks' = {lock \in locks : lock.owner # h}
    /\ covered' = [covered EXCEPT ![h] = [whole \in BOOLEAN |-> [b \in Bytes |-> "UNLOCK"]]]
    /\ UNCHANGED waits

\* "A handle that asks for the other mode gives up the one it holds first".
given_up(held, h) == Relocked(held, "UNLOCK", Whole(h, "UNLOCK"))

\* One attempt of lock.  Either relock may find no memory, the second one when the
\* handle has given up what it had.
Attempt(h, mode, wait) ==
    LET free == given_up(locks, h)
        without == Covers(covered, Whole(h, mode), "UNLOCK")
        blocked == mode # "UNLOCK" /\ Blocked(free, Whole(h, mode))
    IN  /\ \/ /\ ~blocked
              /\ locks' = Relocked(free, mode, Whole(h, mode))
              /\ covered' = Covers(covered, Whole(h, mode), mode)
              /\ waits' = [waits EXCEPT ![h] = "UNLOCK"]
           \/ /\ blocked
              /\ locks' = free /\ covered' = without
              /\ waits' = [waits EXCEPT ![h] = IF wait THEN mode ELSE "UNLOCK"]
           \/ \* OutOfMemory
              /\ \/ UNCHANGED <<locks, covered>>
                 \/ locks' = free /\ covered' = without
              /\ waits' = [waits EXCEPT ![h] = "UNLOCK"]
        /\ UNCHANGED access

lock_file(h, mode, wait) == Idle(h) /\ Attempt(h, mode, wait)
\* The loop goes round after `pause`.
again(h) == waits[h] # "UNLOCK" /\ Attempt(h, waits[h], TRUE)

\* A range that is empty, or overflows, is refused.
lock_range(h, offset, end, mode) ==
    LET wanted == Lock(h, FALSE, offset, end, mode = "EXCLUSIVE") IN
    /\ Idle(h)
    /\ mode = "SHARED" => "READ" \in access[h]
    /\ mode = "EXCLUSIVE" => "WRITE" \in access[h]
    /\ offset < end
    /\ mode # "UNLOCK" => ~Blocked(locks, wanted)
    /\ locks' = Relocked(locks, mode, wanted)
    /\ covered' = Covers(covered, wanted, mode)
    /\ UNCHANGED <<access, waits>>

LocksNext ==
    \E h \in Handles :
        \/ \E rights \in {{"READ"}, {"READ", "WRITE"}} : open(h, rights)
        \/ close(h) \/ again(h)
        \/ \E mode \in Modes :
              \/ \E wait \in BOOLEAN : lock_file(h, mode, wait)
              \/ \E offset, until_byte \in 0 .. END : lock_range(h, offset, until_byte, mode)

-----------------------------------------------------------------------------
\* An exclusive lock excludes, a handle never has two locks on a byte, and it holds
\* what it asked for, byte by byte: what a call splits, joins or replaces leaves the
\* other bytes alone, and a refused range leaves everything as it was (`relock`).
LocksAreExact ==
    /\ \A one, two \in locks : one # two /\ meets(one, two) =>
          one.owner # two.owner /\ ~one.exclusive /\ ~two.exclusive
    /\ \A h \in Handles, whole \in BOOLEAN, b \in Bytes :
          covered[h][whole][b] =
              LET own == {l \in locks : l.owner = h /\ l.whole = whole /\ l.start <= b /\ b < l.end}
              IN  IF own = {} THEN "UNLOCK"
                  ELSE IF \E l \in own : l.exclusive THEN "EXCLUSIVE" ELSE "SHARED"
    /\ \A l \in locks : access[l.owner] # {} /\ l.start < l.end

\* "two handles that convert at once do not wait for each other forever" (`lock`).
SomeoneGetsOn == []<>(\E h \in Handles : waits[h] = "UNLOCK")

-----------------------------------------------------------------------------
\* The read of a watcher, which has "nothing to block on": it looks at its queue
\* between the port's wait hook, or its yield, and goes by the slices it has waited
\* or by the port's clock.
CONSTANTS
    MAX_WAIT,      \* the longest timeout that ends; one more is INFINITE (u64::MAX)
    WAIT_SLICE,
    MaxQueued      \* bound

ASSUME WaitsAreNumbers == MAX_WAIT \in Nat /\ WAIT_SLICE \in Nat /\ MaxQueued \in Nat

VARIABLES
    wait_hook, has_clock,   \* what the port has set
    queued,        \* the events of the watcher
    looking, timeout, left, until,   \* where the read is, and its locals
    waited         \* history: how long the hook was told to wait

reads_vars == <<wait_hook, has_clock, queued, looking, timeout, left, until, waited>>
FOREVER == MAX_WAIT + 1

ReadsInit ==
    /\ wait_hook \in BOOLEAN /\ has_clock \in BOOLEAN
    /\ queued = 0
    /\ looking = "idle" /\ timeout = 0 /\ left = 0 /\ until = "none" /\ waited = 0

Ports == UNCHANGED <<wait_hook, has_clock>>

event ==
    /\ queued < MaxQueued
    /\ queued' = queued + 1
    /\ Ports /\ UNCHANGED <<looking, timeout, left, until, waited>>

read(limit) ==
    /\ looking = "idle"
    /\ looking' = "look" /\ timeout' = limit /\ left' = limit /\ until' = "none" /\ waited' = 0
    /\ Ports /\ UNCHANGED queued

\* A look at the queue with the tree's lock, and what comes of an empty one.
look ==
    /\ looking = "look"
    /\ IF queued > 0 THEN queued' = queued - 1 /\ looking' = "idle" /\ UNCHANGED until
       ELSE /\ UNCHANGED queued
            /\ until' = IF left = 0 \/ wait_hook \/ timeout = FOREVER \/ ~has_clock \/ until # "none"
                           THEN until ELSE "ahead"
            /\ looking' = CASE left = 0 -> "idle"
                            [] wait_hook -> "hook"
                            [] timeout = FOREVER -> "pause"
                            [] ~has_clock \/ until = "passed" -> "idle"
                            [] OTHER -> "pause"
    /\ Ports /\ UNCHANGED <<timeout, left, waited>>

\* Mutant: a whole slice is asked for when less is left.
slice_Whole(rest) == WAIT_SLICE
slice(rest) == Min({rest, WAIT_SLICE})

\* The hook has waited a slice.
hook_waits ==
    /\ looking = "hook"
    /\ looking' = "look"
    /\ IF timeout = FOREVER THEN UNCHANGED <<left, waited>>
       ELSE left' = left - slice(left) /\ waited' = waited + slice(left)
    /\ Ports /\ UNCHANGED <<queued, timeout, until>>

pause ==
    /\ looking = "pause"
    /\ looking' = "look"
    /\ Ports /\ UNCHANGED <<queued, timeout, left, until, waited>>

\* The port's clock reaches the deadline.
tick ==
    /\ looking # "idle" /\ until = "ahead"
    /\ until' = "passed"
    /\ Ports /\ UNCHANGED <<queued, looking, timeout, left, waited>>

ReadsNext == event \/ look \/ hook_waits \/ pause \/ tick \/ \E limit \in 0 .. FOREVER : read(limit)
ReadsStep == look \/ hook_waits \/ pause

-----------------------------------------------------------------------------
\* The hook is never told to wait longer than the caller asked for, whatever the
\* slices are (`left -= slice`).
WaitsAreBounded == left >= 0 /\ waited <= timeout

\* A read ends, but one for ever with nothing to read (`Watches::read`).
ReadsEnd == []<>(looking = "idle" \/ (timeout = FOREVER /\ queued = 0))
=============================================================================
