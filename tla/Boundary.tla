------------------------------ MODULE Boundary ------------------------------
(***************************************************************************)
(* What every front end shares: the status codes, the conversions between  *)
(* a status and a provider's Result, the checks of pointers, buffers and   *)
(* texts, and the shape of a handler.  A handler is an operator from its   *)
(* arguments and the provider's Result to a reply; a Result is             *)
(* [status, value], the value a sequence of numbers, empty with an error.  *)
(*                                                                         *)
(* Pointers are Booleans: an output is aligned and not NULL or it is not,  *)
(* a handle is NULL or not, a buffer is readable for its size or not.      *)
(* Sizes are numbers, the limits of the code scaled down to the constants  *)
(* below so that every size can be on either side of every limit.          *)
(***************************************************************************)
EXTENDS Naturals, Sequences

OK == 0
UNSUPPORTED == 1
INVALID_ARGUMENT == 2
OS_ERROR == 3
OUT_OF_MEMORY == 4
TIMEOUT == 5
BUSY == 6
BUFFER_TOO_SMALL == 7
NOT_FOUND == 8
ALREADY_EXISTS == 9
ACCESS_DENIED == 10
IS_DIRECTORY == 11
NOT_DIRECTORY == 12
NOT_EMPTY == 13
NO_SPACE == 14
WOULD_BLOCK == 15
BROKEN_PIPE == 16
CONNECTION_REFUSED == 17
CONNECTION_RESET == 18
CONNECTION_ABORTED == 19
NOT_CONNECTED == 20
ALREADY_CONNECTED == 21
ADDRESS_IN_USE == 22
ADDRESS_NOT_AVAILABLE == 23
NETWORK_UNREACHABLE == 24
HOST_UNREACHABLE == 25
IN_PROGRESS == 26
TOO_MANY_HANDLES == 27
NAME_TOO_LONG == 28
READ_ONLY == 29
CROSS_DEVICE == 30
MESSAGE_TOO_LARGE == 31

\* The statuses of `enum Error`, and what a foreign status becomes.
Error == 1..31
from_status(code) == IF code \in Error \union {OK} THEN code ELSE OS_ERROR

Base == {OK, UNSUPPORTED, INVALID_ARGUMENT, OS_ERROR}

ISIZE_MAX == 3
I64_MAX == 3
MAX_NAME == 2
MAX_GROUPS == 2
MAX_ENTRY_NAME == 2
Sizes == 0..ISIZE_MAX + 1

\* Results of a provider that answers with one of the values V, or with any error.
Results(V) ==
    {[status |-> OK, value |-> v] : v \in V}
        \union {[status |-> e, value |-> <<>>] : e \in Error}
Plain == Results({<<>>})
Counts == Results({<<n>> : n \in Sizes})
Handles == Results({<<0>>, <<1>>})

\* A byte borrow: whether its pointer is good for its length, and what it holds.
Texts ==
    {[p |-> TRUE, length |-> 1, nul |-> FALSE, equals |-> FALSE],
     [p |-> TRUE, length |-> 1, nul |-> FALSE, equals |-> TRUE],
     [p |-> TRUE, length |-> 1, nul |-> TRUE, equals |-> FALSE],
     [p |-> TRUE, length |-> 0, nul |-> FALSE, equals |-> FALSE],
     [p |-> TRUE, length |-> MAX_NAME + 1, nul |-> FALSE, equals |-> FALSE],
     [p |-> FALSE, length |-> 0, nul |-> FALSE, equals |-> FALSE],
     [p |-> FALSE, length |-> 1, nul |-> FALSE, equals |-> FALSE]}

path(t) == t.p /\ t.length \in 1..MAX_NAME /\ ~t.nul
valid_buffer(p, n) == n <= ISIZE_MAX /\ (n = 0 \/ p)

\* How far a call gets: an output it may not touch, arguments it refuses, a
\* request that asks for nothing, or a question to the provider.
Check(ready, valid, nothing) ==
    IF ~ready THEN "unready"
    ELSE IF ~valid THEN "invalid"
    ELSE IF nothing THEN "nothing" ELSE "ask"

\* The reply of a call that ends with `record`: statuses outside `passes` are
\* folded, and `out` is what the outputs hold (<<>>: untouched or cleared).
\* id is <<group, trait, callback, counter>>, the counter that of its successes,
\* and n the size the caller gave.
UNCOUNTED == 99
Finish(id, n, passes, check, verdict, out) ==
    LET status == CASE check = "ask" -> verdict
                    [] check = "nothing" -> OK
                    [] OTHER -> INVALID_ARGUMENT
    IN [id |-> id, size |-> n, check |-> check,
        status |-> IF status \in passes THEN status ELSE OS_ERROR,
        out |-> IF check = "ask" THEN out ELSE <<>>]

\* The common handler: an OK answer that is not good is the provider's error,
\* and only a good one is written.
Answer(r, good) == IF r.status # OK THEN r.status ELSE IF good THEN OK ELSE OS_ERROR
Reply(id, n, passes, check, r, good, out) ==
    Finish(id, n, passes, check, Answer(r, good), IF Answer(r, good) = OK THEN out ELSE <<>>)

\* A handler without outputs.
Do(id, passes, valid, r) == Reply(id, 0, passes, Check(TRUE, valid, FALSE), r, TRUE, <<>>)

\* `io::text`.  A provider answers <<length, shape, text>>; when the text fits
\* it has written `length` bytes, of which shape says whether they are one text
\* with its NUL at the end.
WHOLE == 0
INNER_NUL == 1
UNTERMINATED == 2
text_answer(n, limit, r) ==
    IF r.status # OK THEN r.status
    ELSE IF r.value[1] \notin 2..limit THEN OS_ERROR
    ELSE IF r.value[1] > n THEN BUFFER_TOO_SMALL
    ELSE IF r.value[2] = WHOLE THEN OK ELSE OS_ERROR
text(id, n, passes, check, limit, r) ==
    LET s == text_answer(n, limit, r)
    IN Finish(id, n, passes, check, s,
              IF s = OK THEN <<r.value[1], r.value[3]>>
              ELSE IF s = BUFFER_TOO_SMALL /\ r.status = OK THEN <<r.value[1]>> ELSE <<>>)
TextResults == Results({<<n, s, 1>> : n \in 0..MAX_NAME + 2, s \in {WHOLE, INNER_NUL, UNTERMINATED}})

\* What `negotiate` makes of the providers a port names: the callbacks of the
\* traits it provides, NULL elsewhere; read_stats is always there.
Offer(p, callbacks) ==
    {"read_stats"} \union UNION {callbacks[t] : t \in p \intersect DOMAIN callbacks}
=============================================================================
