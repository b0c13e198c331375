------------------------------ MODULE Descriptors ------------------------------
(***************************************************************************)
(* The table of open file descriptors of the buzzer process, as the Linux   *)
(* kernel keeps it (external: buzzer only sees it through the numbers its   *)
(* system calls return and close).  The fuzzing loop, the C layer and the   *)
(* HTTP server all draw from this one table, and a number that is closed is *)
(* handed out again at once: that is what makes a stale or a wrong number   *)
(* dangerous.                                                               *)
(***************************************************************************)
EXTENDS Integers

CONSTANT MaxFd   \* the largest descriptor (RLIMIT_NOFILE - 1)

ASSUME MaxFdAssumption == MaxFd \in Nat /\ MaxFd >= 3

Fd == 0 .. MaxFd

\* What a failed system call returns; closing it is EBADF and changes nothing.
NoFd == -1

FdOrNone == Fd \cup {NoFd}

\* What a descriptor refers to.  "std": the three standard streams; "peer":
\* a connection, pipe or file of another goroutine of the process.
Owners == {"free", "std", "map", "prog", "btf", "kcov", "sock", "peer"}

\* 0, 1 and 2 are open when main starts.
AtStart == [f \in Fd |-> IF f \in 0 .. 2 THEN "std" ELSE "free"]

\* POSIX: a new descriptor is the lowest number that is not in use.
IsLowestFree(table, f) ==
    /\ f \in Fd
    /\ table[f] = "free"
    /\ \A g \in Fd : table[g] = "free" => f <= g

Open(table, f, owner) == [table EXCEPT ![f] = owner]

\* close(n): whatever n refers to now is what gets closed.
Close(table, n) == [f \in Fd |-> IF f = n THEN "free" ELSE table[f]]

Owned(table, owner) == {f \in Fd : table[f] = owner}

================================================================================
