------------------------------ MODULE TTYLocker ------------------------------
(***************************************************************************)
(* Who has a serial port: UnixSerialPortEngine::open() and close() of      *)
(* several processes on one device, with the lock file of TTYLocker, the   *)
(* exclusive flag of the tty (TIOCEXCL), failures of the system calls and  *)
(* crashes.  This is the build without baudboy and lockdev, where          *)
(* ttylocker_p_unix.cpp handles the files itself.                          *)
(*                                                                         *)
(* A member of Procs is a process slot: after a crash the slot is taken by *)
(* a new process with a new pid, so a file that holds the old pid becomes  *)
(* Stale.  All processes are taken to find the same first writable lock    *)
(* directory (get_first_shared_lock_dir) and none of them is root, whom    *)
(* TIOCEXCL does not stop.                                                 *)
(***************************************************************************)
EXTENDS Integers, FiniteSets

CONSTANTS
    Procs,      \* the processes
    NoFile,     \* there is no lock file
    Torn,       \* it has been truncated and not yet written
    Stale       \* it holds the pid of a process that is dead

ASSUME ContentsDiffer ==
    /\ {NoFile, Torn, Stale} \cap Procs = {}
    /\ NoFile # Torn /\ NoFile # Stale /\ Torn # Stale

VARIABLES
    pc,         \* where each process is in open() or close()
    lockFile,   \* the lock file: NoFile, Torn, Stale or the pid it holds
    handles,    \* the processes inside m_lock() whose QFile is still linked
    leaked,     \* processes that lost an open descriptor in a failed open()
    excl,       \* TIOCEXCL is set on the device
    overlapped  \* history: two calls of open() or close() have overlapped

lockVars == <<pc, lockFile, handles, leaked, excl, overlapped>>

Phases == {"closed", "checked", "opened", "locking", "locked", "open",
           "unlocking", "removing"}

\* The process is inside a call of open() or close().
Busy(p) == pc[p] \notin {"closed", "open"}

\* The process has a descriptor of the device.
Holds(p) == pc[p] \in {"opened", "locking", "locked", "open"} \/ p \in leaked

OthersBusy(p) == \E q \in Procs \ {p} : Busy(q)
OthersHold(p) == \E q \in Procs \ {p} : Holds(q)

Goto(p, phase) == pc' = [pc EXCEPT ![p] = phase]

(***************************************************************************)
(* m_islocked(): a file whose pid belongs to a live process.  A file that  *)
(* cannot be parsed, as a torn one, does not lock.                         *)
(***************************************************************************)
IsLockedByAnyPid == lockFile \in Procs \union {Stale}

IsLocked == lockFile \in Procs
LockedByMe(p) == lockFile = p

LockInit ==
    /\ pc = [p \in Procs |-> "closed"]
    /\ lockFile \in {NoFile, Torn, Stale}
    /\ handles = {}
    /\ leaked = {}
    /\ excl = FALSE
    /\ overlapped = FALSE

(***************************************************************************)
(* open(): the first look at the lock, and the two outcomes of it.         *)
(***************************************************************************)
OpenRefused(p) ==
    /\ pc[p] = "closed"
    /\ IsLocked
    /\ UNCHANGED lockVars

OpenCheck(p) ==
    /\ pc[p] = "closed"
    /\ ~IsLocked
    /\ Goto(p, "checked")
    /\ overlapped' = (overlapped \/ OthersBusy(p))
    /\ UNCHANGED <<lockFile, handles, leaked, excl>>

\* ::open() of the device fails: there is none, no permission, or TIOCEXCL.
DescriptorFails(p) ==
    /\ pc[p] = "checked"
    /\ Goto(p, "closed")
    /\ UNCHANGED <<lockFile, handles, leaked, excl, overlapped>>

DescriptorOpens(p) ==
    /\ pc[p] = "checked"
    /\ ~excl
    /\ Goto(p, "opened")
    /\ UNCHANGED <<lockFile, handles, leaked, excl, overlapped>>

(***************************************************************************)
(* m_lock(): the file is truncated, then written.  Its result is ignored.  *)
(* A file that is removed in between is written unlinked.                  *)
(***************************************************************************)
LockOpens(p) ==
    /\ pc[p] = "opened"
    /\ Goto(p, "locking")
    /\ lockFile' = Torn
    /\ handles' = handles \union {p}
    /\ UNCHANGED <<leaked, excl, overlapped>>

LockFails(p) ==
    /\ pc[p] = "opened"
    /\ Goto(p, "locked")
    /\ UNCHANGED <<lockFile, handles, leaked, excl, overlapped>>

LockWrites(p) ==
    /\ pc[p] = "locking"
    /\ Goto(p, "locked")
    /\ lockFile' = IF p \in handles THEN p ELSE lockFile
    /\ handles' = handles \ {p}
    /\ UNCHANGED <<leaked, excl, overlapped>>

(***************************************************************************)
(* open(): the second look, which does not ask whose lock it is, then      *)
(* TIOCEXCL and the settings.  A failure from here on returns false and    *)
(* leaves descriptor, lock file and TIOCEXCL as they are.                  *)
(***************************************************************************)
VerifyFails(p) ==
    /\ pc[p] = "locked"
    /\ ~IsLocked
    /\ Goto(p, "closed")
    /\ leaked' = leaked \union {p}
    /\ UNCHANGED <<lockFile, handles, excl, overlapped>>

SettingsFail(p) ==
    /\ pc[p] = "locked"
    /\ IsLocked
    /\ Goto(p, "closed")
    /\ leaked' = leaked \union {p}
    /\ excl' = TRUE
    /\ UNCHANGED <<lockFile, handles, overlapped>>

OpenShared(p) ==
    /\ pc[p] = "locked"
    /\ IsLocked
    /\ Goto(p, "open")
    /\ UNCHANGED <<lockFile, handles, leaked, excl, overlapped>>

OpenDone(p) ==
    /\ pc[p] = "locked"
    /\ IsLocked
    /\ Goto(p, "open")
    /\ excl' = TRUE
    /\ UNCHANGED <<lockFile, handles, leaked, overlapped>>

(***************************************************************************)
(* close(): TIOCNXCL and the descriptor, then the lock file if it is ours. *)
(***************************************************************************)
CloseDescriptor(p) ==
    /\ pc[p] = "open"
    /\ Goto(p, "unlocking")
    /\ excl' = FALSE
    /\ overlapped' = (overlapped \/ OthersBusy(p))
    /\ UNCHANGED <<lockFile, handles, leaked>>

CloseUnlock(p) ==
    /\ pc[p] = "unlocking"
    /\ Goto(p, IF LockedByMe(p) THEN "removing" ELSE "closed")
    /\ UNCHANGED <<lockFile, handles, leaked, excl, overlapped>>

CloseRemove(p) ==
    /\ pc[p] = "removing"
    /\ Goto(p, "closed")
    /\ lockFile' = NoFile
    /\ handles' = {}
    /\ UNCHANGED <<leaked, excl, overlapped>>

\* The kernel closes the descriptors of a process that dies; its lock file
\* stays, and the exclusive flag goes with the last descriptor.
Crash(p) ==
    /\ Busy(p) \/ Holds(p)
    /\ Goto(p, "closed")
    /\ lockFile' = IF LockedByMe(p) THEN Stale ELSE lockFile
    /\ handles' = handles \ {p}
    /\ leaked' = leaked \ {p}
    /\ excl' = (excl /\ OthersHold(p))
    /\ UNCHANGED overlapped

OpenStep(p) ==
    \/ OpenRefused(p) \/ OpenCheck(p)
    \/ DescriptorFails(p) \/ DescriptorOpens(p)
    \/ LockOpens(p) \/ LockFails(p) \/ LockWrites(p)
    \/ VerifyFails(p) \/ SettingsFail(p) \/ OpenDone(p)

CloseStep(p) == CloseDescriptor(p) \/ CloseUnlock(p) \/ CloseRemove(p)

LockNext == \E p \in Procs : OpenStep(p) \/ CloseStep(p) \/ Crash(p)

LockSpec == LockInit /\ [][LockNext]_lockVars

-----------------------------------------------------------------------------
LockTypeOK ==
    /\ pc \in [Procs -> Phases]
    /\ lockFile \in Procs \union {NoFile, Torn, Stale}
    /\ handles \subseteq Procs
    /\ leaked \subseteq Procs
    /\ excl \in BOOLEAN
    /\ overlapped \in BOOLEAN

\* What the class promises, "another process or thread can not access to an
\* already open serial port" (serialport.cpp:719-721): at most one process
\* has the port open.
Exclusive ==
    \A p, q \in Procs : pc[p] = "open" /\ pc[q] = "open" => p = q

\* As long as no two calls of open() or close() overlap, whatever crashes or
\* fails in between, at most one process has the port, the lock file names
\* it and the exclusive flag keeps out programs that ignore lock files.
SerialisedExclusive ==
    ~overlapped =>
        /\ Exclusive
        /\ \A p \in Procs : pc[p] = "open" => LockedByMe(p) /\ excl

\* No lock outlives its owner: once nobody is using the port or has lost a
\* descriptor of it, nobody is refused, wherever the last users crashed.
LockHasOwner ==
    (\A p \in Procs : pc[p] = "closed" /\ p \notin leaked) => ~IsLocked

\* The lock says who has the port: whoever has it holds the lock, and whoever
\* holds the lock has it or has lost a descriptor of it.
LockHolds == SerialisedExclusive /\ LockHasOwner
=============================================================================
