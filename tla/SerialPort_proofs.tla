--------------------------- MODULE SerialPort_proofs ---------------------------
(***************************************************************************)
(* What a serial port promises, for any number of processes, settings,     *)
(* bytes, crashes and failures.                                            *)
(*                                                                         *)
(* The lock (LockHolds): every lock is traced to somebody who uses the     *)
(* port or has leaked it (OwnerInv), and while no two calls have           *)
(* overlapped the caller is alone (AloneInv).                              *)
(* The settings (SettingsKept): as long as nothing was refused, whoever    *)
(* has the port alone wants, reports and has set the same.                 *)
(* The read notifier (MutedByWaitOnly): a nested notification that has     *)
(* stopped it runs inside a slot whose end starts it again.                *)
(* The bytes (BytesKept): the ring buffers are queues, for blocks of any   *)
(* size, and what went in comes out (BytesInv).                            *)
(***************************************************************************)
EXTENDS SerialPort, SequenceTheorems, WellFoundedInduction, TLAPS

-----------------------------------------------------------------------------
(* The lock                                                                *)

\* A lock file with a live pid belongs to a user of the port, or to a process
\* that leaked its descriptor and lock in an open() that failed.
OwnerInv ==
    \A p \in Procs : LockedByMe(p) =>
        p \in leaked \/ pc[p] \in {"locked", "open", "unlocking", "removing"}

\* The phases of open().
Opening(p) == pc[p] \in {"checked", "opened", "locking", "locked"}

\* Whoever is in a call is the only one, nobody has the port meanwhile, and a
\* lock it meets is its own; whoever has the port has the lock and the flag.
AloneInv ==
    ~overlapped => \A p \in Procs :
        /\ Busy(p) => \A q \in Procs : pc[q] # "open" /\ (Busy(q) => q = p)
        /\ Opening(p) => \A q \in Procs : LockedByMe(q) => q = p
        /\ pc[p] = "open" => LockedByMe(p) /\ excl

LockInv == LockTypeOK /\ OwnerInv /\ AloneInv

LEMMA InitLock == LockInit => LockInv
<1> SUFFICES ASSUME LockInit PROVE LockInv
  OBVIOUS
<1> USE ContentsDiffer DEF LockInit
<1>1. LockTypeOK
  BY DEF LockTypeOK, Phases
<1>2. OwnerInv
  BY DEF OwnerInv, LockedByMe
<1>3. AloneInv
  BY DEF AloneInv, Busy, Opening
<1>4. QED
  BY <1>1, <1>2, <1>3 DEF LockInv

LEMMA TypeStep == LockTypeOK /\ [LockNext]_lockVars => LockTypeOK'
<1> SUFFICES ASSUME LockTypeOK, [LockNext]_lockVars PROVE LockTypeOK'
  OBVIOUS
<1> USE DEF LockTypeOK, Phases, Goto
<1>1. ASSUME NEW p \in Procs, OpenStep(p) PROVE LockTypeOK'
  BY <1>1 DEF OpenStep, OpenRefused, OpenCheck, DescriptorFails, DescriptorOpens,
              LockOpens, LockFails, LockWrites, VerifyFails, SettingsFail, OpenDone,
              lockVars, OthersBusy, Busy
<1>2. ASSUME NEW p \in Procs, CloseStep(p) PROVE LockTypeOK'
  BY <1>2 DEF CloseStep, CloseDescriptor, CloseUnlock, CloseRemove, OthersBusy, Busy
<1>3. ASSUME NEW p \in Procs, Crash(p) PROVE LockTypeOK'
  BY <1>3 DEF Crash, OthersHold, Holds
<1>4. CASE UNCHANGED lockVars
  BY <1>4 DEF lockVars
<1>5. QED
  BY <1>1, <1>2, <1>3, <1>4 DEF LockNext

LEMMA OwnerStep == LockInv /\ [LockNext]_lockVars => OwnerInv'
<1> SUFFICES ASSUME LockInv, [LockNext]_lockVars, NEW o \in Procs, LockedByMe(o)'
             PROVE  o \in leaked' \/ pc'[o] \in {"locked", "open", "unlocking", "removing"}
  BY DEF OwnerInv
<1> DEFINE Owns == o \in leaked' \/ pc'[o] \in {"locked", "open", "unlocking", "removing"}
<1> USE ContentsDiffer DEF LockedByMe, Goto
<1>1. LockTypeOK /\ OwnerInv
  BY DEF LockInv
<1>2. pc \in [Procs -> Phases]
  BY <1>1 DEF LockTypeOK
<1>3. ASSUME NEW p \in Procs, OpenStep(p) PROVE Owns
  <2>1. CASE OpenRefused(p) \/ OpenCheck(p)
    BY <1>1, <1>2, <2>1 DEF OwnerInv, OpenRefused, OpenCheck, IsLocked, lockVars
  <2>2. CASE DescriptorFails(p) \/ DescriptorOpens(p)
    BY <1>1, <1>2, <2>2 DEF OwnerInv, DescriptorFails, DescriptorOpens
  <2>3. CASE LockOpens(p) \/ LockFails(p) \/ LockWrites(p)
    BY <1>1, <1>2, <2>3 DEF OwnerInv, LockOpens, LockFails, LockWrites
  <2>4. CASE VerifyFails(p) \/ SettingsFail(p) \/ OpenDone(p)
    BY <1>1, <1>2, <2>4 DEF OwnerInv, VerifyFails, SettingsFail, OpenDone
  <2>5. QED
    BY <1>3, <2>1, <2>2, <2>3, <2>4 DEF OpenStep
<1>4. ASSUME NEW p \in Procs, CloseStep(p) PROVE Owns
  BY <1>1, <1>2, <1>4 DEF OwnerInv, CloseStep, CloseDescriptor, CloseUnlock, CloseRemove
<1>5. ASSUME NEW p \in Procs, Crash(p) PROVE Owns
  BY <1>1, <1>2, <1>5 DEF OwnerInv, Crash
<1>6. CASE UNCHANGED lockVars
  BY <1>1, <1>6 DEF OwnerInv, lockVars
<1>7. QED
  BY <1>3, <1>4, <1>5, <1>6 DEF LockNext

LEMMA AloneStep == LockInv /\ [LockNext]_lockVars => AloneInv'
<1> SUFFICES ASSUME LockInv, [LockNext]_lockVars, ~overlapped'
             PROVE  AloneInv'
  BY DEF AloneInv
<1> USE ContentsDiffer DEF LockedByMe, Goto, AloneInv, Busy, Opening
<1>1. LockTypeOK /\ AloneInv
  BY DEF LockInv
<1>2. pc \in [Procs -> Phases]
  BY <1>1 DEF LockTypeOK
<1>3. ~overlapped
  BY DEF LockNext, OpenStep, CloseStep, OpenRefused, OpenCheck, DescriptorFails,
         DescriptorOpens, LockOpens, LockFails, LockWrites, VerifyFails, SettingsFail,
         OpenDone, CloseDescriptor, CloseUnlock, CloseRemove, Crash, lockVars
<1>4. ASSUME NEW p \in Procs, OpenStep(p) PROVE AloneInv'
  <2>1. CASE OpenRefused(p)
    BY <1>1, <2>1 DEF OpenRefused, lockVars
  <2>2. CASE OpenCheck(p)
    <3>1. \A q \in Procs : q # p => pc[q] = "closed"
      BY <1>1, <1>2, <1>3, <2>2 DEF OpenCheck, IsLocked, OthersBusy
    <3>2. \A q \in Procs : ~LockedByMe(q)
      BY <2>2 DEF OpenCheck, IsLocked
    <3>3. QED
      BY <1>2, <2>2, <3>1, <3>2 DEF OpenCheck
  <2>3. CASE DescriptorFails(p) \/ DescriptorOpens(p)
    BY <1>1, <1>2, <1>3, <2>3 DEF DescriptorFails, DescriptorOpens
  <2>4. CASE LockOpens(p) \/ LockFails(p) \/ LockWrites(p)
    BY <1>1, <1>2, <1>3, <2>4 DEF LockOpens, LockFails, LockWrites
  <2>5. CASE VerifyFails(p) \/ SettingsFail(p)
    BY <1>1, <1>2, <1>3, <2>5 DEF VerifyFails, SettingsFail
  <2>6. CASE OpenDone(p)
    BY <1>1, <1>2, <1>3, <2>6 DEF OpenDone, IsLocked
  <2>7. QED
    BY <1>4, <2>1, <2>2, <2>3, <2>4, <2>5, <2>6 DEF OpenStep
<1>5. ASSUME NEW p \in Procs, CloseStep(p) PROVE AloneInv'
  <2>1. CASE CloseDescriptor(p)
    BY <1>1, <1>2, <1>3, <2>1 DEF CloseDescriptor, OthersBusy
  <2>2. CASE CloseUnlock(p)
    BY <1>1, <1>2, <1>3, <2>2 DEF CloseUnlock
  <2>3. CASE CloseRemove(p)
    BY <1>1, <1>2, <1>3, <2>3 DEF CloseRemove
  <2>4. QED
    BY <1>5, <2>1, <2>2, <2>3 DEF CloseStep
<1>6. ASSUME NEW p \in Procs, Crash(p) PROVE AloneInv'
  <2>1. \A q \in Procs : q # p => pc'[q] = pc[q]
    BY <1>2, <1>6 DEF Crash
  <2>2. pc'[p] = "closed"
    BY <1>2, <1>6 DEF Crash
  <2>3. \A q \in Procs : LockedByMe(q)' <=> q # p /\ LockedByMe(q)
    BY <1>6 DEF Crash
  <2>4. \A q \in Procs : q # p /\ pc[q] = "open" /\ excl => excl'
    BY <1>6 DEF Crash, OthersHold, Holds
  <2>5. QED
    BY <1>1, <1>3, <2>1, <2>2, <2>3, <2>4
<1>7. CASE UNCHANGED lockVars
  BY <1>1, <1>7 DEF lockVars
<1>8. QED
  BY <1>4, <1>5, <1>6, <1>7 DEF LockNext

LEMMA LockStep == LockInv /\ [LockNext]_lockVars => LockInv'
BY TypeStep, OwnerStep, AloneStep DEF LockInv

LEMMA LockInvHolds == LockInv => LockHolds
<1>1. LockInv => SerialisedExclusive
  <2> SUFFICES ASSUME LockInv, ~overlapped
               PROVE  /\ Exclusive
                      /\ \A p \in Procs : pc[p] = "open" => LockedByMe(p) /\ excl
    BY DEF SerialisedExclusive
  <2>1. \A p \in Procs : pc[p] = "open" => LockedByMe(p) /\ excl
    BY DEF LockInv, AloneInv
  <2>2. Exclusive
    BY <2>1 DEF Exclusive, LockedByMe
  <2>3. QED
    BY <2>1, <2>2
<1>2. LockInv => LockHasOwner
  BY DEF LockInv, OwnerInv, LockHasOwner, IsLocked, LockedByMe
<1>3. QED
  BY <1>1, <1>2 DEF LockHolds

(* LockInv is an inductive invariant of the processes that share a port.   *)
THEOREM LockInductive == LockSpec => []LockInv
BY InitLock, LockStep, PTL DEF LockSpec

(* Every variable of the lock keeps its type, whatever fails or crashes.   *)
THEOREM LockTypeCorrect == LockSpec => []LockTypeOK
<1>1. LockInv => LockTypeOK
  BY DEF LockInv
<1>2. QED
  BY LockInductive, <1>1, PTL

(* As long as no two calls overlap, one process at most has the port, with *)
(* its lock file and the exclusive flag; and a lock always has an owner    *)
(* (m_islocked, m_lock, m_unlock, open and close).                         *)
THEOREM LockIsHeld == LockSpec => []LockHolds
BY LockInductive, LockInvHolds, PTL

-----------------------------------------------------------------------------
(* The port above the engine above the lock: each step of one is a step of *)
(* the one below it, or none.                                              *)

EngineStep(p) ==
    \/ PlainStep(p) \/ LeakStep(p)
    \/ OpenSettings(p) \/ CloseSettings(p) \/ CrashSettings(p)
    \/ Setter(p)

EngineNext == \E p \in Procs : EngineStep(p)

LEMMA EngineLocks ==
    ASSUME NEW p \in Procs, EngineStep(p)
    PROVE  [LockNext]_lockVars
<1>1. CASE PlainStep(p)
  BY <1>1 DEF PlainStep, LockNext, OpenStep, CloseStep
<1>2. CASE LeakStep(p)
  BY <1>2 DEF LeakStep, LockNext, OpenStep
<1>3. CASE OpenSettings(p)
  BY <1>3 DEF OpenSettings, LockNext, OpenStep
<1>4. CASE CloseSettings(p)
  BY <1>4 DEF CloseSettings, LockNext, CloseStep
<1>5. CASE CrashSettings(p)
  BY <1>5 DEF CrashSettings, LockNext
<1>6. CASE Setter(p)
  BY <1>6 DEF Setter, CallSetter, SetDtr, SetRts, TriggerOutLine
<1>7. QED
  BY <1>1, <1>2, <1>3, <1>4, <1>5, <1>6 DEF EngineStep

LEMMA PortEngine ==
    ASSUME PortNext
    PROVE  EngineNext \/ UNCHANGED <<engineVars, lockVars>>
<1> DEFINE Apart == UNCHANGED <<engineVars, lockVars>>
<1>1. ASSUME NEW c, CanReadNotification(c) PROVE Apart
  BY <1>1 DEF CanReadNotification
<1>2. ASSUME NEW t, Flush(t) PROVE Apart
  BY <1>2 DEF Flush
<1>3. CASE ReadEvent \/ WriteEvent
  BY <1>1, <1>2, <1>3 DEF ReadEvent, WriteEvent, CanWriteNotification
<1>4. CASE Program
  BY <1>2, <1>4 DEF Program, ReadData, WriteData, FlushCalled, Reset,
         SetReadBufferSize, WaitForReadyRead, WaitForBytesWritten
<1>5. CASE Waiting
  BY <1>1, <1>2, <1>5 DEF Waiting, Select, SelectTimeout, Round, RoundOfReading,
         RoundOfWriting, CanWriteNotification
<1>6. CASE SlotReturns
  BY <1>6 DEF SlotReturns, ReadyReadReturns, BytesWrittenReturns
<1>7. CASE Open \/ CloseFlushes \/ Close \/ MeCrashes
  BY <1>2, <1>7, MeIsProc DEF Open, CloseFlushes, Close, MeCrashes, EngineNext, EngineStep
<1>8. CASE \E p \in Procs : OtherStep(p)
  BY <1>8 DEF OtherStep, EngineNext, EngineStep
<1>9. CASE Arrive \/ Unplug
  BY <1>9 DEF Arrive, Unplug
<1>10. QED
  BY <1>3, <1>4, <1>5, <1>6, <1>7, <1>8, <1>9 DEF PortNext

LEMMA PortLocks == [PortNext]_portVars => [LockNext]_lockVars
BY PortEngine, EngineLocks DEF EngineNext, portVars, lockVars

(* The object of SerialPort with all it does keeps the lock as TTYLocker   *)
(* says: one user at most while no calls overlap, and no lock without an   *)
(* owner.                                                                  *)
THEOREM PortHoldsLock == PortSpec => []LockHolds
<1>1. PortInit => LockInv
  BY InitLock DEF PortInit, EngineInit
<1>2. LockInv /\ [PortNext]_portVars => LockInv'
  BY LockStep, PortLocks
<1>3. QED
  BY <1>1, <1>2, LockInvHolds, PTL DEF PortSpec

-----------------------------------------------------------------------------
(* The settings                                                            *)

Numbers == Rates \union {CustomRate, UnknownNumber}
Parities == {"None", "Even", "Odd", "Mark", "Space", Unknown}
Policies == {"Skip", "PassZero", "Ignore", "StopReceiving", Unknown}
Reports ==
    [inRate : Numbers, outRate : Numbers, dataBits : Sizes \union {UnknownNumber},
     parity : Parities, stopBits : {"One", "Two", Unknown},
     flow : {"None", "Hardware", "Software", Unknown}, policy : Policies]

EngineTypeOK ==
    /\ conf \in Cases
    /\ dev \in Termios
    /\ cur \in [Procs -> Termios]
    /\ old \in [Procs -> Termios]
    /\ rep \in [Procs -> Reports]
    /\ faulted \in BOOLEAN

Fields == {"dataBits", "stopBits", "flow"}

\* What is reported is what the termios t is, the rate as far as it is told.
Tells(r, t) == (\A field \in Fields : r[field] = Detect(t)[field]) /\ RateTold(r, t)

\* Nothing is open behind the back of the processes, the device is as it was
\* found while none of them has it, and whoever has it wants and reports what
\* it is set to, and will restore what was found.
SettledInv ==
    ~faulted /\ ~overlapped =>
        /\ leaked = {}
        /\ (\A p \in Procs : pc[p] # "open") => dev = conf.found
        /\ \A p \in Procs : pc[p] = "open" =>
              old[p] = conf.found /\ cur[p] = dev /\ Tells(rep[p], dev)

SettingsInv == LockInv /\ EngineTypeOK /\ SettledInv

LEMMA SpeedsDiffer ==
    ASSUME NEW m, NEW n, Speed(m) = Speed(n)
    PROVE  m = n
<1>1. Speed(m).B = m /\ Speed(n).B = n
  BY DEF Speed
<1>2. QED
  BY <1>1

LEMMA RatesAreKnown ==
    ASSUME NEW rate \in Rates
    PROVE  unixrate2valuerate(detect_standard_rate(rate)) = rate
<1>1. detect_standard_rate(rate) = Speed(rate)
  BY DEF detect_standard_rate
<1>2. \A r \in Rates : Speed(rate) = Speed(r) => r = rate
  BY SpeedsDiffer
<1>3. QED
  BY <1>1, <1>2 DEF unixrate2valuerate

LEMMA RawTermios ==
    ASSUME NEW t \in Termios
    PROVE  Raw(t) \in Termios
BY DEF Raw, Without, Termios, Sizes, Flags

LEMMA RawDetected ==
    ASSUME NEW t \in Termios
    PROVE  Detect(t) \in Reports
<1>1. \A s : unixrate2valuerate(s) \in Numbers
  BY DEF unixrate2valuerate, Numbers
<1>2. DetectParity(t) \in Parities
  BY DEF DetectParity, Parities
<1>3. DetectFlow(t) \in {"None", "Hardware", "Software", Unknown}
  BY DEF DetectFlow
<1>4. DetectPolicy(t) \in Policies
  BY DEF DetectPolicy, Policies
<1>5. t.size \in Sizes
  BY DEF Termios
<1>6. QED
  BY <1>1, <1>2, <1>3, <1>4, <1>5 DEF Detect, Reports

LEMMA NothingTyped == NoTermios \in Termios /\ NothingReported \in Reports
<1>1. NoTermios \in Termios
  BY DEF NoTermios, Termios, Speeds, Speed, B0, Sizes
<1>2. NothingReported \in Reports
  BY DEF NothingReported, Reports, Numbers, Parities, Policies
<1>3. QED
  BY <1>1, <1>2

LEMMA InitSettings == PortInit => SettingsInv
<1> SUFFICES ASSUME PortInit PROVE SettingsInv
  OBVIOUS
<1> USE DEF PortInit, EngineInit
<1>1. LockInv
  BY InitLock
<1>2. EngineTypeOK
  BY NothingTyped, FoundAssumption DEF EngineTypeOK
<1>3. SettledInv
  BY DEF SettledInv, LockInit
<1>4. QED
  BY <1>1, <1>2, <1>3 DEF SettingsInv

\* A termios t and a report r that a setter makes of p's.
Kept(p, t, r) == t \in Termios /\ r \in Reports /\ (Tells(rep[p], cur[p]) => Tells(r, t))

LEMMA RateKept ==
    ASSUME EngineTypeOK, NEW p \in Procs, NEW rate \in Rates,
           NEW dir \in SUBSET {"Input", "Output"}, dir # {}
    PROVE  Kept(p, [cur[p] EXCEPT !.speed = detect_standard_rate(rate)],
                RateReported(p, rate, dir))
<1> DEFINE speed == detect_standard_rate(rate)
           t == [cur[p] EXCEPT !.speed = speed]
           r == RateReported(p, rate, dir)
<1>1. cur[p] \in Termios /\ rep[p] \in Reports
  BY DEF EngineTypeOK
<1>2. speed \in Speeds
  BY RatesAssumption DEF detect_standard_rate, Speed, Speeds
<1>3. t \in Termios
  BY <1>1, <1>2 DEF Termios
<1>4. r \in Reports
  BY <1>1 DEF RateReported, Reports, Numbers
<1>5. Tells(rep[p], cur[p]) => Tells(r, t)
  <2>1. unixrate2valuerate(speed) = rate
    BY RatesAreKnown
  <2> HIDE DEF speed
  <2>2. t.speed = speed /\ t.size = cur[p].size /\ t.flags = cur[p].flags
    BY <1>1 DEF Termios
  <2>3. /\ r.inRate = IF "Input" \in dir THEN rate ELSE rep[p].inRate
        /\ r.outRate = IF "Output" \in dir THEN rate ELSE rep[p].outRate
        /\ r.dataBits = rep[p].dataBits /\ r.stopBits = rep[p].stopBits
        /\ r.flow = rep[p].flow
    BY <1>1 DEF RateReported, Reports
  <2>4. r.inRate = rate \/ r.outRate = rate
    BY <2>3
  <2> HIDE DEF t, r
  <2>5. DetectFlow(t) = DetectFlow(cur[p])
    BY <2>2 DEF DetectFlow
  <2>6. Detect(t).inRate = rate
    BY <2>1, <2>2 DEF Detect
  <2>7. RateTold(r, t)
    BY <2>4, <2>6 DEF RateTold
  <2>8. QED
    BY <2>2, <2>3, <2>5, <2>7 DEF Tells, Fields, Detect
<1>6. QED
  BY <1>3, <1>4, <1>5 DEF Kept

\* A rate of the driver changes no termios, and is not one that is told.
LEMMA CustomKept ==
    ASSUME EngineTypeOK, NEW p \in Procs, NEW dir \in SUBSET {"Input", "Output"},
           dir # {}
    PROVE  Kept(p, cur[p], RateReported(p, CustomRate, dir))
<1> DEFINE r == RateReported(p, CustomRate, dir)
<1>1. cur[p] \in Termios /\ rep[p] \in Reports
  BY DEF EngineTypeOK
<1>2. r \in Reports
  BY <1>1 DEF RateReported, Reports, Numbers
<1>3. /\ r.inRate = IF "Input" \in dir THEN CustomRate ELSE rep[p].inRate
      /\ r.outRate = IF "Output" \in dir THEN CustomRate ELSE rep[p].outRate
      /\ r.dataBits = rep[p].dataBits /\ r.stopBits = rep[p].stopBits
      /\ r.flow = rep[p].flow
  BY <1>1 DEF RateReported, Reports
<1> HIDE DEF r
<1>4. RateTold(r, cur[p])
  BY <1>3 DEF RateTold
<1>5. QED
  BY <1>1, <1>2, <1>3, <1>4 DEF Kept, Tells, Fields, r

\* A setter that touches no speed tells the rate as it was told.
LEMMA RateStays ==
    ASSUME NEW r, NEW s, NEW t, NEW u, r.inRate = s.inRate, r.outRate = s.outRate,
           t.speed = u.speed, RateTold(s, u)
    PROVE  RateTold(r, t)
BY DEF RateTold, Detect

LEMMA DataBitsKept ==
    ASSUME EngineTypeOK, NEW p \in Procs, NEW bits \in Sizes
    PROVE  Kept(p, [cur[p] EXCEPT !.size = bits], DataBitsReported(p, bits))
<1> DEFINE t == [cur[p] EXCEPT !.size = bits]
           r == DataBitsReported(p, bits)
<1>1. cur[p] \in Termios /\ rep[p] \in Reports
  BY DEF EngineTypeOK
<1>2. t \in Termios /\ r \in Reports
  BY <1>1 DEF Termios, Reports, DataBitsReported
<1>3. t.size = bits /\ t.speed = cur[p].speed /\ t.flags = cur[p].flags
  BY <1>1 DEF Termios
<1>4. /\ r.dataBits = bits /\ r.inRate = rep[p].inRate /\ r.outRate = rep[p].outRate
      /\ r.stopBits = rep[p].stopBits /\ r.flow = rep[p].flow
  BY <1>1 DEF DataBitsReported, Reports
<1> HIDE DEF t, r
<1>5. DetectFlow(t) = DetectFlow(cur[p])
  BY <1>3 DEF DetectFlow
<1>6. Tells(rep[p], cur[p]) => Tells(r, t)
  BY <1>3, <1>4, <1>5, RateStays DEF Tells, Fields, Detect
<1>7. QED
  BY <1>2, <1>6 DEF Kept, t, r

\* What the flags say of stop bits and flow control, the rest as it was.
LEMMA FlagsKept ==
    ASSUME EngineTypeOK, NEW p \in Procs, NEW F \in SUBSET Flags, NEW r \in Reports,
           \A field \in {"inRate", "outRate", "dataBits"} : r[field] = rep[p][field],
           \/ r.stopBits = IF "CSTOPB" \in F THEN "Two" ELSE "One"
           \/ /\ r.stopBits = rep[p].stopBits
              /\ "CSTOPB" \in F <=> "CSTOPB" \in cur[p].flags,
           LET flow == DetectFlow([cur[p] EXCEPT !.flags = F])
           IN  \/ r.flow = flow
               \/ r.flow = rep[p].flow /\ flow = DetectFlow(cur[p])
    PROVE  Kept(p, [cur[p] EXCEPT !.flags = F], r)
<1> DEFINE t == [cur[p] EXCEPT !.flags = F]
<1>1. cur[p] \in Termios /\ rep[p] \in Reports
  BY DEF EngineTypeOK
<1>2. t \in Termios
  BY <1>1 DEF Termios
<1>3. t.flags = F /\ t.size = cur[p].size /\ t.speed = cur[p].speed
  BY <1>1 DEF Termios
<1>4. /\ r.inRate = rep[p].inRate /\ r.outRate = rep[p].outRate
      /\ r.dataBits = rep[p].dataBits
  OBVIOUS
<1> HIDE DEF t
<1>5. Tells(rep[p], cur[p]) => Tells(r, t)
  <2>1. Tells(rep[p], cur[p]) => RateTold(r, t)
    BY <1>3, <1>4, RateStays DEF Tells
  <2>2. QED
    BY <1>3, <1>4, <2>1 DEF Tells, Fields, Detect, t
<1>6. QED
  BY <1>2, <1>5 DEF Kept, t

LEMMA FlagsOf ==
    ASSUME NEW t \in Termios, NEW A, NEW B
    PROVE  /\ With(t, B) = [t EXCEPT !.flags = t.flags \union B]
           /\ Without(t, A) = [t EXCEPT !.flags = t.flags \ A]
           /\ With(Without(t, A), B) = [t EXCEPT !.flags = (t.flags \ A) \union B]
BY DEF With, Without, Termios

\* A change of flags that says nothing of stop bits and flow control.
Neutral == {"PARENB", "PARODD", "CMSPAR", "INPCK", "IGNPAR", "PARMRK"}

LEMMA NeutralKept ==
    ASSUME EngineTypeOK, NEW p \in Procs, NEW F \in SUBSET Flags, NEW r \in Reports,
           \A f \in Flags \ Neutral : f \in F <=> f \in cur[p].flags,
           \A field \in Fields \union {"inRate", "outRate"} : r[field] = rep[p][field]
    PROVE  Kept(p, [cur[p] EXCEPT !.flags = F], r)
<1> DEFINE t == [cur[p] EXCEPT !.flags = F]
<1>1. cur[p] \in Termios
  BY DEF EngineTypeOK
<1>2. t.flags = F
  BY <1>1 DEF Termios
<1> HIDE DEF t
<1>3. \A f \in {"CSTOPB", "CRTSCTS", "IXON", "IXOFF"} : f \in F <=> f \in cur[p].flags
  BY DEF Flags, Neutral
<1>4. DetectFlow(t) = DetectFlow(cur[p])
  BY <1>2, <1>3 DEF DetectFlow
<1>5. QED
  BY <1>3, <1>4, FlagsKept DEF Fields, t

LEMMA ParityKept ==
    ASSUME EngineTypeOK, NEW p \in Procs, NEW parity \in Parities,
           NEW F \in SUBSET Flags, \A f \in Flags \ Neutral : f \in F <=> f \in cur[p].flags
    PROVE  Kept(p, [cur[p] EXCEPT !.flags = F], ParityReported(p, parity))
<1>1. rep[p] \in Reports
  BY DEF EngineTypeOK
<1>2. ParityReported(p, parity) \in Reports
  BY <1>1 DEF ParityReported, Reports
<1>3. \A field \in Fields \union {"inRate", "outRate"} :
         ParityReported(p, parity)[field] = rep[p][field]
  BY <1>1 DEF ParityReported, Reports, Fields
<1>4. QED
  BY <1>2, <1>3, NeutralKept

LEMMA PolicyKept ==
    ASSUME EngineTypeOK, NEW p \in Procs, NEW policy \in Policies,
           NEW F \in SUBSET Flags, \A f \in Flags \ Neutral : f \in F <=> f \in cur[p].flags
    PROVE  Kept(p, [cur[p] EXCEPT !.flags = F], PolicyReported(p, policy))
<1>1. rep[p] \in Reports
  BY DEF EngineTypeOK
<1>2. PolicyReported(p, policy) \in Reports
  BY <1>1 DEF PolicyReported, Reports
<1>3. \A field \in Fields \union {"inRate", "outRate"} :
         PolicyReported(p, policy)[field] = rep[p][field]
  BY <1>1 DEF PolicyReported, Reports, Fields
<1>4. QED
  BY <1>2, <1>3, NeutralKept

LEMMA StopBitsKept ==
    ASSUME EngineTypeOK, NEW p \in Procs
    PROVE  /\ Kept(p, Without(cur[p], {"CSTOPB"}), StopBitsReported(p, "One"))
           /\ Kept(p, With(cur[p], {"CSTOPB"}), StopBitsReported(p, "Two"))
<1>1. cur[p] \in Termios /\ rep[p] \in Reports
  BY DEF EngineTypeOK
<1>2. ASSUME NEW bits \in {"One", "Two"}, NEW F \in SUBSET Flags,
             "CSTOPB" \in F <=> bits = "Two",
             \A f \in Flags \ {"CSTOPB"} : f \in F <=> f \in cur[p].flags
      PROVE  Kept(p, [cur[p] EXCEPT !.flags = F], StopBitsReported(p, bits))
  <2> DEFINE t == [cur[p] EXCEPT !.flags = F]
             r == StopBitsReported(p, bits)
  <2>1. r \in Reports
    BY <1>1 DEF StopBitsReported, Reports
  <2>2. /\ r.stopBits = bits /\ r.flow = rep[p].flow
        /\ \A field \in {"inRate", "outRate", "dataBits"} : r[field] = rep[p][field]
    BY <1>1 DEF StopBitsReported, Reports
  <2>3. t.flags = F
    BY <1>1 DEF Termios
  <2> HIDE DEF t, r
  <2>4. DetectFlow(t) = DetectFlow(cur[p])
    BY <1>2, <2>3 DEF DetectFlow, Flags
  <2>5. r.stopBits = IF "CSTOPB" \in F THEN "Two" ELSE "One"
    BY <1>2, <2>2
  <2>6. QED
    BY <2>1, <2>2, <2>4, <2>5, FlagsKept DEF t, r
<1>3. cur[p].flags \in SUBSET Flags /\ "CSTOPB" \in Flags
  BY <1>1 DEF Termios, Flags
<1>4. Kept(p, [cur[p] EXCEPT !.flags = cur[p].flags \ {"CSTOPB"}], StopBitsReported(p, "One"))
  BY <1>2, <1>3
<1>5. Kept(p, [cur[p] EXCEPT !.flags = cur[p].flags \union {"CSTOPB"}], StopBitsReported(p, "Two"))
  BY <1>2, <1>3
<1>6. QED
  BY <1>1, <1>4, <1>5, FlagsOf

LEMMA FlowKept ==
    ASSUME EngineTypeOK, NEW p \in Procs, NEW flow \in {"None", "Hardware", "Software"},
           NEW F \in SUBSET Flags,
           "CRTSCTS" \in F <=> flow = "Hardware",
           \A f \in {"IXON", "IXOFF"} : f \in F <=> flow = "Software",
           "CSTOPB" \in F <=> "CSTOPB" \in cur[p].flags
    PROVE  Kept(p, [cur[p] EXCEPT !.flags = F], FlowReported(p, flow))
<1> DEFINE t == [cur[p] EXCEPT !.flags = F]
           r == FlowReported(p, flow)
<1>1. cur[p] \in Termios /\ rep[p] \in Reports
  BY DEF EngineTypeOK
<1>2. r \in Reports
  BY <1>1 DEF FlowReported, Reports
<1>3. /\ r.flow = flow /\ r.stopBits = rep[p].stopBits
      /\ \A field \in {"inRate", "outRate", "dataBits"} : r[field] = rep[p][field]
  BY <1>1 DEF FlowReported, Reports
<1>4. t.flags = F
  BY <1>1 DEF Termios
<1> HIDE DEF t, r
<1>5. DetectFlow(t) = flow
  BY <1>4 DEF DetectFlow
<1>6. QED
  BY <1>2, <1>3, <1>5, FlagsKept DEF t, r

LEMMA FlagsAgain ==
    ASSUME NEW t \in Termios, NEW G \in SUBSET Flags, NEW A, NEW B \in SUBSET Flags
    PROVE  LET u == [t EXCEPT !.flags = G]
           IN  /\ Without(u, A) = [t EXCEPT !.flags = G \ A]
               /\ With(u, B) = [t EXCEPT !.flags = G \union B]
<1> DEFINE u == [t EXCEPT !.flags = G]
<1>1. u \in Termios /\ u.flags = G
  BY DEF Termios
<1>2. \A H : [u EXCEPT !.flags = H] = [t EXCEPT !.flags = H]
  OBVIOUS
<1> HIDE DEF u
<1>3. Without(u, A) = [t EXCEPT !.flags = G \ A]
  BY <1>1, <1>2, FlagsOf
<1>4. With(u, B) = [t EXCEPT !.flags = G \union B]
  BY <1>1, <1>2, FlagsOf
<1>5. QED
  BY <1>3, <1>4 DEF u

\* What a setter may do: set the device to what is then reported, want what is
\* refused, or tell the driver another divisor and report that.
Outcome(p) ==
    \/ \E t \in Termios, r \in Reports : Kept(p, t, r) /\ Update(p, t, r)
    \/ \E t \in Termios : Refused(p, t)
    \/ \E r \in Reports : /\ Kept(p, cur[p], r) /\ rep' = [rep EXCEPT ![p] = r]
                          /\ UNCHANGED <<dev, cur, faulted>>
    \/ UNCHANGED <<dev, cur, rep, faulted>>

LEMMA SettersKeep ==
    ASSUME EngineTypeOK, NEW p \in Procs,
           \/ SetRate(p) \/ SetDataBits(p) \/ SetParity(p)
           \/ SetStopBits(p) \/ SetFlowControl(p) \/ SetDataErrorPolicy(p)
    PROVE  Outcome(p)
<1> DEFINE F == cur[p].flags
<1>1. cur[p] \in Termios /\ rep[p] \in Reports /\ F \in SUBSET Flags
  BY DEF EngineTypeOK, Termios
<1>2. ASSUME NEW t, NEW r, Kept(p, t, r), Update(p, t, r) PROVE Outcome(p)
  BY <1>2 DEF Outcome, Kept
<1>3. ASSUME NEW t \in Termios, Refused(p, t) PROVE Outcome(p)
  BY <1>3 DEF Outcome
<1>4. ASSUME NEW dir \in {{"Input"}, {"Output"}, {"Input", "Output"}},
             NEW rate \in Rates \union {CustomRate}, setRate(p, rate, dir)
      PROVE  Outcome(p)
  <2>1. CASE detect_standard_rate(rate) = NotStandard
    <3>1. rate = CustomRate
      <4>1. \A r \in Rates : Speed(r) # NotStandard
        BY RatesAssumption, SpeedsDiffer DEF NotStandard
      <4>2. QED
        BY <2>1, <4>1 DEF detect_standard_rate
    <3>2. dir \in SUBSET {"Input", "Output"} /\ dir # {}
      OBVIOUS
    <3>3. Kept(p, cur[p], RateReported(p, rate, dir))
      BY <3>1, <3>2, CustomKept
    <3>4. QED
      BY <1>4, <2>1, <3>3 DEF setRate, setCustomRate, Outcome, Kept
  <2>2. CASE detect_standard_rate(rate) # NotStandard
    <3>1. rate \in Rates
      BY <2>2 DEF detect_standard_rate
    <3>2. dir \in SUBSET {"Input", "Output"} /\ dir # {}
      OBVIOUS
    <3>3. QED
      BY <1>2, <1>4, <2>2, <3>1, <3>2, RateKept DEF setRate, setStandartRate
  <2>3. QED
    BY <2>1, <2>2
<1>5. ASSUME NEW bits \in {7, 8, UnknownNumber}, setDataBits(p, bits) PROVE Outcome(p)
  <2>1. CASE bits \in Sizes
    BY <1>2, <1>5, <2>1, DataBitsKept DEF setDataBits
  <2>2. CASE bits \notin Sizes
    <3>1. [cur[p] EXCEPT !.size = 5] \in Termios
      BY <1>1 DEF Termios, Sizes
    <3>2. QED
      BY <1>3, <1>5, <2>2, <3>1 DEF setDataBits
  <2>3. QED
    BY <2>1, <2>2
<1>6. ASSUME NEW parity \in Parities, setParity(p, parity) PROVE Outcome(p)
  <2>1. \E G \in SUBSET Flags :
           /\ Update(p, [cur[p] EXCEPT !.flags = G], ParityReported(p, parity))
           /\ \A f \in Flags \ Neutral : f \in G <=> f \in F
    <3> DEFINE H == (F \ {"PARMRK", "INPCK"}) \union {"IGNPAR"}
               base == With(Without(cur[p], {"PARMRK", "INPCK"}), {"IGNPAR"})
               Sets(t, G) == t = [cur[p] EXCEPT !.flags = G] /\ G \in SUBSET Flags
    <3>1. \A t, G, A, B : Sets(t, G) /\ B \in SUBSET Flags =>
             /\ Sets(Without(t, A), G \ A)
             /\ Sets(With(t, B), G \union B)
      BY <1>1, FlagsAgain
    <3>2. Sets(cur[p], F)
      BY <1>1 DEF Termios
    <3>3. Neutral \in SUBSET Flags
      BY DEF Neutral, Flags
    <3>4. \A B : B \subseteq Neutral => B \in SUBSET Flags
      BY <3>3
    <3> HIDE DEF Sets
    <3>5. Sets(base, H)
      <4>1. Sets(Without(cur[p], {"PARMRK", "INPCK"}), F \ {"PARMRK", "INPCK"})
        BY <3>1, <3>2
      <4>2. {"IGNPAR"} \in SUBSET Flags
        BY DEF Flags
      <4>3. QED
        BY <3>1, <4>1, <4>2
    <3>6. \E G : /\ Sets(CASE parity = "Space" -> With(Without(base, {"PARODD"}), {"PARENB", "CMSPAR"})
                          [] parity = "Mark" -> With(base, {"PARENB", "CMSPAR", "PARODD"})
                          [] parity = "None" -> Without(base, {"PARENB"})
                          [] parity = "Even" -> With(Without(base, {"PARODD"}), {"PARENB"})
                          [] parity = "Odd" -> With(base, {"PARENB", "PARODD"})
                          [] OTHER -> With(Without(base, {"IGNPAR"}),
                                           {"PARENB", "PARMRK", "INPCK"}), G)
                 /\ \A f \in Flags \ Neutral : f \in G <=> f \in F
      <4> HIDE DEF base
      <4>1. CASE parity = "Space"
        <5>1. Sets(With(Without(base, {"PARODD"}), {"PARENB", "CMSPAR"}),
                   (H \ {"PARODD"}) \union {"PARENB", "CMSPAR"})
          BY <3>1, <3>4, <3>5 DEF Neutral
        <5>2. QED
          BY <4>1, <5>1 DEF Neutral
      <4>2. CASE parity = "Mark"
        <5>1. Sets(With(base, {"PARENB", "CMSPAR", "PARODD"}),
                   H \union {"PARENB", "CMSPAR", "PARODD"})
          BY <3>1, <3>4, <3>5 DEF Neutral
        <5>2. QED
          BY <4>2, <5>1 DEF Neutral
      <4>3. CASE parity = "None"
        <5>1. Sets(Without(base, {"PARENB"}), H \ {"PARENB"})
          BY <3>1, <3>4, <3>5 DEF Neutral
        <5>2. QED
          BY <4>3, <5>1 DEF Neutral
      <4>4. CASE parity = "Even"
        <5>1. Sets(With(Without(base, {"PARODD"}), {"PARENB"}),
                   (H \ {"PARODD"}) \union {"PARENB"})
          BY <3>1, <3>4, <3>5 DEF Neutral
        <5>2. QED
          BY <4>4, <5>1 DEF Neutral
      <4>5. CASE parity = "Odd"
        <5>1. Sets(With(base, {"PARENB", "PARODD"}), H \union {"PARENB", "PARODD"})
          BY <3>1, <3>4, <3>5 DEF Neutral
        <5>2. QED
          BY <4>5, <5>1 DEF Neutral
      <4>6. CASE parity \notin {"Space", "Mark", "None", "Even", "Odd"}
        <5>1. Sets(With(Without(base, {"IGNPAR"}), {"PARENB", "PARMRK", "INPCK"}),
                   (H \ {"IGNPAR"}) \union {"PARENB", "PARMRK", "INPCK"})
          BY <3>1, <3>4, <3>5 DEF Neutral
        <5>2. QED
          BY <4>6, <5>1 DEF Neutral
      <4>7. QED
        BY <4>1, <4>2, <4>3, <4>4, <4>5, <4>6
    <3>7. QED
      BY <1>6, <3>6 DEF setParity, Sets
  <2>2. QED
    BY <1>2, <2>1, ParityKept
<1>7. ASSUME NEW bits \in {"One", "Two", Unknown}, setStopBits(p, bits) PROVE Outcome(p)
  <2>1. CASE bits = "One"
    BY <1>2, <1>7, <2>1, StopBitsKept DEF setStopBits
  <2>2. CASE bits = "Two"
    BY <1>2, <1>7, <2>2, StopBitsKept DEF setStopBits
  <2>3. CASE bits = Unknown
    BY <1>1, <1>3, <1>7, <2>3 DEF setStopBits, Unknown
  <2>4. QED
    BY <2>1, <2>2, <2>3
<1>8. ASSUME NEW flow \in {"None", "Hardware", "Software", Unknown}, setFlowControl(p, flow)
      PROVE  Outcome(p)
  <2>1. CASE flow = "None"
    <3> DEFINE G == F \ ({"IXON", "IXOFF"} \union {"CRTSCTS"})
    <3>1. Kept(p, [cur[p] EXCEPT !.flags = G], FlowReported(p, flow))
      BY <1>1, <2>1, FlowKept
    <3>2. Update(p, [cur[p] EXCEPT !.flags = G], FlowReported(p, flow))
      BY <1>1, <1>8, <2>1, FlagsOf DEF setFlowControl
    <3>3. QED
      BY <1>2, <3>1, <3>2
  <2>2. CASE flow = "Hardware"
    <3> DEFINE G == (F \ {"IXON", "IXOFF"}) \union {"CRTSCTS"}
    <3>1. G \in SUBSET Flags
      BY <1>1 DEF Flags
    <3>2. Kept(p, [cur[p] EXCEPT !.flags = G], FlowReported(p, flow))
      BY <2>2, <3>1, FlowKept
    <3>3. Update(p, [cur[p] EXCEPT !.flags = G], FlowReported(p, flow))
      BY <1>1, <1>8, <2>2, FlagsOf DEF setFlowControl
    <3>4. QED
      BY <1>2, <3>2, <3>3
  <2>3. CASE flow = "Software"
    <3> DEFINE G == (F \ {"CRTSCTS"}) \union {"IXON", "IXOFF"}
    <3>1. G \in SUBSET Flags
      BY <1>1 DEF Flags
    <3>2. Kept(p, [cur[p] EXCEPT !.flags = G], FlowReported(p, flow))
      BY <2>3, <3>1, FlowKept
    <3>3. Update(p, [cur[p] EXCEPT !.flags = G], FlowReported(p, flow))
      BY <1>1, <1>8, <2>3, FlagsOf DEF setFlowControl
    <3>4. QED
      BY <1>2, <3>2, <3>3
  <2>4. CASE flow = Unknown
    BY <1>1, <1>3, <1>8, <2>4 DEF setFlowControl, Unknown
  <2>5. QED
    BY <2>1, <2>2, <2>3, <2>4
<1>9. ASSUME NEW policy \in Policies, setDataErrorPolicy(p, policy) PROVE Outcome(p)
  <2>1. ASSUME NEW G \in SUBSET Flags, \A f \in Flags \ Neutral : f \in G <=> f \in F,
               Update(p, [cur[p] EXCEPT !.flags = G], PolicyReported(p, policy))
        PROVE  Outcome(p)
    BY <1>2, <2>1, PolicyKept
  <2>2. CASE policy = "Skip"
    <3>1. Update(p, [cur[p] EXCEPT !.flags = (F \ {"PARMRK"}) \union {"IGNPAR", "INPCK"}],
                 PolicyReported(p, policy))
      BY <1>1, <1>9, <2>2, FlagsOf DEF setDataErrorPolicy
    <3>2. QED
      BY <1>1, <2>1, <3>1 DEF Flags, Neutral
  <2>3. CASE policy = "PassZero"
    <3>1. Update(p, [cur[p] EXCEPT !.flags = (F \ {"IGNPAR", "PARMRK"}) \union {"INPCK"}],
                 PolicyReported(p, policy))
      BY <1>1, <1>9, <2>3, FlagsOf DEF setDataErrorPolicy
    <3>2. QED
      BY <1>1, <2>1, <3>1 DEF Flags, Neutral
  <2>4. CASE policy = "Ignore"
    <3>1. Update(p, [cur[p] EXCEPT !.flags = F \ {"INPCK"}], PolicyReported(p, policy))
      BY <1>1, <1>9, <2>4, FlagsOf DEF setDataErrorPolicy
    <3>2. QED
      BY <1>1, <2>1, <3>1 DEF Flags, Neutral
  <2>5. CASE policy = "StopReceiving"
    <3>1. Update(p, [cur[p] EXCEPT !.flags = (F \ {"IGNPAR"}) \union {"PARMRK", "INPCK"}],
                 PolicyReported(p, policy))
      BY <1>1, <1>9, <2>5, FlagsOf DEF setDataErrorPolicy
    <3>2. QED
      BY <1>1, <2>1, <3>1 DEF Flags, Neutral
  <2>6. CASE policy = Unknown
    BY <1>1, <1>3, <1>9, <2>6 DEF setDataErrorPolicy, Unknown
  <2>7. QED
    BY <2>2, <2>3, <2>4, <2>5, <2>6 DEF Policies
<1>10. SetDataErrorPolicy(p) => Outcome(p)
  <2> SUFFICES ASSUME NEW policy \in Policies,
                      IF policy = rep[p].policy
                        THEN UNCHANGED <<dev, cur, rep, faulted>>
                        ELSE setDataErrorPolicy(p, policy)
               PROVE  Outcome(p)
    BY DEF SetDataErrorPolicy, Policies
  <2>1. CASE policy = rep[p].policy
    BY <2>1 DEF Outcome
  <2>2. CASE policy # rep[p].policy
    BY <1>9, <2>2
  <2>3. QED
    BY <2>1, <2>2
<1>11. QED
  BY <1>4, <1>5, <1>6, <1>7, <1>8, <1>10
     DEF SetRate, SetDataBits, SetParity, SetStopBits, SetFlowControl, Parities

LEMMA SetterOutcome ==
    ASSUME EngineTypeOK, NEW p \in Procs, Setter(p)
    PROVE  /\ UNCHANGED <<old, conf, lockVars>>
           /\ pc[p] \in {"closed", "open"}
           /\ Outcome(p)
<1>1. CASE /\ CallSetter(p)
           /\ \/ SetRate(p) \/ SetDataBits(p) \/ SetParity(p)
              \/ SetStopBits(p) \/ SetFlowControl(p) \/ SetDataErrorPolicy(p)
  <2>1. Outcome(p)
    BY <1>1, SettersKeep
  <2>2. UNCHANGED <<old, conf, lockVars>> /\ pc[p] \in {"closed", "open"}
    BY <1>1 DEF CallSetter
  <2>3. QED
    BY <2>1, <2>2
<1>2. CASE SetDtr(p) \/ SetRts(p)
  BY <1>2 DEF SetDtr, SetRts, TriggerOutLine, Outcome
<1>3. QED
  BY <1>1, <1>2 DEF Setter

LEMMA EngineTypeStep ==
    ASSUME EngineTypeOK, NEW p \in Procs, EngineStep(p)
    PROVE  EngineTypeOK'
<1> USE DEF EngineTypeOK
<1>1. CASE PlainStep(p)
  BY <1>1 DEF PlainStep, engineVars
<1>2. CASE LeakStep(p)
  BY <1>2, RawTermios DEF LeakStep, Fault
<1>3. CASE OpenSettings(p)
  BY <1>3, RawTermios, RawDetected DEF OpenSettings
<1>4. CASE CloseSettings(p)
  BY <1>4 DEF CloseSettings, Fault
<1>5. CASE CrashSettings(p)
  BY <1>5 DEF CrashSettings, Fault
<1>6. CASE Setter(p)
  <2>1. Outcome(p) /\ UNCHANGED <<old, conf>>
    BY <1>6, SetterOutcome
  <2>2. QED
    BY <2>1 DEF Outcome, Update, Refused
<1>7. QED
  BY <1>1, <1>2, <1>3, <1>4, <1>5, <1>6 DEF EngineStep

LEMMA SettledStep ==
    ASSUME SettingsInv, NEW p \in Procs, EngineStep(p)
    PROVE  SettledInv'
<1> SUFFICES ASSUME ~faulted', ~overlapped'
             PROVE  /\ leaked' = {}
                    /\ (\A q \in Procs : pc'[q] # "open") => dev' = conf'.found
                    /\ \A q \in Procs : pc'[q] = "open" =>
                          old'[q] = conf'.found /\ cur'[q] = dev' /\ Tells(rep'[q], dev')
  BY DEF SettledInv
<1> USE DEF Goto
<1>1. LockTypeOK /\ AloneInv /\ EngineTypeOK /\ SettledInv /\ LockInv
  BY DEF SettingsInv, LockInv
<1>2. pc \in [Procs -> Phases]
  BY <1>1 DEF LockTypeOK
<1>3. ~overlapped
  BY EngineLocks
     DEF LockNext, OpenStep, CloseStep, OpenRefused, OpenCheck, DescriptorFails,
         DescriptorOpens, LockOpens, LockFails, LockWrites, VerifyFails, SettingsFail,
         OpenDone, CloseDescriptor, CloseUnlock, CloseRemove, Crash, lockVars
<1>4. ~faulted
  <2>1. Setter(p) => ~faulted
    BY <1>1, SetterOutcome DEF Outcome, Update, Refused
  <2>2. QED
    BY <2>1 DEF EngineStep, PlainStep, LeakStep, OpenSettings, CloseSettings,
                CrashSettings, engineVars, Fault
<1>5. /\ leaked = {}
      /\ (\A q \in Procs : pc[q] # "open") => dev = conf.found
      /\ \A q \in Procs : pc[q] = "open" =>
            old[q] = conf.found /\ cur[q] = dev /\ Tells(rep[q], dev)
  BY <1>1, <1>3, <1>4 DEF SettledInv
<1>6. /\ Busy(p) => \A q \in Procs : pc[q] # "open"
      /\ pc[p] = "open" => \A q \in Procs : pc[q] = "open" => q = p
  BY <1>1, <1>3 DEF AloneInv, LockedByMe
<1>7. CASE PlainStep(p)
  <2>1. UNCHANGED <<dev, cur, old, rep, conf>>
    BY <1>7 DEF PlainStep, engineVars
  <2>2. leaked' = {}
    BY <1>5, <1>7 DEF PlainStep, OpenRefused, OpenCheck, DescriptorFails,
       DescriptorOpens, LockOpens, LockFails, LockWrites, CloseUnlock, CloseRemove, lockVars
  <2>3. \A q \in Procs : pc'[q] = "open" <=> pc[q] = "open"
    BY <1>2, <1>7 DEF PlainStep, OpenRefused, OpenCheck, DescriptorFails,
       DescriptorOpens, LockOpens, LockFails, LockWrites, CloseUnlock, CloseRemove, lockVars
  <2>4. QED
    BY <1>5, <2>1, <2>2, <2>3
<1>8. CASE LeakStep(p) \/ CrashSettings(p)
  BY <1>8 DEF LeakStep, CrashSettings, Fault
<1>9. CASE OpenSettings(p)
  <2>1. \A q \in Procs : pc[q] # "open"
    BY <1>6, <1>9 DEF OpenSettings, OpenDone, Busy
  <2>2. leaked' = {} /\ \A q \in Procs : pc'[q] = "open" <=> q = p
    BY <1>2, <1>5, <1>9, <2>1 DEF OpenSettings, OpenDone
  <2>3. /\ old'[p] = dev /\ cur'[p] = Raw(dev) /\ dev' = Raw(dev)
        /\ rep'[p] = Detect(Raw(dev)) /\ conf' = conf
    BY <1>1, <1>9 DEF OpenSettings, EngineTypeOK
  <2>4. Tells(rep'[p], dev')
    BY <2>3 DEF Tells, RateTold
  <2>5. QED
    BY <1>5, <2>1, <2>2, <2>3, <2>4
<1>10. CASE CloseSettings(p)
  <2>1. pc[p] = "open"
    BY <1>10 DEF CloseSettings, CloseDescriptor
  <2>2. leaked' = {} /\ \A q \in Procs : pc'[q] # "open"
    BY <1>2, <1>5, <1>6, <1>10 DEF CloseSettings, CloseDescriptor
  <2>3. dev' = old[p] /\ conf' = conf
    BY <1>10 DEF CloseSettings, Fault
  <2>4. QED
    BY <1>5, <2>1, <2>2, <2>3
<1>11. CASE Setter(p)
  <2>1. UNCHANGED <<old, conf, lockVars>> /\ Outcome(p)
    BY <1>1, <1>11, SetterOutcome
  <2>2. pc' = pc /\ leaked' = leaked
    BY <2>1 DEF lockVars
  <2>3. CASE UNCHANGED <<dev, cur, rep, faulted>>
    BY <1>5, <2>1, <2>2, <2>3
  <2>4. ASSUME NEW t \in Termios, NEW r \in Reports, Kept(p, t, r),
               pc[p] = "open", cur' = [cur EXCEPT ![p] = t], dev' = t,
               rep' = [rep EXCEPT ![p] = r]
        PROVE  /\ leaked' = {}
               /\ (\A q \in Procs : pc'[q] # "open") => dev' = conf'.found
               /\ \A q \in Procs : pc'[q] = "open" =>
                     old'[q] = conf'.found /\ cur'[q] = dev' /\ Tells(rep'[q], dev')
    <3>1. cur'[p] = t /\ rep'[p] = r
      BY <1>1, <2>4 DEF EngineTypeOK
    <3>2. Tells(r, t)
      BY <1>5, <2>4 DEF Kept
    <3>3. QED
      BY <1>5, <1>6, <2>1, <2>2, <2>4, <3>1, <3>2
  <2>5. ASSUME NEW r \in Reports, Kept(p, cur[p], r), rep' = [rep EXCEPT ![p] = r],
               UNCHANGED <<dev, cur>>
        PROVE  /\ leaked' = {}
               /\ (\A q \in Procs : pc'[q] # "open") => dev' = conf'.found
               /\ \A q \in Procs : pc'[q] = "open" =>
                     old'[q] = conf'.found /\ cur'[q] = dev' /\ Tells(rep'[q], dev')
    <3>1. rep'[p] = r /\ \A q \in Procs \ {p} : rep'[q] = rep[q]
      BY <1>1, <2>5 DEF EngineTypeOK
    <3>2. pc[p] = "open" => Tells(r, dev)
      BY <1>5, <2>5 DEF Kept
    <3>3. QED
      BY <1>5, <2>1, <2>2, <2>5, <3>1, <3>2
  <2>6. QED
    BY <1>5, <2>1, <2>3, <2>4, <2>5 DEF Outcome, Update, Refused
<1>12. QED
  BY <1>7, <1>8, <1>9, <1>10, <1>11 DEF EngineStep

LEMMA SettingsStep == SettingsInv /\ [PortNext]_portVars => SettingsInv'
<1> SUFFICES ASSUME SettingsInv, [PortNext]_portVars PROVE SettingsInv'
  OBVIOUS
<1>1. LockInv'
  BY LockStep, PortLocks DEF SettingsInv
<1>2. CASE EngineNext
  BY <1>1, <1>2, EngineTypeStep, SettledStep DEF SettingsInv, EngineNext
<1>3. CASE UNCHANGED <<engineVars, lockVars>>
  BY <1>1, <1>3 DEF SettingsInv, EngineTypeOK, SettledInv, engineVars, lockVars
<1>4. QED
  BY <1>2, <1>3, PortEngine DEF portVars

(* The device has the data bits, stop bits and flow control that the object*)
(* reports, and its rate when both directions are reported with the same   *)
(* standard one, while a process has the port to itself and tcsetattr()    *)
(* refused nothing, after any sequence of setters, of one direction or     *)
(* both, in any order; and close() leaves its termios as open() found it,  *)
(* for any number of processes that take turns.                            *)
THEOREM PortKeepsSettings == PortSpec => []SettingsKept
<1>1. SettingsInv => SettingsReported
  BY DEF SettingsInv, SettledInv, SettingsReported, Tells, Fields
<1>2. SettingsInv => LeftAsFound
  BY DEF SettingsInv, SettledInv, LeftAsFound
<1>3. QED
  BY InitSettings, SettingsStep, <1>1, <1>2, PTL DEF PortSpec, SettingsKept

-----------------------------------------------------------------------------
(* The calls in progress                                                   *)

Waits == {"waitR", "waitW"}

IsSequence(s) == \E S : s \in Seq(S)

\* A slot or a flush that a wait has called lies on the frame of the wait, and
\* close() lies on nothing.
FrameOK(st, i) ==
    /\ DOMAIN st[i] = {"kind", "then", "tmp"}
    /\ st[i].kind \in {"ready", "written"} /\ st[i].then \in Waits =>
          i > 1 /\ st[i - 1].kind = st[i].then
    /\ st[i].kind = "closing" \/ st[i].then = "close" => i = 1

Shape(st) == IsSequence(st) /\ \A i \in 1 .. Len(st) : FrameOK(st, i)

\* A slot of readyRead() is running.
HasReady(st) == \E i \in 1 .. Len(st) : st[i].kind = "ready"

\* The frame of the wait that calls is the innermost.
OnWait(st, caller) == caller \in Waits => st # << >> /\ st[Len(st)].kind = caller

LEMMA StackFacts ==
    ASSUME NEW st, IsSequence(st)
    PROVE  /\ Len(st) \in Nat /\ DOMAIN st = 1 .. Len(st)
           /\ st # << >> <=> Len(st) >= 1
BY DEF IsSequence

LEMMA Pushed ==
    ASSUME NEW st, IsSequence(st), NEW f
    PROVE  /\ IsSequence(Append(st, f))
           /\ Len(Append(st, f)) = Len(st) + 1
           /\ \A i \in 1 .. Len(st) : Append(st, f)[i] = st[i]
           /\ Append(st, f)[Len(st) + 1] = f
<1>1. PICK S : st \in Seq(S)
  BY DEF IsSequence
<1>2. st \in Seq(S \union {f})
  BY <1>1
<1>3. QED
  BY <1>2 DEF IsSequence

LEMMA Popped ==
    ASSUME NEW st, IsSequence(st), st # << >>
    PROVE  /\ IsSequence(Front(st))
           /\ Len(Front(st)) = Len(st) - 1
           /\ \A i \in 1 .. Len(st) - 1 : Front(st)[i] = st[i]
<1>1. PICK S : st \in Seq(S)
  BY DEF IsSequence
<1>2. Len(st) \in Nat /\ Len(st) >= 1
  BY <1>1
<1>3. PICK n \in Nat : n = Len(st) - 1
  BY <1>2
<1>4. Front(st) = SubSeq(st, 1, n)
  BY <1>3 DEF Front
<1>5. SubSeq(st, 1, n) \in Seq(S) /\ Len(SubSeq(st, 1, n)) = n
  BY <1>1, <1>2, <1>3, SubSeqProperties
<1>6. \A i \in 1 .. n : SubSeq(st, 1, n)[i] = st[i]
  BY <1>1, <1>2, <1>3, SubSeqProperties
<1>7. QED
  BY <1>3, <1>4, <1>5, <1>6 DEF IsSequence

LEMMA Changed ==
    ASSUME NEW st, IsSequence(st), st # << >>, NEW f
    PROVE  /\ IsSequence([st EXCEPT ![Len(st)] = f])
           /\ Len([st EXCEPT ![Len(st)] = f]) = Len(st)
           /\ \A i \in 1 .. Len(st) - 1 : [st EXCEPT ![Len(st)] = f][i] = st[i]
           /\ [st EXCEPT ![Len(st)] = f][Len(st)] = f
<1>1. PICK S : st \in Seq(S)
  BY DEF IsSequence
<1>2. st \in Seq(S \union {f})
  BY <1>1
<1>3. Len(st) \in 1 .. Len(st)
  BY <1>1
<1>4. QED
  BY <1>2, <1>3 DEF IsSequence

LEMMA PushShape ==
    ASSUME NEW st, Shape(st), NEW kind, NEW then, NEW tmp,
           kind \in {"ready", "written"} => OnWait(st, then),
           kind = "closing" \/ then = "close" => st = << >>
    PROVE  /\ Shape(Append(st, Frame(kind, then, tmp)))
           /\ HasReady(st) \/ kind = "ready" => HasReady(Append(st, Frame(kind, then, tmp)))
<1> DEFINE f == Frame(kind, then, tmp)
           app == Append(st, f)
<1>1. f.kind = kind /\ f.then = then /\ DOMAIN f = {"kind", "then", "tmp"}
  BY DEF Frame
<1>2. Len(st) \in Nat /\ (st # << >> <=> Len(st) >= 1) /\ IsSequence(st)
  BY StackFacts DEF Shape
<1>3. /\ IsSequence(app) /\ Len(app) = Len(st) + 1
      /\ \A i \in 1 .. Len(st) : app[i] = st[i]
      /\ app[Len(st) + 1] = f
  BY <1>2, Pushed
<1> HIDE DEF f, app
<1>4. ASSUME NEW i \in 1 .. Len(app) PROVE FrameOK(app, i)
  <2>1. CASE i <= Len(st)
    BY <1>2, <1>3, <2>1 DEF FrameOK, Shape
  <2>2. CASE i = Len(st) + 1
    BY <1>1, <1>2, <1>3, <2>2 DEF FrameOK, OnWait
  <2>3. QED
    BY <1>2, <1>3, <2>1, <2>2
<1>5. HasReady(st) \/ kind = "ready" => HasReady(app)
  BY <1>1, <1>2, <1>3 DEF HasReady
<1>6. QED
  BY <1>3, <1>4, <1>5 DEF Shape, f, app

LEMMA PopShape ==
    ASSUME NEW st, Shape(st), st # << >>
    PROVE  /\ Shape(Front(st))
           /\ st[Len(st)].kind # "ready" /\ HasReady(st) => HasReady(Front(st))
<1>1. Len(st) \in Nat /\ Len(st) >= 1 /\ IsSequence(st)
  BY StackFacts DEF Shape
<1>2. /\ IsSequence(Front(st)) /\ Len(Front(st)) = Len(st) - 1
      /\ \A i \in 1 .. Len(st) - 1 : Front(st)[i] = st[i]
  BY <1>1, Popped
<1>3. ASSUME NEW i \in 1 .. Len(Front(st)) PROVE FrameOK(Front(st), i)
  BY <1>1, <1>2 DEF FrameOK, Shape
<1>4. st[Len(st)].kind # "ready" /\ HasReady(st) => HasReady(Front(st))
  BY <1>1, <1>2 DEF HasReady
<1>5. QED
  BY <1>2, <1>3, <1>4 DEF Shape

LEMMA ThenShape ==
    ASSUME NEW st, Shape(st), st # << >>, st[Len(st)].kind \in Waits, NEW then,
           then # "close"
    PROVE  /\ Shape([st EXCEPT ![Len(st)].then = then])
           /\ HasReady(st) => HasReady([st EXCEPT ![Len(st)].then = then])
<1> DEFINE f == [st[Len(st)] EXCEPT !.then = then]
           ex == [st EXCEPT ![Len(st)] = f]
<1>1. Len(st) \in Nat /\ Len(st) >= 1 /\ IsSequence(st)
  BY StackFacts DEF Shape
<1>2. DOMAIN st[Len(st)] = {"kind", "then", "tmp"}
  BY <1>1 DEF Shape, FrameOK
<1>3. f.kind = st[Len(st)].kind /\ f.then = then /\ DOMAIN f = {"kind", "then", "tmp"}
  BY <1>2
<1>4. /\ IsSequence(ex) /\ Len(ex) = Len(st)
      /\ \A i \in 1 .. Len(st) - 1 : ex[i] = st[i]
      /\ ex[Len(st)] = f
  BY <1>1, Changed
<1>5. [st EXCEPT ![Len(st)].then = then] = ex
  OBVIOUS
<1> HIDE DEF f, ex
<1>6. ASSUME NEW i \in 1 .. Len(ex) PROVE FrameOK(ex, i)
  <2>1. CASE i < Len(st)
    BY <1>1, <1>4, <2>1 DEF FrameOK, Shape
  <2>2. CASE i = Len(st)
    BY <1>1, <1>3, <1>4, <2>2 DEF FrameOK, Waits
  <2>3. QED
    BY <1>1, <1>4, <2>1, <2>2
<1>7. HasReady(st) => HasReady(ex)
  BY <1>1, <1>3, <1>4 DEF HasReady
<1>8. QED
  BY <1>4, <1>5, <1>6, <1>7 DEF Shape

LEMMA AfterReadShape ==
    ASSUME NEW st, Shape(st), NEW caller, OnWait(st, caller), NEW result
    PROVE  /\ Shape(AfterRead(st, caller, result))
           /\ HasReady(st) => HasReady(AfterRead(st, caller, result))
<1>1. CASE caller \notin Waits
  BY <1>1 DEF AfterRead, Waits
<1>2. CASE caller \in Waits
  <2>1. st # << >> /\ st[Len(st)].kind \in Waits
    BY <1>2 DEF OnWait
  <2>2. Shape(Front(st)) /\ (HasReady(st) => HasReady(Front(st)))
    BY <2>1, PopShape DEF Waits
  <2>3. \A then : then # "close" =>
           /\ Shape([st EXCEPT ![Len(st)].then = then])
           /\ HasReady(st) => HasReady([st EXCEPT ![Len(st)].then = then])
    BY <2>1, ThenShape
  <2>4. PICK then : /\ then = IF st[Len(st)].then = "both" THEN "write" ELSE "select"
                    /\ AfterRead(st, caller, result) \in
                          {Front(st), [st EXCEPT ![Len(st)].then = then]}
    BY <1>2 DEF AfterRead, Waits
  <2>5. then # "close"
    BY <2>4
  <2>6. QED
    BY <2>2, <2>3, <2>4, <2>5
<1>3. QED
  BY <1>1, <1>2

LEMMA AfterFlushShape ==
    ASSUME NEW st, Shape(st), NEW then, NEW tmp, NEW po, OnWait(st, then),
           then = "close" => st = << >>
    PROVE  /\ Shape(AfterFlush(st, then, tmp, po))
           /\ HasReady(st) => HasReady(AfterFlush(st, then, tmp, po))
<1>1. CASE then \in Waits
  <2>1. st # << >> /\ st[Len(st)].kind \in Waits
    BY <1>1 DEF OnWait
  <2>2. Shape(Front(st)) /\ (HasReady(st) => HasReady(Front(st)))
    BY <2>1, PopShape DEF Waits
  <2>3. /\ Shape([st EXCEPT ![Len(st)].then = "select"])
        /\ HasReady(st) => HasReady([st EXCEPT ![Len(st)].then = "select"])
    BY <2>1, ThenShape
  <2>4. AfterFlush(st, then, tmp, po) \in {Front(st), [st EXCEPT ![Len(st)].then = "select"]}
    BY <1>1 DEF AfterFlush, Waits
  <2>5. QED
    BY <2>2, <2>3, <2>4
<1>2. CASE then = "close"
  <2>1. AfterFlush(st, then, tmp, po) = Append(st, Frame("closing", "", 0))
    BY <1>2 DEF AfterFlush
  <2>2. QED
    BY <1>2, <2>1, PushShape
<1>3. CASE then \notin Waits \union {"close"}
  BY <1>3 DEF AfterFlush, Waits
<1>4. QED
  BY <1>1, <1>2, <1>3

\* What lies below the frame that returns.
LEMMA BelowWait ==
    ASSUME NEW st, Shape(st), st # << >>, st[Len(st)].kind \in {"ready", "written"}
    PROVE  /\ OnWait(Front(st), st[Len(st)].then)
           /\ st[Len(st)].then = "close" => Front(st) = << >>
<1>1. Len(st) \in Nat /\ Len(st) >= 1 /\ IsSequence(st)
  BY StackFacts DEF Shape
<1>2. /\ IsSequence(Front(st)) /\ Len(Front(st)) = Len(st) - 1
      /\ \A i \in 1 .. Len(st) - 1 : Front(st)[i] = st[i]
  BY <1>1, Popped
<1>3. FrameOK(st, Len(st))
  BY <1>1 DEF Shape
<1>4. Front(st) # << >> <=> Len(st) - 1 >= 1
  BY <1>1, <1>2, StackFacts
<1>5. st[Len(st)].then = "close" => Front(st) = << >>
  <2>1. PICK n \in Nat : n = Len(st)
    BY <1>1
  <2>2. st[n].then = "close" => n = 1
    BY <1>3, <2>1 DEF FrameOK
  <2>3. Front(st) # << >> => n - 1 >= 1
    BY <1>4, <2>1
  <2>4. n = 1 => Front(st) = << >>
    BY <2>3
  <2>5. st[Len(st)].then = st[n].then
    BY <2>1
  <2>6. QED
    BY <2>2, <2>4, <2>5, Zenon
<1>6. OnWait(Front(st), st[Len(st)].then)
  <2>1. ASSUME st[Len(st)].then \in Waits
        PROVE  Len(st) > 1 /\ st[Len(st) - 1].kind = st[Len(st)].then
    BY <1>3, <2>1 DEF FrameOK
  <2>2. QED
    BY <1>1, <1>2, <1>4, <2>1 DEF OnWait
<1>7. QED
  BY <1>5, <1>6

-----------------------------------------------------------------------------
(* The read notifier                                                       *)

PortFields == {"buffered", "readMax", "readBuf", "writeBuf", "called", "nSet", "nState",
               "emitR", "emitW", "rdOn", "wrOn"}

IsPort(po) ==
    /\ DOMAIN po = PortFields
    /\ po.called \in BOOLEAN /\ po.nSet \in BOOLEAN
    /\ po.nState \in BOOLEAN /\ po.rdOn \in BOOLEAN

\* Whoever has entered a notification, or stopped the notifier of one that was
\* nested, has left a slot of readyRead() behind, at whose end it starts again.
Restarts(po, st, mute, opened) ==
    /\ po.called => HasReady(st)
    /\ ~mute /\ po.nSet => po.nState
    /\ ~mute /\ opened /\ ~po.rdOn => po.nSet /\ HasReady(st)

NotifierInv ==
    /\ muted \in BOOLEAN
    /\ IsPort(port)
    /\ Shape(stack)
    /\ stack # << >> => IsOpen
    /\ Restarts(port, stack, muted, IsOpen)

PortInv == LockInv /\ NotifierInv

LEMMA InitNotifier == PortInit => NotifierInv
<1> SUFFICES ASSUME PortInit PROVE NotifierInv
  OBVIOUS
<1>1. stack = << >> /\ port = NewPort /\ muted = FALSE
  BY DEF PortInit
<1>2. IsPort(port) /\ ~port.called /\ ~port.nSet
  BY <1>1 DEF IsPort, NewPort, PortFields
<1>3. IsSequence(stack) /\ Len(stack) = 0
  BY <1>1 DEF IsSequence
<1>4. ~IsOpen
  BY MeIsProc DEF PortInit, EngineInit, LockInit, IsOpen
<1>5. Shape(stack)
  BY <1>3 DEF Shape
<1>6. Restarts(port, stack, muted, IsOpen)
  BY <1>2, <1>4 DEF Restarts
<1>7. QED
  BY <1>1, <1>2, <1>4, <1>5, <1>6 DEF NotifierInv

\* The end of a notification of an open port: nobody is in it any more, and a
\* notifier that nothing has muted is on.
LEMMA LeftRestarts ==
    ASSUME NEW po, IsPort(po), NEW st, NEW mute \in BOOLEAN,
           ~mute /\ po.nSet => po.nState,
           ~mute /\ ~po.rdOn => po.nSet
    PROVE  /\ IsPort(Left(po))
           /\ Restarts(Left(po), st, mute, TRUE)
<1> DEFINE restore == po.nSet /\ po.nState # po.rdOn
           new == Left(po)
<1>1. /\ DOMAIN new = PortFields
      /\ new.called = FALSE
      /\ new.rdOn = IF restore THEN po.nState ELSE po.rdOn
      /\ new.nSet = (po.nSet /\ ~restore)
      /\ new.nState = po.nState
  BY DEF Left, IsPort, PortFields
<1> HIDE DEF new
<1>2. IsPort(new)
  BY <1>1 DEF IsPort
<1>3. Restarts(new, st, mute, TRUE)
  BY <1>1 DEF Restarts, IsPort
<1>4. QED
  BY <1>2, <1>3 DEF new

\* A notification is entered, by a port that is open.
LEMMA EnteredRestarts ==
    ASSUME NotifierInv, IsOpen
    PROVE  /\ IsPort(Entered)
           /\ ~muted /\ Entered.nSet => Entered.nState
           /\ ~muted /\ ~Entered.rdOn => Entered.nSet /\ HasReady(stack)
<1>1. IsPort(port) /\ Restarts(port, stack, muted, TRUE)
  BY DEF NotifierInv
<1>2. CASE port.called /\ ~port.nSet
  <2>1. /\ DOMAIN Entered = PortFields
        /\ Entered.called = port.called /\ Entered.nSet = TRUE
        /\ Entered.nState = port.rdOn /\ Entered.rdOn = FALSE
    BY <1>1, <1>2 DEF Entered, IsPort, PortFields
  <2>2. QED
    BY <1>1, <1>2, <2>1 DEF IsPort, Restarts
<1>3. CASE ~(port.called /\ ~port.nSet)
  <2>1. /\ DOMAIN Entered = PortFields
        /\ Entered.called = TRUE /\ Entered.nSet = port.nSet
        /\ Entered.nState = port.nState /\ Entered.rdOn = port.rdOn
    BY <1>1, <1>3 DEF Entered, IsPort, PortFields
  <2>2. QED
    BY <1>1, <1>3, <2>1 DEF IsPort, Restarts
<1>4. QED
  BY <1>2, <1>3

Callers == Waits \union {"event"}

LEMMA ReadStep ==
    ASSUME NotifierInv, IsOpen, NEW caller \in Callers, OnWait(stack, caller),
           CanReadNotification(caller)
    PROVE  NotifierInv'
<1> USE DEF NotifierInv
<1>1. IsOpen'
  BY DEF CanReadNotification, lockVars, IsOpen
<1>2. /\ IsPort(Entered)
      /\ ~muted /\ Entered.nSet => Entered.nState
      /\ ~muted /\ ~Entered.rdOn => Entered.nSet /\ HasReady(stack)
  BY EnteredRestarts
<1>3. \A result : /\ Shape(AfterRead(stack, caller, result))
                  /\ HasReady(stack) => HasReady(AfterRead(stack, caller, result))
  BY AfterReadShape
<1>4. LET pushed == Append(stack, Frame("ready", caller, 0))
      IN  Shape(pushed) /\ HasReady(pushed)
  BY PushShape DEF Callers, Waits
<1>5. CASE CanReadRefuses(caller)
  <2>1. /\ DOMAIN port' = PortFields /\ port'.called = FALSE
        /\ port'.nSet = Entered.nSet /\ port'.nState = Entered.nState
        /\ port'.rdOn = Entered.rdOn
    <3>1. \/ port' = [Entered EXCEPT !.called = FALSE]
          \/ \E b : port' = [Entered EXCEPT !.called = FALSE, !.readBuf = b]
      BY <1>5 DEF CanReadRefuses
    <3>2. QED
      BY <1>2, <3>1 DEF IsPort, PortFields
  <2>2. stack' = AfterRead(stack, caller, FALSE) /\ muted' = muted
    BY <1>5 DEF CanReadRefuses
  <2>3. IsPort(port')
    BY <1>2, <2>1 DEF IsPort
  <2>4. Restarts(port', stack', muted', TRUE)
    BY <1>2, <1>3, <2>1, <2>2 DEF Restarts
  <2>5. QED
    BY <1>1, <1>3, <2>2, <2>3, <2>4 DEF Restarts
<1>6. ASSUME NEW k, CanReadBuffers(caller, k) PROVE NotifierInv'
  <2> DEFINE filled == [Entered EXCEPT !.readBuf = Received(k)]
             full == Full(filled)
             po == setReadNotificationEnabled(filled, filled.rdOn /\ ~full)
  <2>1. /\ muted' = (muted \/ full)
        /\ \/ port' = Left(po) /\ stack' = AfterRead(stack, caller, TRUE)
           \/ /\ port' = [po EXCEPT !.emitR = TRUE]
              /\ stack' = Append(stack, Frame("ready", caller, 0))
    BY <1>6 DEF CanReadBuffers
  <2>2. full \in BOOLEAN
    BY DEF Full
  <2>3. /\ DOMAIN po = PortFields
        /\ po.called = Entered.called /\ po.nSet = Entered.nSet
        /\ po.nState = Entered.nState /\ po.rdOn = (Entered.rdOn /\ ~full)
    BY <1>2 DEF IsPort, PortFields, setReadNotificationEnabled
  <2> HIDE DEF filled, full, po
  <2>4. IsPort(po)
    BY <1>2, <2>2, <2>3 DEF IsPort
  <2>5. muted' \in BOOLEAN /\ (~muted' => ~muted /\ ~full)
    BY <2>1, <2>2
  <2>6. /\ ~muted' /\ po.nSet => po.nState
        /\ ~muted' /\ ~po.rdOn => po.nSet
    BY <1>2, <2>3, <2>5
  <2>7. CASE port' = Left(po) /\ stack' = AfterRead(stack, caller, TRUE)
    <3>1. IsPort(port') /\ Restarts(port', stack', muted', TRUE)
      BY <2>4, <2>5, <2>6, <2>7, LeftRestarts
    <3>2. QED
      BY <1>1, <1>3, <2>5, <2>7, <3>1 DEF Restarts
  <2>8. CASE /\ port' = [po EXCEPT !.emitR = TRUE]
             /\ stack' = Append(stack, Frame("ready", caller, 0))
    <3>1. /\ DOMAIN port' = PortFields
          /\ port'.called = po.called /\ port'.nSet = po.nSet
          /\ port'.nState = po.nState /\ port'.rdOn = po.rdOn
      BY <2>3, <2>8 DEF PortFields
    <3>2. IsPort(port')
      BY <2>4, <3>1 DEF IsPort
    <3>3. Restarts(port', stack', muted', TRUE)
      BY <1>4, <2>6, <2>8, <3>1 DEF Restarts
    <3>4. QED
      BY <1>1, <1>4, <2>5, <2>8, <3>2, <3>3 DEF Restarts
  <2>9. QED
    BY <2>1, <2>7, <2>8
<1>7. CASE CanReadUnbuffered(caller)
  <2>1. muted' = muted
    BY <1>7 DEF CanReadUnbuffered
  <2>2. CASE /\ port' = [Entered EXCEPT !.emitR = TRUE]
             /\ stack' = Append(stack, Frame("ready", caller, 0))
    <3>1. /\ DOMAIN port' = PortFields
          /\ port'.called = Entered.called /\ port'.nSet = Entered.nSet
          /\ port'.nState = Entered.nState /\ port'.rdOn = Entered.rdOn
      BY <1>2, <2>2 DEF IsPort, PortFields
    <3>2. IsPort(port')
      BY <1>2, <3>1 DEF IsPort
    <3>3. Restarts(port', stack', muted', TRUE)
      BY <1>2, <1>4, <2>1, <2>2, <3>1 DEF Restarts
    <3>4. QED
      BY <1>1, <1>4, <2>1, <2>2, <3>2, <3>3 DEF Restarts
  <2>3. CASE port' = Left(Entered) /\ stack' = AfterRead(stack, caller, TRUE)
    <3>1. IsPort(port') /\ Restarts(port', stack', muted', TRUE)
      BY <1>2, <2>1, <2>3, LeftRestarts
    <3>2. QED
      BY <1>1, <1>3, <2>1, <2>3, <3>1 DEF Restarts
  <2>4. QED
    BY <1>7, <2>2, <2>3 DEF CanReadUnbuffered
<1>8. QED
  BY <1>5, <1>6, <1>7 DEF CanReadNotification

\* A step that leaves the notifier and its flags alone, and lets no slot of
\* readyRead() return.
LEMMA SameNotifier ==
    ASSUME NotifierInv, IsOpen, IsOpen', muted' = muted,
           DOMAIN port' = PortFields,
           port'.called = port.called, port'.nSet = port.nSet,
           port'.nState = port.nState,
           port'.rdOn = port.rdOn \/ port'.rdOn = TRUE,
           Shape(stack'), HasReady(stack) => HasReady(stack')
    PROVE  NotifierInv'
<1>1. IsPort(port) /\ Restarts(port, stack, muted, TRUE) /\ muted \in BOOLEAN
  BY DEF NotifierInv
<1>2. IsPort(port')
  BY <1>1 DEF IsPort
<1>3. Restarts(port', stack', muted', TRUE)
  BY <1>1 DEF Restarts
<1>4. QED
  BY <1>1, <1>2, <1>3 DEF NotifierInv, Restarts

LEMMA FlushStep ==
    ASSUME NotifierInv, IsOpen, NEW then, OnWait(stack, then),
           then = "close" => stack = << >>,
           Flush(then)
    PROVE  NotifierInv'
<1>1. IsPort(port) /\ Shape(stack)
  BY DEF NotifierInv
<1>2. IsOpen' /\ muted' = muted
  BY DEF Flush, lockVars, IsOpen
<1> DEFINE Same(po) ==
              /\ DOMAIN po = PortFields
              /\ po.called = port.called /\ po.nSet = port.nSet
              /\ po.nState = port.nState /\ po.rdOn = port.rdOn
<1>3. Same(port)
  BY <1>1 DEF IsPort
<1>4. ASSUME NEW po, Same(po), NEW b
      PROVE  /\ Same([po EXCEPT !.writeBuf = b])
             /\ Same([po EXCEPT !.emitW = b])
             /\ Same([po EXCEPT !.wrOn = b])
  BY <1>4 DEF PortFields
<1> HIDE DEF Same
<1>5. ASSUME NEW po, Same(po) PROVE Same(FlushLeft(po))
  BY <1>4, <1>5 DEF FlushLeft, setWriteNotificationEnabled
<1>6. \A tmp, po : /\ Shape(AfterFlush(stack, then, tmp, po))
                   /\ HasReady(stack) => HasReady(AfterFlush(stack, then, tmp, po))
  BY <1>1, AfterFlushShape
<1>7. \A tmp : LET pushed == Append(stack, Frame("written", then, tmp))
               IN  Shape(pushed) /\ (HasReady(stack) => HasReady(pushed))
  BY <1>1, PushShape
<1>8. Same(port') /\ Shape(stack') /\ (HasReady(stack) => HasReady(stack'))
  <2>1. ASSUME NEW k, FlushWrites(then, k)
        PROVE  Same(port') /\ Shape(stack') /\ (HasReady(stack) => HasReady(stack'))
    <3>1. Same(Took(k))
      BY <1>3, <1>4 DEF Took
    <3>2. Same([Took(k) EXCEPT !.emitW = TRUE]) /\ Same(FlushLeft(Took(k)))
      BY <1>4, <1>5, <3>1
    <3>3. \/ /\ port' = [Took(k) EXCEPT !.emitW = TRUE]
             /\ stack' = Append(stack, Frame("written", then, port.writeBuf.size))
          \/ /\ port' = FlushLeft(Took(k))
             /\ stack' = AfterFlush(stack, then, port.writeBuf.size, Took(k))
      BY <2>1 DEF FlushWrites
    <3>4. QED
      BY <1>6, <1>7, <3>2, <3>3
  <2>2. CASE FlushFails(then)
    <3> DEFINE po == [port EXCEPT !.writeBuf = RB!EmptyRing]
    <3>1. Same(po) /\ Same(FlushLeft(po))
      BY <1>3, <1>4, <1>5
    <3>2. /\ port' \in {po, FlushLeft(po)}
          /\ stack' = AfterFlush(stack, then, port.writeBuf.size, po)
      BY <2>2 DEF FlushFails
    <3>3. QED
      BY <1>6, <3>1, <3>2
  <2>3. CASE FlushNothing(then)
    <3>1. /\ port' \in {port, FlushLeft(port)}
          /\ stack' = AfterFlush(stack, then, 0, port)
      BY <2>3 DEF FlushNothing
    <3>2. QED
      BY <1>3, <1>5, <1>6, <3>1
  <2>4. QED
    BY <2>1, <2>2, <2>3 DEF Flush
<1>9. QED
  BY <1>2, <1>8, SameNotifier DEF Same

LEMMA ReadyReadReturnsStep ==
    ASSUME NotifierInv, ReadyReadReturns
    PROVE  NotifierInv'
<1> DEFINE below == Front(stack)
           then == stack[Len(stack)].then
           po == [port EXCEPT !.emitR = FALSE]
<1>1. IsPort(port) /\ Shape(stack) /\ muted \in BOOLEAN
  BY DEF NotifierInv
<1>2. stack # << >> /\ stack[Len(stack)].kind = "ready"
  BY DEF ReadyReadReturns, TopIs, Last
<1>3. IsOpen /\ IsOpen' /\ muted' = muted
  BY <1>2 DEF NotifierInv, ReadyReadReturns, lockVars, IsOpen
<1>4. port' = Left(po) /\ stack' = AfterRead(below, then, TRUE)
  BY DEF ReadyReadReturns, Pop, Last
<1>5. Shape(below) /\ OnWait(below, then)
  BY <1>1, <1>2, PopShape, BelowWait
<1>6. Shape(stack')
  BY <1>4, <1>5, AfterReadShape
<1>7. /\ IsPort(po)
      /\ po.nSet = port.nSet /\ po.nState = port.nState /\ po.rdOn = port.rdOn
  BY <1>1 DEF IsPort, PortFields
<1>8. Restarts(port, stack, muted, TRUE)
  BY <1>3 DEF NotifierInv
<1>9. /\ ~muted /\ po.nSet => po.nState
      /\ ~muted /\ ~po.rdOn => po.nSet
  BY <1>7, <1>8 DEF Restarts
<1> HIDE DEF po
<1>10. IsPort(port') /\ Restarts(port', stack', muted, TRUE)
  BY <1>1, <1>4, <1>7, <1>9, LeftRestarts
<1>11. QED
  BY <1>1, <1>3, <1>6, <1>10 DEF NotifierInv, Restarts

LEMMA BytesWrittenReturnsStep ==
    ASSUME NotifierInv, BytesWrittenReturns
    PROVE  NotifierInv'
<1> DEFINE below == Front(stack)
           then == stack[Len(stack)].then
           po == FlushLeft([port EXCEPT !.emitW = FALSE])
<1>1. IsPort(port) /\ Shape(stack)
  BY DEF NotifierInv
<1>2. stack # << >> /\ stack[Len(stack)].kind = "written"
  BY DEF BytesWrittenReturns, TopIs, Last
<1>3. IsOpen /\ IsOpen' /\ muted' = muted
  BY <1>2 DEF NotifierInv, BytesWrittenReturns, lockVars, IsOpen
<1>4. \E tmp : port' \in {port, po} /\ stack' = AfterFlush(below, then, tmp, po)
  BY DEF BytesWrittenReturns, Pop, Last
<1>5. /\ Shape(below) /\ OnWait(below, then)
      /\ then = "close" => below = << >>
      /\ HasReady(stack) => HasReady(below)
  BY <1>1, <1>2, PopShape, BelowWait
<1>6. Shape(stack') /\ (HasReady(stack) => HasReady(stack'))
  BY <1>4, <1>5, AfterFlushShape
<1>7. /\ DOMAIN po = PortFields
      /\ po.called = port.called /\ po.nSet = port.nSet
      /\ po.nState = port.nState /\ po.rdOn = port.rdOn
  BY <1>1 DEF IsPort, PortFields, FlushLeft, setWriteNotificationEnabled
<1> HIDE DEF po
<1>8. /\ DOMAIN port' = PortFields
      /\ port'.called = port.called /\ port'.nSet = port.nSet
      /\ port'.nState = port.nState /\ port'.rdOn = port.rdOn
  BY <1>1, <1>4, <1>7 DEF IsPort
<1>9. QED
  BY <1>3, <1>6, <1>8, SameNotifier

LEMMA ProgramStep ==
    ASSUME NotifierInv, Program
    PROVE  NotifierInv'
<1>1. IsPort(port) /\ Shape(stack) /\ muted \in BOOLEAN
  BY DEF NotifierInv
<1>2. IsOpen
  BY DEF Program, ReadData, WriteData, FlushCalled, Reset, SetReadBufferSize,
         WaitForReadyRead, WaitForBytesWritten, InProgram
<1>3. IsOpen'
  BY <1>2 DEF Program, ReadData, WriteData, FlushCalled, Flush, Reset, SetReadBufferSize,
         WaitForReadyRead, WaitForBytesWritten, lockVars, IsOpen
<1> DEFINE Same(po) ==
              /\ DOMAIN po = PortFields
              /\ po.called = port.called /\ po.nSet = port.nSet
              /\ po.nState = port.nState
              /\ po.rdOn = port.rdOn \/ po.rdOn = TRUE
<1>4. Same(port)
  BY <1>1 DEF IsPort
<1>5. ASSUME Same(port'), muted' = muted, stack' = stack PROVE NotifierInv'
  BY <1>1, <1>2, <1>3, <1>5, SameNotifier
<1>6. ASSUME NEW n \in 1 .. 2, ReadData(n) PROVE NotifierInv'
  <2>1. port' = port \/ \E b : port' = [port EXCEPT !.readBuf = b]
    BY <1>6 DEF ReadData
  <2>2. Same(port')
    BY <1>4, <2>1 DEF PortFields
  <2>3. QED
    BY <1>5, <1>6, <2>2 DEF ReadData
<1>7. ASSUME NEW n \in 1 .. 2, WriteData(n) PROVE NotifierInv'
  <2>1. \/ stack' = stack
        \/ stack' = Append(stack, Frame("written", "write", 0))
    BY <1>7 DEF WriteData
  <2>2. Shape(stack') /\ (HasReady(stack) => HasReady(stack'))
    BY <1>1, <2>1, PushShape DEF OnWait, Waits
  <2>3. port' = port \/ \E b : port' = [port EXCEPT !.writeBuf = b, !.wrOn = TRUE]
    BY <1>7 DEF WriteData
  <2>4. Same(port')
    BY <1>4, <2>3 DEF PortFields
  <2>5. QED
    BY <1>2, <1>3, <1>7, <2>2, <2>4, SameNotifier DEF WriteData
<1>8. CASE FlushCalled
  BY <1>2, <1>8, FlushStep DEF FlushCalled, OnWait, Waits
<1>9. CASE Reset
  <2>1. \E b, c : port' = [port EXCEPT !.readBuf = b, !.writeBuf = c]
    BY <1>9 DEF Reset, ClearBuffers
  <2>2. Same(port')
    BY <1>4, <2>1 DEF PortFields
  <2>3. QED
    BY <1>5, <1>9, <2>2 DEF Reset
<1>10. ASSUME NEW size \in conf.sizes, SetReadBufferSize(size) PROVE NotifierInv'
  <2> DEFINE allowed == ~port.called /\ (size = 0 \/ port.readBuf.size < size)
  <2>1. port' = [port EXCEPT !.readMax = size, !.rdOn = @ \/ allowed]
    BY <1>10 DEF SetReadBufferSize
  <2>2. /\ DOMAIN port' = PortFields
        /\ port'.called = port.called /\ port'.nSet = port.nSet
        /\ port'.nState = port.nState
        /\ port'.rdOn = (port.rdOn \/ allowed)
    BY <1>4, <2>1 DEF PortFields
  <2> HIDE DEF allowed
  <2>3. Same(port')
    BY <1>1, <2>2 DEF IsPort
  <2>4. QED
    BY <1>5, <1>10, <2>3 DEF SetReadBufferSize
<1>11. CASE WaitForReadyRead
  <2>1. /\ stack' = Append(stack, Frame("waitR", "select", 0))
        /\ port' = setReadNotificationEnabled(port, FALSE)
        /\ muted' = (muted \/ port.rdOn)
    BY <1>11 DEF WaitForReadyRead
  <2>2. Shape(stack') /\ (HasReady(stack) => HasReady(stack'))
    BY <1>1, <2>1, PushShape
  <2>3. /\ DOMAIN port' = PortFields
        /\ port'.called = port.called /\ port'.nSet = port.nSet
        /\ port'.nState = port.nState /\ port'.rdOn = FALSE
    BY <1>4, <2>1 DEF PortFields, setReadNotificationEnabled
  <2>4. Restarts(port, stack, muted, TRUE)
    BY <1>2 DEF NotifierInv
  <2>5. Restarts(port', stack', muted', TRUE)
    BY <1>1, <2>1, <2>2, <2>3, <2>4 DEF Restarts, IsPort
  <2>6. QED
    BY <1>1, <1>3, <2>1, <2>2, <2>3, <2>5 DEF NotifierInv, IsPort, Restarts
<1>12. CASE WaitForBytesWritten
  <2>1. stack' = Append(stack, Frame("waitW", "select", 0)) /\ port' = port /\ muted' = muted
    BY <1>12 DEF WaitForBytesWritten
  <2>2. Shape(stack') /\ (HasReady(stack) => HasReady(stack'))
    BY <1>1, <2>1, PushShape
  <2>3. QED
    BY <1>2, <1>3, <1>4, <2>1, <2>2, SameNotifier
<1>13. QED
  BY <1>6, <1>7, <1>8, <1>9, <1>10, <1>11, <1>12 DEF Program

LEMMA WaitingStep ==
    ASSUME NotifierInv, Waiting
    PROVE  NotifierInv'
<1> SUFFICES ASSUME NEW wait \in Waits,
                    Select(wait) \/ SelectTimeout(wait) \/ Round(wait)
             PROVE  NotifierInv'
  BY DEF Waiting, Waits
<1>1. IsPort(port) /\ Shape(stack)
  BY DEF NotifierInv
<1>2. stack # << >> /\ stack[Len(stack)].kind = wait
  BY DEF Select, SelectTimeout, Selecting, Round, RoundOfReading, RoundOfWriting, TopIs, Last
<1>3. IsOpen
  BY <1>2 DEF NotifierInv
<1>4. OnWait(stack, wait) /\ stack[Len(stack)].kind # "ready"
  BY <1>2 DEF OnWait, Waits
<1>5. ASSUME UNCHANGED <<port, muted, lockVars>>,
             Shape(stack'), HasReady(stack) => HasReady(stack')
      PROVE  NotifierInv'
  BY <1>1, <1>3, <1>5, SameNotifier DEF IsPort, IsOpen, lockVars
<1>6. CASE Select(wait)
  <2>1. PICK found \in {"read", "write", "both"} :
           stack' = [stack EXCEPT ![Len(stack)].then = found]
    BY <1>6 DEF Select
  <2>2. Shape(stack') /\ (HasReady(stack) => HasReady(stack'))
    BY <1>1, <1>2, <2>1, ThenShape
  <2>3. QED
    BY <1>5, <1>6, <2>2 DEF Select
<1>7. CASE SelectTimeout(wait)
  <2>1. Shape(stack') /\ (HasReady(stack) => HasReady(stack'))
    BY <1>1, <1>2, <1>4, <1>7, PopShape DEF SelectTimeout, Pop
  <2>2. QED
    BY <1>5, <1>7, <2>1 DEF SelectTimeout
<1>8. CASE RoundOfReading(wait)
  BY <1>3, <1>4, <1>8, ReadStep DEF RoundOfReading, Callers
<1>9. CASE RoundOfWriting(wait)
  <2>1. wait # "close"
    BY DEF Waits
  <2>2. QED
    BY <1>3, <1>4, <1>9, <2>1, FlushStep DEF RoundOfWriting, CanWriteNotification
<1>10. QED
  BY <1>6, <1>7, <1>8, <1>9 DEF Round

\* Whatever the others do, and whichever step of its own open() or close() goes
\* on, the port of Me stays open or stays closed.
LEMMA OtherStepOpen ==
    ASSUME LockTypeOK, NEW p \in Procs, OtherStep(p)
    PROVE  IsOpen' = IsOpen
<1>1. pc \in [Procs -> Phases] /\ Me \in Procs
  BY MeIsProc DEF LockTypeOK
<1>2. CASE Setter(p)
  <2>1. CallSetter(p) \/ SetDtr(p) \/ SetRts(p)
    BY <1>2 DEF Setter
  <2>2. UNCHANGED lockVars
    BY <2>1 DEF CallSetter, SetDtr, SetRts, TriggerOutLine
  <2>3. QED
    BY <2>2 DEF lockVars, IsOpen
<1>3. ASSUME NEW q \in Procs, NEW phase, Goto(q, phase)
      PROVE  IF Me = q THEN pc'[Me] = phase ELSE pc'[Me] = pc[Me]
  BY <1>1, <1>3 DEF Goto
<1>4. CASE PlainStep(p) \/ LeakStep(p)
  <2>1. pc' = pc \/ (pc[p] # "open" /\ \E phase : phase # "open" /\ Goto(p, phase))
    BY <1>4 DEF PlainStep, LeakStep, OpenRefused, OpenCheck, DescriptorFails,
           DescriptorOpens, LockOpens, LockFails, LockWrites, CloseUnlock, CloseRemove,
           VerifyFails, SettingsFail, lockVars
  <2>2. QED
    BY <1>3, <2>1 DEF IsOpen
<1>5. CASE p # Me /\ (OpenSettings(p) \/ CloseSettings(p) \/ CrashSettings(p))
  <2>1. \E phase : Goto(p, phase)
    BY <1>5 DEF OpenSettings, CloseSettings, CrashSettings, OpenDone, CloseDescriptor, Crash
  <2>2. QED
    BY <1>3, <1>5, <2>1 DEF IsOpen
<1>6. QED
  BY <1>2, <1>4, <1>5 DEF OtherStep

LEMMA OtherNotifier ==
    ASSUME LockTypeOK, NotifierInv, NEW p \in Procs, OtherStep(p)
    PROVE  NotifierInv'
<1>1. port' = port /\ stack' = stack /\ muted' = muted
  BY DEF OtherStep, ioVars
<1>2. IsOpen' = IsOpen
  BY OtherStepOpen
<1>3. QED
  BY <1>1, <1>2 DEF NotifierInv, Restarts

LEMMA OpensAndCloses ==
    ASSUME LockTypeOK, NotifierInv, Open \/ CloseFlushes \/ Close \/ MeCrashes
    PROVE  NotifierInv'
<1>1. IsPort(port) /\ Shape(stack) /\ muted \in BOOLEAN
      /\ Restarts(port, stack, muted, IsOpen)
  BY DEF NotifierInv
<1>2. pc \in [Procs -> Phases] /\ Me \in Procs
  BY MeIsProc DEF LockTypeOK
<1>3. CASE Open
  <2>1. stack = << >> /\ stack' = << >> /\ muted' = muted
    BY <1>3 DEF Open, Idle
  <2>2. /\ DOMAIN port' = PortFields
        /\ port'.called = port.called /\ port'.nSet = port.nSet
        /\ port'.nState = port.nState /\ port'.rdOn = TRUE
    BY <1>1, <1>3 DEF Open, IsPort, PortFields
  <2>3. IsPort(port')
    BY <1>1, <2>2 DEF IsPort
  <2>4. Restarts(port', stack', muted', IsOpen')
    BY <1>1, <2>1, <2>2 DEF Restarts
  <2>5. QED
    BY <1>1, <2>1, <2>3, <2>4 DEF NotifierInv
<1>4. CASE CloseFlushes
  BY <1>4, FlushStep DEF CloseFlushes, Idle, OnWait, Waits
<1>5. CASE Close
  <2>1. stack # << >> /\ stack[Len(stack)].kind = "closing"
    BY <1>5 DEF Close, TopIs, Last
  <2>2. stack' = Front(stack) /\ muted' = muted
    BY <1>5 DEF Close, Pop
  <2>3. Len(stack) \in Nat /\ Len(stack) >= 1
    BY <1>1, <2>1, StackFacts DEF Shape
  <2>4. PICK n \in Nat : n = Len(stack)
    BY <2>3
  <2>5. n = 1
    BY <1>1, <2>1, <2>3, <2>4 DEF Shape, FrameOK
  <2>6. IsSequence(stack') /\ Len(stack') = n - 1
    BY <1>1, <2>1, <2>2, <2>4, Popped DEF Shape
  <2>7. Len(stack') = 0 /\ stack' = << >>
    BY <2>5, <2>6, StackFacts
  <2>8. ~HasReady(stack)
    <3>1. \A i \in 1 .. n : i = n
      BY <2>5
    <3>2. QED
      BY <2>1, <2>4, <3>1 DEF HasReady
  <2>9. ~IsOpen'
    BY <1>2, <1>5 DEF Close, CloseSettings, CloseDescriptor, Goto, IsOpen
  <2>10. /\ DOMAIN port' = PortFields
         /\ port'.called = port.called /\ port'.nSet = port.nSet
         /\ port'.nState = port.nState /\ port'.rdOn = FALSE
    BY <1>1, <1>5 DEF Close, ClearBuffers, IsPort, PortFields
  <2>11. IsPort(port')
    BY <1>1, <2>10 DEF IsPort
  <2>12. Restarts(port', stack', muted', IsOpen')
    BY <1>1, <2>2, <2>8, <2>9, <2>10 DEF Restarts
  <2>13. Shape(stack')
    BY <2>6, <2>7 DEF Shape
  <2>14. QED
    BY <1>1, <2>2, <2>7, <2>11, <2>12, <2>13 DEF NotifierInv
<1>6. CASE MeCrashes
  <2>1. stack' = << >> /\ port' = NewPort /\ muted' = muted
    BY <1>6 DEF MeCrashes
  <2>2. ~IsOpen'
    BY <1>2, <1>6 DEF MeCrashes, CrashSettings, Crash, Goto, IsOpen
  <2>3. IsPort(port') /\ ~port'.called /\ ~port'.nSet
    BY <2>1 DEF IsPort, NewPort, PortFields
  <2>4. Shape(stack')
    <3>1. IsSequence(stack') /\ Len(stack') = 0
      BY <2>1 DEF IsSequence
    <3>2. QED
      BY <3>1 DEF Shape
  <2>5. Restarts(port', stack', muted', IsOpen')
    BY <2>2, <2>3 DEF Restarts
  <2>6. QED
    BY <1>1, <2>1, <2>3, <2>4, <2>5 DEF NotifierInv
<1>7. QED
  BY <1>3, <1>4, <1>5, <1>6

LEMMA NotifierStep == LockTypeOK /\ NotifierInv /\ [PortNext]_portVars => NotifierInv'
<1> SUFFICES ASSUME LockTypeOK, NotifierInv, [PortNext]_portVars PROVE NotifierInv'
  OBVIOUS
<1>1. CASE ReadEvent
  BY <1>1, ReadStep DEF ReadEvent, OnWait, Waits, Callers
<1>2. CASE WriteEvent
  BY <1>2, FlushStep DEF WriteEvent, CanWriteNotification, OnWait, Waits
<1>3. CASE Program \/ Waiting
  BY <1>3, ProgramStep, WaitingStep
<1>4. CASE SlotReturns
  BY <1>4, ReadyReadReturnsStep, BytesWrittenReturnsStep DEF SlotReturns
<1>5. CASE Open \/ CloseFlushes \/ Close \/ MeCrashes
  BY <1>5, OpensAndCloses
<1>6. CASE \E p \in Procs : OtherStep(p)
  BY <1>6, OtherNotifier
<1>7. ASSUME UNCHANGED <<port, stack, muted>>, pc' = pc PROVE NotifierInv'
  BY <1>7 DEF NotifierInv, IsOpen, Restarts
<1>8. CASE Arrive \/ Unplug
  BY <1>7, <1>8 DEF Arrive, Unplug, lockVars
<1>9. CASE UNCHANGED portVars
  BY <1>7, <1>9 DEF portVars, ioVars, lockVars
<1>10. QED
  BY <1>1, <1>2, <1>3, <1>4, <1>5, <1>6, <1>8, <1>9 DEF PortNext

(* A port that is open and idle watches its input, however notifications,  *)
(* slots and waits were nested before, unless waitForReadyRead() or a full *)
(* buffer has stopped it: canReadNotification() starts what it stopped.    *)
THEOREM PortHearsInput == PortSpec => []MutedByWaitOnly
<1>1. PortInit => PortInv
  BY InitLock, InitNotifier DEF PortInit, EngineInit, PortInv
<1>2. PortInv /\ [PortNext]_portVars => PortInv'
  BY LockStep, PortLocks, NotifierStep DEF LockInv, PortInv
<1>3. PortInv => MutedByWaitOnly
  <2> SUFFICES ASSUME NotifierInv, IsOpen, stack = << >>, ~port.rdOn PROVE muted
    BY DEF MutedByWaitOnly, Idle, PortInv
  <2>1. ~HasReady(stack)
    <3>1. Len(stack) = 0
      OBVIOUS
    <3>2. QED
      BY <3>1 DEF HasReady
  <2>2. QED
    BY <2>1 DEF NotifierInv, Restarts
<1>4. QED
  BY <1>1, <1>2, <1>3, PTL DEF PortSpec

-----------------------------------------------------------------------------
(* Loops. A loop written as a recursive function has a value wherever it   *)
(* starts, and one that gets closer to its end with every turn ends in a   *)
(* state that keeps what the turns keep.                                   *)

LEMMA Induction ==
    ASSUME NEW S \in SUBSET Nat, 0 \in S, \A n \in S : n + 1 \in S
    PROVE  S = Nat
<1> DEFINE R == {ss \in Nat \X Nat : ss[1] < ss[2]}
           T == Nat \ S
<1>1. IsWellFoundedOn(R, Nat)
  BY NatLessThanWellFounded, Zenon DEF OpToRel
<1>2. SUFFICES ASSUME T # {} PROVE FALSE
  OBVIOUS
<1>3. PICK n \in T : \A m \in T : ~(<<m, n>> \in R)
  <2>1. T \subseteq Nat
    OBVIOUS
  <2>2. QED
    BY <1>1, <1>2, <2>1, WFMin
<1>4. n \in Nat /\ n # 0 /\ n - 1 \in Nat
  OBVIOUS
<1>5. n - 1 \notin S
  BY <1>4
<1>6. <<n - 1, n>> \in R
  BY <1>4
<1>7. QED
  BY <1>3, <1>4, <1>5, <1>6

\* f takes the turns t from wherever they lead until it is outside M.
Loops(S, M, t, f) == f = [s \in S |-> IF s \in M THEN f[t[s]] ELSE s]

LEMMA LoopExists ==
    ASSUME NEW S, NEW M \in SUBSET S, NEW t \in [M -> S]
    PROVE  \E f : Loops(S, M, t, f)
<1> DEFINE Path(s, n, g) ==
              /\ g \in [0 .. n -> S] /\ g[0] = s
              /\ \A i \in 0 .. n - 1 : g[i] \in M /\ g[i + 1] = t[g[i]]
           EndsIn(s, e) == \E n \in Nat : \E g : Path(s, n, g) /\ g[n] = e
           Ends(s) == {e \in S \ M : EndsIn(s, e)}
           f == [s \in S |-> CHOOSE e : e \in Ends(s)]
<1>1. ASSUME NEW s \in S \ M PROVE Ends(s) = {s}
  <2>1. Path(s, 0, [i \in 0 .. 0 |-> s]) /\ [i \in 0 .. 0 |-> s][0] = s
    OBVIOUS
  <2>2. s \in Ends(s)
    BY <2>1
  <2>3. ASSUME NEW e \in Ends(s) PROVE e = s
    <3>0. PICK n \in Nat : \E g : Path(s, n, g) /\ g[n] = e
      OBVIOUS
    <3>1. PICK g : Path(s, n, g) /\ g[n] = e
      BY <3>0
    <3>2. n = 0
      BY <3>1
    <3>3. QED
      BY <3>1, <3>2
  <2>4. QED
    BY <2>2, <2>3
<1>2. ASSUME NEW s \in M PROVE Ends(s) = Ends(t[s])
  <2>1. ASSUME NEW e \in Ends(s) PROVE e \in Ends(t[s])
    <3>0. PICK n \in Nat : \E g : Path(s, n, g) /\ g[n] = e
      BY <2>1
    <3>1. PICK g : Path(s, n, g) /\ g[n] = e
      BY <3>0
    <3>2. n # 0
      BY <2>1, <3>1
    <3>3. PICK m \in Nat : n = m + 1
      <4>1. n - 1 \in Nat /\ n = (n - 1) + 1
        BY <3>2
      <4>2. QED
        BY <4>1
    <3> DEFINE h == [i \in 0 .. m |-> g[i + 1]]
    <3>4. Path(t[s], m, h) /\ h[m] = e
      BY <3>1, <3>3
    <3>5. QED
      BY <2>1, <3>4
  <2>2. ASSUME NEW e \in Ends(t[s]) PROVE e \in Ends(s)
    <3>0. PICK m \in Nat : \E g : Path(t[s], m, g) /\ g[m] = e
      BY <2>2
    <3>1. PICK g : Path(t[s], m, g) /\ g[m] = e
      BY <3>0
    <3> DEFINE h == [i \in 0 .. m + 1 |-> IF i = 0 THEN s ELSE g[i - 1]]
    <3>2. h \in [0 .. m + 1 -> S] /\ h[0] = s /\ h[m + 1] = e
      BY <3>1
    <3>3. ASSUME NEW i \in 0 .. m PROVE h[i] \in M /\ h[i + 1] = t[h[i]]
      <4>1. CASE i = 0
        BY <3>1, <4>1
      <4>2. CASE i # 0
        <5>1. i - 1 \in 0 .. m - 1 /\ h[i] = g[i - 1] /\ h[i + 1] = g[(i - 1) + 1]
          BY <4>2
        <5>2. QED
          BY <3>1, <5>1
      <4>3. QED
        BY <4>1, <4>2
    <3>4. m + 1 \in Nat /\ (m + 1) - 1 = m
      OBVIOUS
    <3> HIDE DEF h
    <3>5. Path(s, m + 1, h)
      BY <3>2, <3>3, <3>4
    <3>6. EndsIn(s, e)
      BY <3>2, <3>4, <3>5, Zenon
    <3>7. QED
      BY <2>2, <3>6
  <2>3. QED
    BY <2>1, <2>2
<1> HIDE DEF Ends
<1>3. ASSUME NEW s \in S PROVE f[s] = IF s \in M THEN f[t[s]] ELSE s
  <2>1. CASE s \in M
    <3>1. t[s] \in S
      BY <2>1
    <3>2. f[t[s]] = CHOOSE e : e \in Ends(t[s])
      BY <3>1
    <3>3. f[s] = CHOOSE e : e \in Ends(s)
      OBVIOUS
    <3>4. QED
      BY <1>2, <2>1, <3>2, <3>3
  <2>2. CASE s \notin M
    <3>1. f[s] = CHOOSE e : e \in {s}
      BY <1>1, <2>2
    <3>2. QED
      BY <2>2, <3>1
  <2>3. QED
    BY <2>1, <2>2
<1>4. f = [s \in S |-> IF s \in M THEN f[t[s]] ELSE s]
  <2>1. f = [s \in S |-> f[s]]
    OBVIOUS
  <2> HIDE DEF f
  <2>2. QED
    BY <1>3, <2>1
<1>5. Loops(S, M, t, f)
  BY <1>4 DEF Loops
<1>6. QED
  BY <1>5

LEMMA LoopEnds ==
    ASSUME NEW S, NEW M \in SUBSET S, NEW t \in [M -> S], NEW f, Loops(S, M, t, f),
           NEW I \in SUBSET S, \A s \in I \cap M : t[s] \in I,
           NEW measure \in [S -> Nat], \A s \in I \cap M : measure[t[s]] < measure[s],
           NEW s \in I
    PROVE  f[s] \in I \ M
<1> DEFINE P(n) == \A z \in I : measure[z] < n => f[z] \in I \ M
           N == {n \in Nat : P(n)}
<1>1. 0 \in N
  OBVIOUS
<1>2. ASSUME NEW n \in N PROVE n + 1 \in N
  <2>1. ASSUME NEW z \in I, measure[z] < n + 1 PROVE f[z] \in I \ M
    <3>1. CASE z \in M
      <4>1. t[z] \in I /\ measure[t[z]] < n
        BY <2>1, <3>1
      <4>2. f[z] = f[t[z]]
        BY <3>1 DEF Loops
      <4>3. QED
        BY <4>1, <4>2
    <3>2. CASE z \notin M
      BY <3>2 DEF Loops
    <3>3. QED
      BY <3>1, <3>2
  <2>2. QED
    BY <2>1
<1> HIDE DEF N, P
<1>3. N = Nat
  <2>1. N \subseteq Nat
    BY DEF N
  <2>2. QED
    BY <1>1, <1>2, <2>1, Induction
<1>4. PICK n \in Nat : n = measure[s] + 1
  <2>1. measure[s] \in Nat
    OBVIOUS
  <2>2. QED
    BY <2>1
<1>5. P(n)
  BY <1>3 DEF N
<1>6. measure[s] < n
  BY <1>4
<1> HIDE DEF N
<1>7. QED
  BY <1>5, <1>6 DEF P

-----------------------------------------------------------------------------
(* Blocks one after the other: what FlattenSeq() makes of a list of        *)
(* blocks, a block more at the end or at the front.                        *)

Bytes == Seq(Nat)
Blocks == Seq(Bytes)

\* f[i] is the i first blocks of S one after the other.
Flattens(S, f) ==
    f = [i \in 1 .. Len(S) |-> IF i = 1 THEN S[i] ELSE f[i - 1] \o S[i]]

LEMMA FlattenExists ==
    ASSUME NEW S \in Blocks
    PROVE  \E f \in [1 .. Len(S) -> Bytes] : Flattens(S, f)
<1> DEFINE Blockwise(n, f) == \A i \in 1 .. n : f[i] = IF i = 1 THEN S[i] ELSE f[i - 1] \o S[i]
           N == {n \in Nat : n <= Len(S) => \E f \in [1 .. n -> Bytes] : Blockwise(n, f)}
<1>1. 0 \in N
  <2>1. [i \in 1 .. 0 |-> << >>] \in [1 .. 0 -> Bytes]
    BY DEF Bytes
  <2>2. Blockwise(0, [i \in 1 .. 0 |-> << >>])
    OBVIOUS
  <2>3. QED
    BY <2>1, <2>2
<1>2. ASSUME NEW n \in N PROVE n + 1 \in N
  <2>1. SUFFICES ASSUME n + 1 <= Len(S)
                 PROVE  \E f \in [1 .. n + 1 -> Bytes] : Blockwise(n + 1, f)
    OBVIOUS
  <2>2. Len(S) \in Nat /\ n \in Nat
    BY DEF Blocks
  <2>3. PICK f \in [1 .. n -> Bytes] : Blockwise(n, f)
    BY <2>1, <2>2
  <2> DEFINE last == IF n + 1 = 1 THEN S[n + 1] ELSE f[n] \o S[n + 1]
             g == [i \in 1 .. n + 1 |-> IF i = n + 1 THEN last ELSE f[i]]
  <2>4. S[n + 1] \in Bytes
    BY <2>1, <2>2 DEF Blocks
  <2>5. last \in Bytes
    <3>1. CASE n = 0
      BY <2>4, <3>1
    <3>2. CASE n # 0
      <4>1. f[n] \in Bytes
        BY <2>2, <2>3, <3>2
      <4>2. f[n] \o S[n + 1] \in Bytes
        BY <2>4, <4>1, ConcatProperties DEF Bytes
      <4>3. QED
        BY <2>4, <4>2
    <3>3. QED
      BY <3>1, <3>2
  <2> HIDE DEF last
  <2>6. g \in [1 .. n + 1 -> Bytes]
    BY <2>2, <2>3, <2>5
  <2>7. ASSUME NEW i \in 1 .. n + 1
        PROVE  g[i] = IF i = 1 THEN S[i] ELSE g[i - 1] \o S[i]
    <3>1. CASE i = n + 1
      <4>1. i # 1 => i - 1 \in 1 .. n /\ i - 1 = n
        BY <2>2, <3>1
      <4>2. i # 1 => g[i - 1] = f[n]
        BY <2>2, <4>1
      <4>3. g[i] = last
        BY <3>1
      <4>4. QED
        BY <3>1, <4>2, <4>3 DEF last
    <3>2. CASE i # n + 1
      <4>1. i \in 1 .. n /\ g[i] = f[i]
        BY <2>2, <3>2
      <4>2. i # 1 => i - 1 \in 1 .. n /\ g[i - 1] = f[i - 1]
        BY <2>2, <3>2
      <4>3. QED
        BY <2>3, <4>1, <4>2
    <3>3. QED
      BY <3>1, <3>2
  <2>8. QED
    BY <2>6, <2>7
<1> HIDE DEF N
<1>3. N = Nat
  <2>1. N \subseteq Nat
    BY DEF N
  <2>2. QED
    BY <1>1, <1>2, <2>1, Induction
<1>4. Len(S) \in Nat
  BY DEF Blocks
<1>5. PICK n \in Nat : n = Len(S)
  BY <1>4
<1>6. PICK f \in [1 .. n -> Bytes] : Blockwise(n, f)
  BY <1>3, <1>5 DEF N
<1>7. QED
  BY <1>5, <1>6 DEF Flattens

\* What two sequences share at their front is flattened alike.
LEMMA FlattenPrefix ==
    ASSUME NEW S \in Blocks, NEW T \in Blocks, NEW f, NEW g, Flattens(S, f), Flattens(T, g),
           NEW n \in Nat, n <= Len(S), n <= Len(T), \A i \in 1 .. n : S[i] = T[i]
    PROVE  \A i \in 1 .. n : f[i] = g[i]
<1> DEFINE N == {m \in Nat : m \in 1 .. n => f[m] = g[m]}
<1>1. 0 \in N
  OBVIOUS
<1>2. ASSUME NEW m \in N PROVE m + 1 \in N
  <2>1. SUFFICES ASSUME m + 1 \in 1 .. n PROVE f[m + 1] = g[m + 1]
    OBVIOUS
  <2>2. m + 1 \in 1 .. Len(S) /\ m + 1 \in 1 .. Len(T) /\ (m + 1) - 1 = m
    BY <2>1 DEF Blocks
  <2>3. /\ f[m + 1] = IF m + 1 = 1 THEN S[m + 1] ELSE f[m] \o S[m + 1]
        /\ g[m + 1] = IF m + 1 = 1 THEN T[m + 1] ELSE g[m] \o T[m + 1]
    BY <2>2, ZenonT(60) DEF Flattens
  <2>4. m + 1 # 1 => m \in 1 .. n
    BY <2>1
  <2>5. QED
    BY <2>1, <2>3, <2>4
<1> HIDE DEF N
<1>3. N = Nat
  <2>1. N \subseteq Nat
    BY DEF N
  <2>2. QED
    BY <1>1, <1>2, <2>1, Induction
<1>4. QED
  BY <1>3 DEF N

LEMMA FlattenIs ==
    ASSUME NEW S \in Blocks, S # << >>
    PROVE  \E f \in [1 .. Len(S) -> Bytes] : Flattens(S, f) /\ FlattenSeq(S) = f[Len(S)]
<1> DEFINE f == CHOOSE f : Flattens(S, f)
<1>1. PICK h \in [1 .. Len(S) -> Bytes] : Flattens(S, h)
  BY FlattenExists
<1>2. Flattens(S, f)
  BY <1>1
<1>3. Len(S) \in Nat /\ Len(S) # 0
  BY DEF Blocks
<1>4. FlattenSeq(S) = f[Len(S)]
  BY <1>3, Zenon DEF FlattenSeq, Flattens
<1>5. \A i \in 1 .. Len(S) : f[i] = h[i]
  BY <1>1, <1>2, <1>3, FlattenPrefix
<1>6. FlattenSeq(S) = h[Len(S)]
  BY <1>3, <1>4, <1>5
<1>7. QED
  BY <1>1, <1>6

LEMMA FlattenOne ==
    ASSUME NEW s \in Bytes
    PROVE  FlattenSeq(<< s >>) = s
<1>1. << s >> \in Blocks /\ << s >> # << >> /\ Len(<< s >>) = 1 /\ << s >>[1] = s
  BY DEF Blocks
<1>2. PICK f : Flattens(<< s >>, f) /\ FlattenSeq(<< s >>) = f[Len(<< s >>)]
  BY <1>1, FlattenIs
<1>3. f[1] = s
  BY <1>1, <1>2 DEF Flattens
<1>4. QED
  BY <1>1, <1>2, <1>3

LEMMA FlattenAppend ==
    ASSUME NEW S \in Blocks, NEW s \in Bytes
    PROVE  /\ FlattenSeq(S) \in Bytes
           /\ FlattenSeq(Append(S, s)) = FlattenSeq(S) \o s
<1> DEFINE T == Append(S, s)
<1>1. /\ T \in Blocks /\ T # << >>
      /\ Len(S) \in Nat /\ Len(T) = Len(S) + 1
      /\ \A i \in 1 .. Len(S) : T[i] = S[i]
      /\ T[Len(S) + 1] = s
  BY AppendProperties DEF Blocks
<1> HIDE DEF T
<1>2. PICK g \in [1 .. Len(T) -> Bytes] : Flattens(T, g) /\ FlattenSeq(T) = g[Len(T)]
  BY <1>1, FlattenIs
<1>3. CASE S = << >>
  <2>1. FlattenSeq(S) = << >> /\ Len(S) = 0
    BY <1>3 DEF FlattenSeq
  <2>2. g[1] = s
    BY <1>1, <1>2, <2>1 DEF Flattens
  <2>3. << >> \o s = s /\ << >> \in Bytes
    BY ConcatEmptySeq DEF Bytes
  <2>4. QED
    BY <1>1, <1>2, <2>1, <2>2, <2>3 DEF T
<1>4. CASE S # << >>
  <2>1. PICK f \in [1 .. Len(S) -> Bytes] : Flattens(S, f) /\ FlattenSeq(S) = f[Len(S)]
    BY <1>4, FlattenIs
  <2>2. PICK n \in Nat : n = Len(S) /\ n >= 1
    BY <1>1, <1>4 DEF Blocks
  <2>3. n <= Len(S) /\ n <= Len(T) /\ \A i \in 1 .. n : S[i] = T[i]
    BY <1>1, <2>2
  <2>4. f[n] = g[n]
    <3>1. \A i \in 1 .. n : f[i] = g[i]
      BY <1>1, <1>2, <2>1, <2>3, FlattenPrefix
    <3>2. QED
      BY <2>2, <3>1
  <2>5. Len(T) = n + 1 /\ n + 1 \in 1 .. Len(T) /\ n + 1 # 1 /\ (n + 1) - 1 = n
    BY <1>1, <2>2
  <2>6. g[n + 1] = g[n] \o T[n + 1]
    BY <1>2, <2>5 DEF Flattens
  <2>7. FlattenSeq(T) = FlattenSeq(S) \o s
    BY <1>1, <1>2, <2>1, <2>2, <2>4, <2>5, <2>6
  <2>8. FlattenSeq(S) \in Bytes
    BY <2>1, <2>2
  <2>9. QED
    BY <2>7, <2>8 DEF T
<1>5. QED
  BY <1>3, <1>4

LEMMA FlattenCons ==
    ASSUME NEW s \in Bytes, NEW S \in Blocks
    PROVE  FlattenSeq(<< s >> \o S) = s \o FlattenSeq(S)
<1> DEFINE N == {n \in Nat : \A T \in Blocks : Len(T) = n =>
                    FlattenSeq(<< s >> \o T) = s \o FlattenSeq(T)}
<1>1. << s >> \in Blocks
  BY DEF Blocks
<1>2. 0 \in N
  <2>1. ASSUME NEW T \in Blocks, Len(T) = 0
        PROVE  FlattenSeq(<< s >> \o T) = s \o FlattenSeq(T)
    <3>1. T = << >>
      BY <2>1 DEF Blocks
    <3>2. << s >> \o T = << s >>
      BY <1>1, <3>1, ConcatEmptySeq DEF Blocks
    <3>3. FlattenSeq(T) = << >>
      BY <3>1 DEF FlattenSeq
    <3>4. s \o << >> = s
      BY ConcatEmptySeq DEF Bytes
    <3>5. QED
      BY <3>2, <3>3, <3>4, FlattenOne
  <2>2. QED
    BY <2>1
<1>3. ASSUME NEW n \in N PROVE n + 1 \in N
  <2>1. ASSUME NEW T \in Blocks, Len(T) = n + 1
        PROVE  FlattenSeq(<< s >> \o T) = s \o FlattenSeq(T)
    <3>1. T # << >>
      BY <2>1 DEF Blocks
    <3>2. PICK R \in Blocks, e \in Bytes : T = Append(R, e)
      BY <3>1, SequenceEmptyOrAppend DEF Blocks
    <3>3. Len(R) = n
      <4>1. Len(R) \in Nat /\ Len(T) = Len(R) + 1
        BY <3>2 DEF Blocks
      <4>2. QED
        BY <2>1, <4>1
    <3>4. FlattenSeq(<< s >> \o R) = s \o FlattenSeq(R)
      BY <3>3
    <3>5. << s >> \o R \in Blocks
      BY <1>1, ConcatProperties DEF Blocks
    <3>6. << s >> \o T = Append(<< s >> \o R, e)
      <4>1. /\ T = R \o << e >>
            /\ Append(<< s >> \o R, e) = (<< s >> \o R) \o << e >>
        BY <3>2, <3>5, AppendIsConcat DEF Blocks
      <4>2. << e >> \in Blocks
        BY DEF Blocks
      <4>3. (<< s >> \o R) \o << e >> = << s >> \o (R \o << e >>)
        BY <1>1, <4>2, ConcatAssociative DEF Blocks
      <4>4. QED
        BY <4>1, <4>3
    <3>7. FlattenSeq(<< s >> \o T) = FlattenSeq(<< s >> \o R) \o e
      BY <3>5, <3>6, FlattenAppend
    <3>8. FlattenSeq(T) = FlattenSeq(R) \o e /\ FlattenSeq(R) \in Bytes
      BY <3>2, FlattenAppend
    <3>9. (s \o FlattenSeq(R)) \o e = s \o (FlattenSeq(R) \o e)
      BY <3>8, ConcatAssociative DEF Bytes
    <3>10. QED
      BY <3>4, <3>7, <3>8, <3>9
  <2>2. QED
    BY <2>1
<1> HIDE DEF N
<1>4. N = Nat
  <2>1. N \subseteq Nat
    BY DEF N
  <2>2. QED
    BY <1>2, <1>3, <2>1, Induction
<1>5. Len(S) \in Nat
  BY DEF Blocks
<1>6. QED
  BY <1>4, <1>5 DEF N

\* From either end.
LEMMA FlattenEnds ==
    ASSUME NEW S \in Blocks, S # << >>
    PROVE  /\ FlattenSeq(S) = S[1] \o FlattenSeq(Tail(S))
           /\ FlattenSeq(S) = FlattenSeq(Front(S)) \o S[Len(S)]
<1>1. PICK R \in Blocks, e \in Bytes : S = Append(R, e)
  BY SequenceEmptyOrAppend DEF Blocks
<1>2. Len(R) \in Nat /\ Len(S) = Len(R) + 1 /\ S[Len(R) + 1] = e
      /\ \A i \in 1 .. Len(R) : S[i] = R[i]
  BY <1>1, AppendProperties DEF Blocks
<1>3. Front(S) = R
  <2>1. PICK n \in Nat : n = Len(R)
    BY <1>2
  <2>2. Front(S) = SubSeq(S, 1, n)
    BY <1>2, <2>1 DEF Front
  <2>3. \A i \in 1 .. n : S[i] \in Bytes
    BY <1>2, <2>1 DEF Blocks
  <2>4. SubSeq(S, 1, n) \in Blocks /\ Len(SubSeq(S, 1, n)) = n
        /\ \A i \in 1 .. n : SubSeq(S, 1, n)[i] = S[i]
    BY <2>1, <2>3, SubSeqProperties DEF Blocks
  <2>5. QED
    BY <1>2, <2>1, <2>2, <2>4, SeqEqual DEF Blocks
<1>4. S[1] \in Bytes /\ Tail(S) \in Blocks /\ S = << S[1] >> \o Tail(S)
  <2>1. /\ Tail(S) \in Blocks /\ Len(Tail(S)) = Len(S) - 1
        /\ \A i \in 1 .. Len(Tail(S)) : Tail(S)[i] = S[i + 1]
    BY HeadTailProperties DEF Blocks
  <2>2. S[1] \in Bytes /\ << S[1] >> \in Blocks
    BY <1>2 DEF Blocks
  <2>3. /\ << S[1] >> \o Tail(S) \in Blocks
        /\ Len(<< S[1] >> \o Tail(S)) = 1 + Len(Tail(S))
        /\ \A i \in 1 .. 1 + Len(Tail(S)) : (<< S[1] >> \o Tail(S))[i] =
                  IF i <= 1 THEN S[1] ELSE Tail(S)[i - 1]
    BY <2>1, <2>2, ConcatProperties DEF Blocks
  <2>4. PICK n \in Nat : n = Len(Tail(S)) /\ Len(S) = n + 1
    BY <1>2, <2>1
  <2>5. ASSUME NEW i \in 1 .. n + 1 PROVE (<< S[1] >> \o Tail(S))[i] = S[i]
    <3>1. CASE i = 1
      BY <2>3, <2>4, <3>1
    <3>2. CASE i # 1
      <4>1. i - 1 \in 1 .. n /\ ~(i <= 1) /\ i \in 1 .. 1 + n /\ (i - 1) + 1 = i
        BY <3>2
      <4>2. (<< S[1] >> \o Tail(S))[i] = Tail(S)[i - 1]
        BY <2>3, <2>4, <4>1
      <4>3. Tail(S)[i - 1] = S[(i - 1) + 1]
        BY <2>1, <2>4, <4>1
      <4>4. QED
        BY <4>1, <4>2, <4>3
    <3>3. QED
      BY <3>1, <3>2
  <2>6. 1 + n = n + 1
    OBVIOUS
  <2>7. QED
    BY <2>1, <2>2, <2>3, <2>4, <2>5, <2>6, SeqEqual DEF Blocks
<1>5. FlattenSeq(S) = S[1] \o FlattenSeq(Tail(S))
  BY <1>4, FlattenCons
<1>6. FlattenSeq(S) = FlattenSeq(R) \o e
  BY <1>1, FlattenAppend
<1>7. QED
  BY <1>2, <1>3, <1>5, <1>6

\* The library's operators that RingBuffer uses are the ones used here.
LEMMA LibraryOfRings ==
    /\ \A S : RB!FlattenSeq(S) = FlattenSeq(S)
    /\ \A s : RB!Front(s) = Front(s)
BY DEF RB!FlattenSeq, FlattenSeq, RB!Front, Front

-----------------------------------------------------------------------------
(* The ring buffer: its fields, and its bytes block by block, from the     *)
(* first or from the last.                                                 *)

LEMMA RingFields ==
    ASSUME NEW r \in RB!Rings
    PROVE  /\ r.blocks \in Blocks /\ r.blocks # << >> /\ Len(r.blocks) \in Nat
           /\ r.head \in Nat /\ r.tail \in Nat /\ r.last \in Nat /\ r.size \in Nat
           /\ Len(r.blocks) = r.last + 1
           /\ r.blocks[1] \in Bytes /\ Len(r.blocks[1]) \in Nat
           /\ r.head <= Len(r.blocks[1])
           /\ r.blocks[r.last + 1] \in Bytes /\ Len(r.blocks[r.last + 1]) \in Nat
           /\ r.tail <= Len(r.blocks[r.last + 1])
           /\ r.last = 0 => r.head <= r.tail
<1>1. /\ r \in [blocks : Seq(Seq(Nat)), head : Nat, tail : Nat, last : Nat, size : Nat]
      /\ RB!Fits(r)
  BY DEF RB!Rings
<1>2. /\ r.blocks \in Blocks
      /\ r.head \in Nat /\ r.tail \in Nat /\ r.last \in Nat /\ r.size \in Nat
  BY <1>1 DEF Blocks, Bytes
<1>3. Len(r.blocks) \in Nat
  BY <1>2 DEF Blocks
<1>4. Len(r.blocks) = r.last + 1
  BY <1>1, <1>2, <1>3 DEF RB!Fits
<1>5. r.blocks[1] \in Bytes /\ r.blocks[r.last + 1] \in Bytes
  BY <1>2, <1>3, <1>4 DEF Blocks
<1>6. Len(r.blocks[1]) \in Nat /\ Len(r.blocks[r.last + 1]) \in Nat
  BY <1>5 DEF Bytes
<1>7. /\ r.head <= Len(r.blocks[1]) /\ r.tail <= Len(r.blocks[r.last + 1])
      /\ r.last = 0 => r.head <= r.tail
  BY <1>1, <1>2, <1>6 DEF RB!Fits
<1>8. r.blocks # << >>
  BY <1>2, <1>4
<1>9. QED
  BY <1>2, <1>3, <1>4, <1>5, <1>6, <1>7, <1>8

LEMMA IsRing ==
    ASSUME NEW b \in Blocks, NEW h \in Nat, NEW t \in Nat, NEW l \in Nat, NEW z \in Nat,
           Len(b) = l + 1, h <= Len(b[1]), t <= Len(b[l + 1]), l = 0 => h <= t
    PROVE  [blocks |-> b, head |-> h, tail |-> t, last |-> l, size |-> z] \in RB!Rings
<1>1. b[1] \in Bytes /\ b[l + 1] \in Bytes
  BY DEF Blocks
<1>2. Len(b[1]) \in Nat /\ Len(b[l + 1]) \in Nat
  BY <1>1 DEF Bytes
<1>3. h \in 0 .. Len(b[1]) /\ t \in 0 .. Len(b[l + 1]) /\ l = Len(b) - 1
  BY <1>2
<1>4. b \in Seq(Seq(Nat))
  BY DEF Blocks, Bytes
<1> DEFINE r == [blocks |-> b, head |-> h, tail |-> t, last |-> l, size |-> z]
<1>5. r \in [blocks : Seq(Seq(Nat)), head : Nat, tail : Nat, last : Nat, size : Nat]
  BY <1>4
<1>6. RB!Fits(r)
  BY <1>3 DEF RB!Fits
<1>7. QED
  BY <1>5, <1>6 DEF RB!Rings

\* The live bytes of block i.
PartOf(r, i) ==
    SubSeq(r.blocks[i], 1 + (IF i = 1 THEN r.head ELSE 0),
           IF i = r.last + 1 THEN r.tail ELSE Len(r.blocks[i]))

LEMMA PartsAre ==
    ASSUME NEW r \in RB!Rings
    PROVE  /\ RB!Parts(r) \in Blocks
           /\ Len(RB!Parts(r)) = Len(r.blocks)
           /\ \A i \in 1 .. Len(r.blocks) :
                 PartOf(r, i) \in Bytes /\ RB!Parts(r)[i] = PartOf(r, i)
<1>1. PICK n \in Nat : n = Len(r.blocks)
  BY RingFields
<1>2. ASSUME NEW i \in 1 .. n PROVE PartOf(r, i) \in Bytes
  <2>1. r.blocks[i] \in Bytes
    BY <1>1, RingFields DEF Blocks
  <2>2. PICK len \in Nat : len = Len(r.blocks[i])
    BY <2>1 DEF Bytes
  <2>3. \A j \in 1 .. len : r.blocks[i][j] \in Nat
    BY <2>1, <2>2 DEF Bytes
  <2>4. PICK from \in Nat : from = 1 + (IF i = 1 THEN r.head ELSE 0)
    BY RingFields
  <2>5. PICK to \in Nat : to = IF i = r.last + 1 THEN r.tail ELSE len
    BY RingFields
  <2>6. from >= 1 /\ to <= len
    BY <2>2, <2>4, <2>5, RingFields
  <2>7. \A j \in from .. to : r.blocks[i][j] \in Nat
    BY <2>3, <2>6
  <2>8. SubSeq(r.blocks[i], from, to) \in Seq(Nat)
    BY <2>7, SubSeqProperties
  <2>9. QED
    BY <2>2, <2>4, <2>5, <2>8 DEF PartOf, Bytes
<1>3. RB!Parts(r) = [i \in 1 .. n |-> PartOf(r, i)]
  BY <1>1 DEF RB!Parts, PartOf
<1>4. QED
  BY <1>1, <1>2, <1>3 DEF Blocks

LEMMA ContentsAre ==
    ASSUME NEW r \in RB!Rings
    PROVE  /\ RB!Contents(r) = FlattenSeq(RB!Parts(r))
           /\ RB!Contents(r) \in Bytes
<1>1. RB!Contents(r) = FlattenSeq(RB!Parts(r))
  BY LibraryOfRings DEF RB!Contents
<1>2. FlattenSeq(RB!Parts(r)) \in Bytes
  BY PartsAre, FlattenAppend DEF Blocks, Bytes
<1>3. QED
  BY <1>1, <1>2

\* Contents does not look at the count.
LEMMA ContentsSame ==
    ASSUME NEW r, NEW s, r.blocks = s.blocks, r.head = s.head, r.tail = s.tail,
           r.last = s.last
    PROVE  RB!Contents(r) = RB!Contents(s)
BY DEF RB!Contents, RB!Parts

LEMMA OneBlock ==
    ASSUME NEW r \in RB!Rings, r.last = 0
    PROVE  RB!Contents(r) = SubSeq(r.blocks[1], r.head + 1, r.tail)
<1>1. Len(r.blocks) = 1
  <2>1. Len(r.blocks) = r.last + 1
    BY RingFields, Zenon
  <2>2. r.last + 1 = 1
    OBVIOUS
  <2>3. QED
    BY <2>1, <2>2, Zenon
<1>2. /\ RB!Parts(r) \in Blocks /\ Len(RB!Parts(r)) = 1
      /\ RB!Parts(r)[1] = PartOf(r, 1) /\ PartOf(r, 1) \in Bytes
  BY <1>1, PartsAre
<1>3. RB!Parts(r) = << PartOf(r, 1) >>
  BY <1>2 DEF Blocks
<1>4. PartOf(r, 1) = SubSeq(r.blocks[1], r.head + 1, r.tail)
  <2>1. 1 + r.head = r.head + 1 /\ 1 = r.last + 1
    BY RingFields
  <2>2. QED
    BY <2>1, Zenon DEF PartOf
<1>5. QED
  BY <1>2, <1>3, <1>4, ContentsAre, FlattenOne

WithoutFirst(r) ==
    [blocks |-> Tail(r.blocks), head |-> 0, tail |-> r.tail, last |-> r.last - 1,
     size |-> r.size]

WithoutLast(r) ==
    [blocks |-> Front(r.blocks), head |-> r.head, tail |-> Len(r.blocks[r.last]),
     last |-> r.last - 1, size |-> r.size]

LEMMA FirstBlock ==
    ASSUME NEW r \in RB!Rings, r.last # 0
    PROVE  /\ WithoutFirst(r) \in RB!Rings
           /\ SubSeq(r.blocks[1], r.head + 1, Len(r.blocks[1])) \in Bytes
           /\ RB!Contents(r) = SubSeq(r.blocks[1], r.head + 1, Len(r.blocks[1]))
                                   \o RB!Contents(WithoutFirst(r))
<1> DEFINE w == WithoutFirst(r)
<1>1. PICK l \in Nat : r.last = l + 1
  <2>1. r.last - 1 \in Nat /\ r.last = (r.last - 1) + 1
    BY RingFields
  <2>2. QED
    BY <2>1
<1>2. /\ r.blocks \in Blocks /\ r.blocks # << >> /\ Len(r.blocks) = l + 2
      /\ r.head \in Nat /\ r.tail \in Nat /\ r.size \in Nat
      /\ r.tail <= Len(r.blocks[l + 2])
  BY <1>1, RingFields
<1>3. /\ Tail(r.blocks) \in Blocks /\ Len(Tail(r.blocks)) = l + 1
      /\ \A i \in 1 .. l + 1 : Tail(r.blocks)[i] = r.blocks[i + 1]
  BY <1>2, HeadTailProperties DEF Blocks
<1>4. w = [blocks |-> Tail(r.blocks), head |-> 0, tail |-> r.tail, last |-> l,
           size |-> r.size]
  BY <1>1 DEF WithoutFirst
<1>5. Tail(r.blocks)[l + 1] = r.blocks[l + 2]
  BY <1>3
<1>6. Tail(r.blocks)[1] \in Bytes
  BY <1>3 DEF Blocks
<1>7. 0 <= Len(Tail(r.blocks)[1])
  BY <1>6 DEF Bytes
<1>8. w \in RB!Rings
  <2>1. 0 \in Nat /\ (l = 0 => 0 <= r.tail) /\ r.tail <= Len(Tail(r.blocks)[l + 1])
    BY <1>2, <1>5
  <2> DEFINE b == Tail(r.blocks)
  <2>2. b \in Blocks /\ Len(b) = l + 1 /\ 0 <= Len(b[1]) /\ r.tail <= Len(b[l + 1])
    BY <1>3, <1>7, <2>1
  <2> HIDE DEF b
  <2>3. [blocks |-> b, head |-> 0, tail |-> r.tail, last |-> l, size |-> r.size] \in RB!Rings
    BY <1>2, <2>1, <2>2, IsRing
  <2>4. QED
    BY <1>4, <2>3 DEF b
<1>9. /\ RB!Parts(r) \in Blocks /\ Len(RB!Parts(r)) = l + 2 /\ RB!Parts(r) # << >>
      /\ RB!Parts(r)[1] = PartOf(r, 1) /\ PartOf(r, 1) \in Bytes
      /\ \A i \in 1 .. l + 2 : RB!Parts(r)[i] = PartOf(r, i)
  BY <1>2, PartsAre
<1>10. /\ RB!Parts(w) \in Blocks /\ Len(RB!Parts(w)) = l + 1
       /\ \A i \in 1 .. l + 1 : RB!Parts(w)[i] = PartOf(w, i)
  BY <1>3, <1>4, <1>8, PartsAre
<1>11. ASSUME NEW i \in 1 .. l + 1 PROVE PartOf(w, i) = PartOf(r, i + 1)
  <2>1. w.blocks[i] = r.blocks[i + 1]
    BY <1>3, <1>4
  <2>2. i + 1 # 1 /\ (i = w.last + 1 <=> i + 1 = r.last + 1) /\ w.tail = r.tail
    BY <1>1, <1>4
  <2>3. 1 + (IF i = 1 THEN w.head ELSE 0) = 1 + (IF i + 1 = 1 THEN r.head ELSE 0)
    BY <1>4, <2>2
  <2>4. QED
    BY <2>1, <2>2, <2>3, Zenon DEF PartOf
<1>12. RB!Parts(w) = Tail(RB!Parts(r))
  <2>1. /\ Tail(RB!Parts(r)) \in Blocks /\ Len(Tail(RB!Parts(r))) = l + 1
        /\ \A i \in 1 .. l + 1 : Tail(RB!Parts(r))[i] = RB!Parts(r)[i + 1]
    BY <1>9, HeadTailProperties DEF Blocks
  <2>2. ASSUME NEW i \in 1 .. l + 1 PROVE RB!Parts(w)[i] = Tail(RB!Parts(r))[i]
    <3>1. i + 1 \in 1 .. l + 2
      OBVIOUS
    <3>2. QED
      BY <1>9, <1>10, <1>11, <2>1, <3>1
  <2>3. QED
    BY <1>10, <2>1, <2>2, SeqEqual DEF Blocks
<1>13. PartOf(r, 1) = SubSeq(r.blocks[1], r.head + 1, Len(r.blocks[1]))
  <2>1. 1 # r.last + 1 /\ 1 + r.head = r.head + 1
    BY <1>1, <1>2
  <2>2. QED
    BY <2>1 DEF PartOf
<1>14. QED
  BY <1>8, <1>9, <1>12, <1>13, ContentsAre, FlattenEnds

LEMMA LastBlock ==
    ASSUME NEW r \in RB!Rings, r.last # 0
    PROVE  /\ WithoutLast(r) \in RB!Rings
           /\ SubSeq(r.blocks[r.last + 1], 1, r.tail) \in Bytes
           /\ RB!Contents(r) = RB!Contents(WithoutLast(r))
                                   \o SubSeq(r.blocks[r.last + 1], 1, r.tail)
<1> DEFINE w == WithoutLast(r)
<1>1. PICK l \in Nat : r.last = l + 1
  <2>1. r.last - 1 \in Nat /\ r.last = (r.last - 1) + 1
    BY RingFields
  <2>2. QED
    BY <2>1
<1>2. /\ r.blocks \in Blocks /\ r.blocks # << >> /\ Len(r.blocks) = l + 2
      /\ r.head \in Nat /\ r.tail \in Nat /\ r.size \in Nat
      /\ r.head <= Len(r.blocks[1])
  BY <1>1, RingFields
<1>3. ASSUME NEW S, NEW s \in Seq(S), Len(s) = l + 2
      PROVE  /\ Front(s) \in Seq(S) /\ Len(Front(s)) = l + 1
             /\ \A i \in 1 .. l + 1 : Front(s)[i] = s[i]
  <2>1. Front(s) = SubSeq(s, 1, l + 1)
    BY <1>3 DEF Front
  <2>2. \A i \in 1 .. l + 1 : s[i] \in S
    BY <1>3
  <2>3. QED
    BY <2>1, <2>2, SubSeqProperties
<1>4. /\ Front(r.blocks) \in Blocks /\ Len(Front(r.blocks)) = l + 1
      /\ \A i \in 1 .. l + 1 : Front(r.blocks)[i] = r.blocks[i]
  BY <1>2, <1>3 DEF Blocks
<1>5. PICK t \in Nat : t = Len(r.blocks[l + 1])
  <2>1. r.blocks[l + 1] \in Bytes
    BY <1>2 DEF Blocks
  <2>2. QED
    BY <2>1 DEF Bytes
<1>6. w = [blocks |-> Front(r.blocks), head |-> r.head, tail |-> t, last |-> l,
           size |-> r.size]
  BY <1>1, <1>5 DEF WithoutLast
<1>7. Front(r.blocks)[1] = r.blocks[1] /\ Front(r.blocks)[l + 1] = r.blocks[l + 1]
  BY <1>4
<1>8. t <= Len(Front(r.blocks)[l + 1]) /\ (l = 0 => r.head <= t)
  BY <1>2, <1>5, <1>7
<1>9. w \in RB!Rings
  BY <1>2, <1>4, <1>6, <1>7, <1>8, IsRing, SMTT(30)
<1>10. /\ RB!Parts(r) \in Blocks /\ Len(RB!Parts(r)) = l + 2 /\ RB!Parts(r) # << >>
       /\ PartOf(r, l + 2) \in Bytes
       /\ \A i \in 1 .. l + 2 : RB!Parts(r)[i] = PartOf(r, i)
  BY <1>2, PartsAre
<1>11. /\ RB!Parts(w) \in Blocks /\ Len(RB!Parts(w)) = l + 1
       /\ \A i \in 1 .. l + 1 : RB!Parts(w)[i] = PartOf(w, i)
  BY <1>4, <1>6, <1>9, PartsAre
<1>12. ASSUME NEW i \in 1 .. l + 1 PROVE PartOf(w, i) = PartOf(r, i)
  <2>1. w.blocks[i] = r.blocks[i] /\ w.head = r.head
    BY <1>4, <1>6
  <2>2. (IF i = w.last + 1 THEN w.tail ELSE Len(w.blocks[i]))
           = (IF i = r.last + 1 THEN r.tail ELSE Len(r.blocks[i]))
    <3>1. w.last = l /\ w.tail = t /\ r.last = l + 1
      BY <1>1, <1>6
    <3>2. i # r.last + 1
      BY <1>1
    <3>3. i = l + 1 => Len(r.blocks[i]) = t
      BY <1>5
    <3>4. QED
      BY <2>1, <3>1, <3>2, <3>3, Zenon
  <2>3. QED
    BY <2>1, <2>2, Zenon DEF PartOf
<1>13. RB!Parts(w) = Front(RB!Parts(r))
  <2>1. /\ Front(RB!Parts(r)) \in Blocks /\ Len(Front(RB!Parts(r))) = l + 1
        /\ \A i \in 1 .. l + 1 : Front(RB!Parts(r))[i] = RB!Parts(r)[i]
    BY <1>3, <1>10 DEF Blocks
  <2>2. ASSUME NEW i \in 1 .. l + 1 PROVE RB!Parts(w)[i] = Front(RB!Parts(r))[i]
    <3>1. i \in 1 .. l + 2
      OBVIOUS
    <3>2. QED
      BY <1>10, <1>11, <1>12, <2>1, <3>1
  <2>3. QED
    BY <1>11, <2>1, <2>2, SeqEqual DEF Blocks
<1>14. PartOf(r, l + 2) = SubSeq(r.blocks[r.last + 1], 1, r.tail)
  <2>1. l + 2 = r.last + 1 /\ l + 2 # 1 /\ 1 + 0 = 1
    BY <1>1
  <2>2. QED
    BY <2>1 DEF PartOf
<1>15. FlattenSeq(RB!Parts(r)) = FlattenSeq(Front(RB!Parts(r))) \o RB!Parts(r)[Len(RB!Parts(r))]
  BY <1>10, FlattenEnds
<1>16. RB!Parts(r)[Len(RB!Parts(r))] = PartOf(r, l + 2)
  <2>1. l + 2 \in 1 .. l + 2
    OBVIOUS
  <2>2. QED
    BY <1>10, <2>1
<1>17. QED
  BY <1>9, <1>10, <1>13, <1>14, <1>15, <1>16, ContentsAre

\* What the blocks before the last hold, and where the bytes of the last begin.
Early(r) == IF r.last = 0 THEN << >> ELSE RB!Contents(WithoutLast(r))
From(r) == IF r.last = 0 THEN r.head + 1 ELSE 1

LEMMA ByLast ==
    ASSUME NEW r \in RB!Rings
    PROVE  /\ Early(r) \in Bytes
           /\ From(r) \in Nat /\ From(r) >= 1 /\ From(r) <= r.tail + 1
           /\ RB!Contents(r) = Early(r) \o SubSeq(r.blocks[r.last + 1], From(r), r.tail)
<1>1. CASE r.last = 0
  <2>1. Early(r) = << >> /\ From(r) = r.head + 1
    BY <1>1 DEF Early, From
  <2>2. RB!Contents(r) = SubSeq(r.blocks[1], r.head + 1, r.tail) /\ RB!Contents(r) \in Bytes
    BY <1>1, OneBlock, ContentsAre
  <2>3. << >> \in Bytes /\ << >> \o RB!Contents(r) = RB!Contents(r)
    BY <2>2, ConcatEmptySeq DEF Bytes
  <2>4. r.last + 1 = 1 /\ r.head \in Nat /\ r.tail \in Nat /\ r.head <= r.tail
    BY <1>1, RingFields
  <2>5. From(r) \in Nat /\ From(r) >= 1 /\ From(r) <= r.tail + 1
    BY <2>1, <2>4
  <2>6. QED
    BY <2>1, <2>2, <2>3, <2>4, <2>5, Zenon
<1>2. CASE r.last # 0
  <2>1. Early(r) = RB!Contents(WithoutLast(r)) /\ From(r) = 1
    BY <1>2 DEF Early, From
  <2>2. 1 <= r.tail + 1
    BY RingFields
  <2>3. WithoutLast(r) \in RB!Rings
    BY <1>2, LastBlock
  <2>4. RB!Contents(WithoutLast(r)) \in Bytes
    BY <2>3, ContentsAre
  <2>5. RB!Contents(r) = RB!Contents(WithoutLast(r)) \o SubSeq(r.blocks[r.last + 1], 1, r.tail)
    BY <1>2, LastBlock
  <2>6. From(r) \in Nat /\ From(r) >= 1 /\ From(r) <= r.tail + 1
    BY <2>1, <2>2
  <2>7. QED
    BY <2>1, <2>4, <2>5, <2>6, Zenon
<1>3. QED
  BY <1>1, <1>2

LEMMA SameEarly ==
    ASSUME NEW r \in RB!Rings, NEW s \in RB!Rings, r.last = s.last, r.head = s.head,
           \A i \in 1 .. r.last : r.blocks[i] = s.blocks[i]
    PROVE  Early(r) = Early(s) /\ From(r) = From(s)
<1>1. From(r) = From(s)
  BY DEF From
<1>2. CASE r.last = 0
  <2>1. s.last = 0
    BY <1>2
  <2>2. QED
    BY <1>1, <1>2, <2>1, Zenon DEF Early
<1>3. CASE r.last # 0
  <2>1. r.last \in Nat /\ r.last \in 1 .. r.last
    BY <1>3, RingFields
  <2>2. r.blocks \in Blocks /\ Len(r.blocks) = r.last + 1
        /\ s.blocks \in Blocks /\ Len(s.blocks) = r.last + 1
    BY RingFields
  <2>3. ASSUME NEW b \in Blocks, Len(b) = r.last + 1
        PROVE  /\ Front(b) \in Blocks /\ Len(Front(b)) = r.last
               /\ \A i \in 1 .. r.last : Front(b)[i] = b[i]
    <3>1. Front(b) = SubSeq(b, 1, r.last)
      BY <2>1, <2>3 DEF Front
    <3>2. \A i \in 1 .. r.last : b[i] \in Bytes
      BY <2>1, <2>3 DEF Blocks
    <3>3. QED
      BY <2>1, <3>1, <3>2, SubSeqProperties DEF Blocks
  <2>4. Front(r.blocks) = Front(s.blocks)
    <3>1. /\ Front(r.blocks) \in Blocks /\ Len(Front(r.blocks)) = r.last
          /\ \A i \in 1 .. r.last : Front(r.blocks)[i] = r.blocks[i]
      BY <2>2, <2>3
    <3>2. /\ Front(s.blocks) \in Blocks /\ Len(Front(s.blocks)) = r.last
          /\ \A i \in 1 .. r.last : Front(s.blocks)[i] = s.blocks[i]
      BY <2>2, <2>3
    <3>3. QED
      BY <3>1, <3>2, SeqEqual DEF Blocks
  <2>5. RB!Contents(WithoutLast(r)) = RB!Contents(WithoutLast(s))
    <3>1. r.blocks[r.last] = s.blocks[s.last]
      BY <2>1
    <3>2. /\ WithoutLast(r).blocks = WithoutLast(s).blocks
          /\ WithoutLast(r).head = WithoutLast(s).head
          /\ WithoutLast(r).tail = WithoutLast(s).tail
          /\ WithoutLast(r).last = WithoutLast(s).last
      BY <2>4, <3>1 DEF WithoutLast
    <3>3. QED
      BY <3>2, ContentsSame
  <2>6. QED
    BY <1>1, <1>3, <2>5 DEF Early
<1>4. QED
  BY <1>1, <1>2, <1>3

\* Two rings that differ in the block they write in, and agree where both have
\* written.
LEMMA SameContents ==
    ASSUME NEW r \in RB!Rings, NEW s \in RB!Rings,
           r.last = s.last, r.head = s.head, r.tail = s.tail,
           \A i \in 1 .. r.last : r.blocks[i] = s.blocks[i],
           \A j \in 1 .. r.tail : r.blocks[r.last + 1][j] = s.blocks[r.last + 1][j]
    PROVE  RB!Contents(r) = RB!Contents(s)
<1> DEFINE b == r.blocks[r.last + 1]
           c == s.blocks[r.last + 1]
<1>1. /\ RB!Contents(r) = Early(r) \o SubSeq(b, From(r), r.tail)
      /\ RB!Contents(s) = Early(r) \o SubSeq(c, From(r), r.tail)
      /\ From(r) \in Nat /\ From(r) >= 1
  BY ByLast, SameEarly
<1>2. b \in Bytes /\ c \in Bytes /\ r.tail \in Nat
      /\ r.tail <= Len(b) /\ Len(b) \in Nat
  BY RingFields
<1>3. \A j \in 1 .. r.tail : b[j] = c[j] /\ b[j] \in Nat
  <2>1. \A j \in 1 .. Len(b) : b[j] \in Nat
    BY <1>2, ElementOfSeq DEF Bytes
  <2>2. \A j \in 1 .. r.tail : j \in 1 .. Len(b)
    BY <1>2
  <2>3. QED
    BY <2>1, <2>2
<1> HIDE DEF b, c
<1>4. SubSeq(b, From(r), r.tail) = SubSeq(c, From(r), r.tail)
  <2>1. \A j \in From(r) .. r.tail : b[j] = c[j] /\ b[j] \in Nat
    BY <1>1, <1>2, <1>3
  <2>2. QED
    BY <1>1, <1>2, <2>1, SMTT(30)
<1>5. QED
  BY <1>1, <1>4

LEMMA Resized ==
    ASSUME NEW r \in RB!Rings, NEW n \in Nat, r.tail <= n
    PROVE  LET s == RB!Resize(r, r.last + 1, n)
           IN  /\ s \in RB!Rings
               /\ s.last = r.last /\ s.head = r.head /\ s.tail = r.tail /\ s.size = r.size
               /\ \A i \in 1 .. r.last : s.blocks[i] = r.blocks[i]
               /\ Len(s.blocks[r.last + 1]) = n
               /\ RB!Contents(s) = RB!Contents(r)
<1> DEFINE e == r.last + 1
           was == r.blocks[e]
           new == [j \in 1 .. n |-> IF j <= Len(was) THEN was[j] ELSE Junk]
           b == [r.blocks EXCEPT ![e] = new]
           s == [blocks |-> b, head |-> r.head, tail |-> r.tail, last |-> r.last,
                 size |-> r.size]
<1>1. /\ r.blocks \in Blocks /\ r.blocks # << >> /\ Len(r.blocks) \in Nat
      /\ r.head \in Nat /\ r.tail \in Nat /\ r.last \in Nat /\ r.size \in Nat
      /\ Len(r.blocks) = e
      /\ r.head <= Len(r.blocks[1])
      /\ was \in Bytes /\ Len(was) \in Nat /\ r.tail <= Len(was)
      /\ r.last = 0 => r.head <= r.tail
  BY RingFields
<1>2. RB!Resize(r, e, n) = s
  <2>1. r \in [blocks : Blocks, head : Nat, tail : Nat, last : Nat, size : Nat]
    BY DEF RB!Rings, Blocks, Bytes
  <2>2. RB!Resize(r, e, n) = [r EXCEPT !.blocks = b]
    BY DEF RB!Resize
  <2> HIDE DEF b
  <2>3. QED
    BY <2>1, <2>2
<1>3. e \in 1 .. e /\ e \in Nat
  BY <1>1
<1>4. new \in Bytes /\ Len(new) = n /\ \A j \in 1 .. r.tail : new[j] = was[j]
  <2>1. \A j \in 1 .. n : j <= Len(was) => was[j] \in Nat
    <3>1. \A j \in 1 .. Len(was) : was[j] \in Nat
      BY <1>1, ElementOfSeq DEF Bytes
    <3>2. \A j \in 1 .. n : j <= Len(was) => j \in 1 .. Len(was)
      BY <1>1
    <3>3. QED
      BY <3>1, <3>2
  <2>2. new \in [1 .. n -> Nat]
    BY <2>1 DEF Junk
  <2>3. new \in Bytes /\ Len(new) = n
    BY <2>2 DEF Bytes
  <2>4. \A j \in 1 .. r.tail : j \in 1 .. n /\ j <= Len(was)
    BY <1>1
  <2>5. QED
    BY <2>3, <2>4
<1> HIDE DEF was, new, e
<1>5. /\ b \in Blocks /\ Len(b) = e /\ b[e] = new
      /\ \A i \in 1 .. e : i # e => b[i] = r.blocks[i]
  BY <1>1, <1>3, <1>4, ExceptSeq DEF Blocks
<1>6. \A i \in 1 .. r.last : b[i] = r.blocks[i]
  <2>1. \A i \in 1 .. r.last : i \in 1 .. e /\ i # e
    BY <1>1, SMTT(30) DEF e
  <2>2. QED
    BY <1>5, <2>1
<1> HIDE DEF b
<1>7. s \in RB!Rings
  <2>1. r.head <= Len(b[1])
    <3>1. CASE r.last = 0
      <4>1. b[1] = new
        BY <1>5, <3>1 DEF e
      <4>2. r.head <= n
        BY <1>1, <3>1
      <4>3. QED
        BY <1>4, <4>1, <4>2
    <3>2. CASE r.last # 0
      <4>1. b[1] = r.blocks[1]
        BY <1>1, <1>6, <3>2
      <4>2. QED
        BY <1>1, <4>1
    <3>3. QED
      BY <3>1, <3>2
  <2>2. r.tail <= Len(b[r.last + 1])
    BY <1>4, <1>5 DEF e
  <2>3. Len(b) = r.last + 1
    BY <1>5 DEF e
  <2>4. QED
    BY <1>1, <1>5, <2>1, <2>2, <2>3, IsRing
<1>8. \A j \in 1 .. r.tail : s.blocks[r.last + 1][j] = r.blocks[r.last + 1][j]
  BY <1>4, <1>5 DEF e, was
<1>9. /\ s.last = r.last /\ s.head = r.head /\ s.tail = r.tail /\ s.size = r.size
      /\ s.blocks = b
  OBVIOUS
<1> HIDE DEF s
<1>10. RB!Contents(s) = RB!Contents(r)
  <2>1. \A i \in 1 .. s.last : s.blocks[i] = r.blocks[i]
    BY <1>6, <1>9
  <2>2. \A j \in 1 .. s.tail : s.blocks[s.last + 1][j] = r.blocks[s.last + 1][j]
    BY <1>8, <1>9
  <2>3. QED
    BY <1>7, <1>9, <2>1, <2>2, SameContents
<1>11. Len(s.blocks[r.last + 1]) = n
  BY <1>4, <1>5, <1>9 DEF e
<1>12. QED
  BY <1>2, <1>6, <1>7, <1>9, <1>10, <1>11 DEF e

-----------------------------------------------------------------------------
(* Writing at the end: reserve() makes room, the caller fills it.          *)

WithTail(r, t, z) ==
    [blocks |-> r.blocks, head |-> r.head, tail |-> t, last |-> r.last, size |-> z]

Extend(r, b, t, z) ==
    [blocks |-> Append(r.blocks, b), head |-> r.head, tail |-> t, last |-> r.last + 1,
     size |-> z]

LEMMA TailMoved ==
    ASSUME NEW r \in RB!Rings, NEW t \in Nat, NEW z \in Nat,
           t <= Len(r.blocks[r.last + 1]), r.last = 0 => r.head <= t
    PROVE  WithTail(r, t, z) \in RB!Rings
BY RingFields, IsRing DEF WithTail

LEMMA TailCut ==
    ASSUME NEW r \in RB!Rings, NEW t \in Nat, NEW z \in Nat,
           t <= r.tail, r.last = 0 => r.head <= t
    PROVE  /\ WithTail(r, t, z) \in RB!Rings
           /\ SubSeq(r.blocks[r.last + 1], t + 1, r.tail) \in Bytes
           /\ Len(SubSeq(r.blocks[r.last + 1], t + 1, r.tail)) = r.tail - t
           /\ RB!Contents(r) = RB!Contents(WithTail(r, t, z))
                                   \o SubSeq(r.blocks[r.last + 1], t + 1, r.tail)
<1> DEFINE w == WithTail(r, t, z)
           b == r.blocks[r.last + 1]
<1>1. b \in Bytes /\ Len(b) \in Nat /\ r.tail \in Nat /\ r.tail <= Len(b) /\ r.head \in Nat
  BY RingFields
<1>2. w \in RB!Rings
  <2>1. t <= Len(b)
    BY <1>1
  <2>2. QED
    BY <2>1, TailMoved
<1>3. /\ w.last = r.last /\ w.head = r.head /\ w.tail = t /\ w.blocks = r.blocks
  BY DEF WithTail
<1> HIDE DEF w
<1>4. Early(r) = Early(w) /\ From(r) = From(w)
  BY <1>2, <1>3, SameEarly
<1>5. /\ Early(r) \in Bytes
      /\ From(r) \in Nat /\ From(r) >= 1
      /\ RB!Contents(r) = Early(r) \o SubSeq(b, From(r), r.tail)
  BY ByLast
<1>6. RB!Contents(w) = Early(r) \o SubSeq(b, From(r), t) /\ From(r) <= t + 1
  BY <1>2, <1>3, <1>4, ByLast
<1> HIDE DEF b
<1>7. \A j \in 1 .. Len(b) : b[j] \in Nat
  BY <1>1, ElementOfSeq DEF Bytes
<1>8. /\ SubSeq(b, t + 1, r.tail) \in Bytes
      /\ Len(SubSeq(b, t + 1, r.tail)) = r.tail - t
      /\ SubSeq(b, From(r), t) \in Bytes
  <2>1. \A j \in t + 1 .. r.tail : b[j] \in Nat
    BY <1>1, <1>7
  <2>2. \A j \in From(r) .. t : b[j] \in Nat
    BY <1>1, <1>5, <1>7
  <2>3. /\ SubSeq(b, t + 1, r.tail) \in Seq(Nat)
        /\ Len(SubSeq(b, t + 1, r.tail)) = IF t + 1 <= r.tail THEN r.tail - (t + 1) + 1 ELSE 0
    BY <1>1, <2>1, SubSeqProperties
  <2>4. SubSeq(b, From(r), t) \in Seq(Nat)
    BY <1>5, <2>2, SubSeqProperties
  <2>5. (IF t + 1 <= r.tail THEN r.tail - (t + 1) + 1 ELSE 0) = r.tail - t
    BY <1>1
  <2>6. QED
    BY <2>3, <2>4, <2>5 DEF Bytes
<1>9. SubSeq(b, From(r), r.tail) = SubSeq(b, From(r), t) \o SubSeq(b, t + 1, r.tail)
  <2>1. From(r) \in 1 .. Len(b) + 1 /\ t \in From(r) - 1 .. Len(b) /\ r.tail \in t .. Len(b)
    BY <1>1, <1>5, <1>6, SMTT(30)
  <2>2. QED
    BY <1>1, <2>1, ConcatAdjacentSubSeq DEF Bytes
<1>10. RB!Contents(r) = RB!Contents(w) \o SubSeq(b, t + 1, r.tail)
  <2> DEFINE x == SubSeq(b, From(r), t)
             y == SubSeq(b, t + 1, r.tail)
  <2>1. (Early(r) \o x) \o y = Early(r) \o (x \o y)
    <3>1. Early(r) \in Seq(Nat) /\ x \in Seq(Nat) /\ y \in Seq(Nat)
      BY <1>5, <1>8 DEF Bytes
    <3> HIDE DEF x, y
    <3>2. QED
      BY <3>1, ConcatAssociative, SMTT(60)
  <2>2. QED
    BY <1>5, <1>6, <1>9, <2>1, Zenon
<1>11. QED
  BY <1>2, <1>8, <1>10 DEF b, w

LEMMA Extended ==
    ASSUME NEW r \in RB!Rings, r.tail = Len(r.blocks[r.last + 1]),
           NEW b \in Bytes, NEW t \in Nat, t <= Len(b), NEW z \in Nat
    PROVE  LET s == Extend(r, b, t, z)
           IN  /\ s \in RB!Rings
               /\ s.head = r.head /\ s.tail = t /\ s.last = r.last + 1 /\ s.size = z
               /\ \A i \in 1 .. r.last + 1 : s.blocks[i] = r.blocks[i]
               /\ s.blocks[r.last + 2] = b
               /\ RB!Contents(s) = RB!Contents(r) \o SubSeq(b, 1, t)
<1> DEFINE s == Extend(r, b, t, z)
           l == r.last + 1
<1>1. /\ r.blocks \in Blocks /\ Len(r.blocks) = l /\ l \in Nat /\ l >= 1
      /\ r.last \in Nat /\ r.head \in Nat /\ r.head <= Len(r.blocks[1])
  BY RingFields
<1>2. /\ Append(r.blocks, b) \in Blocks
      /\ Len(Append(r.blocks, b)) = l + 1
      /\ \A i \in 1 .. l : Append(r.blocks, b)[i] = r.blocks[i]
      /\ Append(r.blocks, b)[l + 1] = b
  BY <1>1, AppendProperties, SMTT(30) DEF Blocks
<1>3. Append(r.blocks, b)[1] = r.blocks[1]
  BY <1>1, <1>2
<1>4. s \in RB!Rings
  <2> DEFINE c == Append(r.blocks, b)
  <2>1. c \in Blocks /\ Len(c) = l + 1 /\ r.head <= Len(c[1]) /\ t <= Len(c[l + 1]) /\ l # 0
    BY <1>1, <1>2, <1>3
  <2> HIDE DEF c, l
  <2>2. [blocks |-> c, head |-> r.head, tail |-> t, last |-> l, size |-> z] \in RB!Rings
    BY <1>1, <2>1, IsRing
  <2>3. QED
    BY <2>2 DEF c, l, Extend
<1>5. s.head = r.head /\ s.tail = t /\ s.last = l /\ s.size = z
      /\ s.blocks = Append(r.blocks, b)
  BY DEF Extend
<1> HIDE DEF s
<1>6. s.last # 0 /\ s.last = r.last + 1 /\ s.last + 1 = l + 1 /\ l + 1 = r.last + 2
      /\ s.last - 1 = r.last
  <2>1. PICK e \in Nat : e = r.last
    BY <1>1
  <2>2. s.last = e + 1 /\ l = e + 1
    BY <1>5, <2>1
  <2> HIDE DEF l
  <2>3. QED
    BY <2>1, <2>2
<1>7. RB!Contents(s) = RB!Contents(WithoutLast(s)) \o SubSeq(s.blocks[s.last + 1], 1, s.tail)
  BY <1>4, <1>6, LastBlock
<1>8. s.blocks[s.last + 1] = b
  BY <1>2, <1>5, <1>6
<1>9. Front(s.blocks) = r.blocks
  <2>1. Len(s.blocks) - 1 = l
    BY <1>1, <1>2, <1>5
  <2>2. Front(s.blocks) = SubSeq(s.blocks, 1, l)
    BY <2>1 DEF Front
  <2>3. \A i \in 1 .. l : s.blocks[i] \in Bytes
    BY <1>1, <1>2, <1>5 DEF Blocks
  <2>4. /\ SubSeq(s.blocks, 1, l) \in Blocks /\ Len(SubSeq(s.blocks, 1, l)) = l
        /\ \A i \in 1 .. l : SubSeq(s.blocks, 1, l)[i] = s.blocks[i]
    BY <1>1, <2>3, SubSeqProperties DEF Blocks
  <2>5. \A i \in 1 .. l : SubSeq(s.blocks, 1, l)[i] = r.blocks[i]
    BY <1>2, <1>5, <2>4
  <2>6. QED
    BY <1>1, <2>2, <2>4, <2>5, SeqEqual DEF Blocks
<1>10. RB!Contents(WithoutLast(s)) = RB!Contents(r)
  <2>1. s.blocks[s.last] = r.blocks[l]
    BY <1>1, <1>2, <1>5
  <2>2. /\ WithoutLast(s).blocks = r.blocks /\ WithoutLast(s).head = r.head
        /\ WithoutLast(s).tail = r.tail /\ WithoutLast(s).last = r.last
    BY <1>5, <1>6, <1>9, <2>1 DEF WithoutLast
  <2>3. QED
    BY <2>2, ContentsSame
<1>11. \A i \in 1 .. r.last + 1 : s.blocks[i] = r.blocks[i]
  BY <1>2, <1>5
<1>12. s.blocks[r.last + 2] = b
  BY <1>6, <1>8
<1>13. QED
  BY <1>4, <1>5, <1>7, <1>8, <1>10, <1>11, <1>12 DEF s

\* The room that reserve() has made filled from its beginning.
LEMMA Filled ==
    ASSUME NEW r \in RB!Rings, NEW n \in Nat, n <= r.tail, r.last = 0 => r.head <= r.tail - n,
           NEW data \in Bytes, Len(data) <= n, NEW y \in Nat, NEW z \in Nat
    PROVE  LET f == RB!Fill(r, n, data)
               w == WithTail(f, r.tail - n + Len(data), z)
           IN  /\ f \in RB!Rings
               /\ f.last = r.last /\ f.head = r.head /\ f.tail = r.tail /\ f.size = r.size
               /\ \A i \in 1 .. r.last : f.blocks[i] = r.blocks[i]
               /\ Len(f.blocks[r.last + 1]) = Len(r.blocks[r.last + 1])
               /\ w \in RB!Rings
               /\ RB!Contents(w) = RB!Contents(WithTail(r, r.tail - n, y)) \o data
<1> DEFINE e == r.last + 1
           was == r.blocks[e]
           t == r.tail - n
           new == [j \in DOMAIN was |-> IF j - t \in DOMAIN data THEN data[j - t] ELSE was[j]]
           b == [r.blocks EXCEPT ![e] = new]
           f == [blocks |-> b, head |-> r.head, tail |-> r.tail, last |-> r.last,
                 size |-> r.size]
<1>1. /\ r.blocks \in Blocks /\ r.blocks # << >> /\ Len(r.blocks) \in Nat
      /\ r.head \in Nat /\ r.tail \in Nat /\ r.last \in Nat /\ r.size \in Nat
      /\ Len(r.blocks) = e
      /\ r.head <= Len(r.blocks[1])
      /\ was \in Bytes /\ Len(was) \in Nat /\ r.tail <= Len(was)
      /\ r.last = 0 => r.head <= r.tail
  BY RingFields
<1>2. RB!Fill(r, n, data) = f
  <2>1. r \in [blocks : Blocks, head : Nat, tail : Nat, last : Nat, size : Nat]
    BY DEF RB!Rings, Blocks, Bytes
  <2>2. RB!Fill(r, n, data) = [r EXCEPT !.blocks = b]
    BY DEF RB!Fill
  <2> HIDE DEF b
  <2>3. QED
    BY <2>1, <2>2
<1>3. e \in 1 .. e /\ e \in Nat /\ t \in Nat
  BY <1>1
<1>4. PICK d \in Nat : d = Len(data) /\ d <= n
  BY DEF Bytes
<1>5. DOMAIN data = 1 .. d /\ \A i \in 1 .. d : data[i] \in Nat
  BY <1>4 DEF Bytes
<1>6. /\ new \in Bytes /\ Len(new) = Len(was)
      /\ \A j \in 1 .. t : new[j] = was[j]
      /\ \A i \in 1 .. d : new[t + i] = data[i]
  <2>1. DOMAIN was = 1 .. Len(was) /\ \A j \in 1 .. Len(was) : was[j] \in Nat
    BY <1>1, LenProperties, ElementOfSeq DEF Bytes
  <2> HIDE DEF was, t
  <2>2. new \in [1 .. Len(was) -> Nat]
    BY <1>5, <2>1
  <2>3. new \in Bytes /\ Len(new) = Len(was)
    BY <1>1, <2>2 DEF Bytes
  <2>4. \A j \in 1 .. t : j \in 1 .. Len(was) /\ j - t \notin 1 .. d
    BY <1>1, <1>3 DEF t
  <2>5. \A i \in 1 .. d : t + i \in 1 .. Len(was) /\ (t + i) - t = i
    <3>1. PICK len \in Nat : len = Len(was)
      BY <1>1
    <3>2. r.tail \in Nat /\ r.tail <= len
      BY <1>1, <3>1
    <3>3. \A i \in 1 .. d : t + i \in 1 .. len /\ (t + i) - t = i
      BY <1>3, <1>4, <3>2, SMTT(30) DEF t
    <3>4. QED
      BY <3>1, <3>3
  <2>6. \A j \in 1 .. t : new[j] = was[j]
    BY <1>5, <2>1, <2>4
  <2>7. ASSUME NEW i \in 1 .. d PROVE new[t + i] = data[i]
    <3>1. new[t + i] = IF (t + i) - t \in DOMAIN data THEN data[(t + i) - t] ELSE was[t + i]
      BY <2>1, <2>5
    <3>2. QED
      BY <1>5, <2>5, <3>1
  <2>8. QED
    BY <2>3, <2>6, <2>7
<1> HIDE DEF new
<1>7. /\ b \in Blocks /\ Len(b) = e /\ b[e] = new
      /\ \A i \in 1 .. e : i # e => b[i] = r.blocks[i]
  <2> HIDE DEF e, was
  <2>1. QED
    BY <1>1, <1>3, <1>6, ExceptSeq DEF Blocks
<1>8. \A i \in 1 .. r.last : b[i] = r.blocks[i]
  <2>1. \A i \in 1 .. r.last : i \in 1 .. e /\ i # e
    <3>1. r.last \in Nat
      BY <1>1
    <3>2. QED
      BY <3>1
  <2> HIDE DEF b
  <2>2. QED
    BY <1>7, <2>1
<1> HIDE DEF b
<1>9. f \in RB!Rings
  <2>1. r.head <= Len(b[1])
    <3>1. CASE r.last = 0
      BY <1>1, <1>6, <1>7, <3>1
    <3>2. CASE r.last # 0
      <4>1. b[1] = r.blocks[1]
        BY <1>1, <1>8, <3>2
      <4>2. QED
        BY <1>1, <4>1
    <3>3. QED
      BY <3>1, <3>2
  <2>2. r.tail <= Len(b[r.last + 1])
    BY <1>1, <1>6, <1>7
  <2>3. QED
    BY <1>1, <1>7, <2>1, <2>2, IsRing
<1>10. /\ f.last = r.last /\ f.head = r.head /\ f.tail = r.tail /\ f.size = r.size
       /\ f.blocks = b
  OBVIOUS
<1> HIDE DEF f
<1>11. t + d \in Nat /\ t + d <= Len(new) /\ t <= t + d /\ (r.last = 0 => r.head <= t + d)
  <2>1. PICK len \in Nat : len = Len(was)
    BY <1>1
  <2>2. r.tail \in Nat /\ r.tail <= len /\ (r.last = 0 => r.head <= t) /\ r.head \in Nat
    BY <1>1, <2>1
  <2>3. t + d \in Nat /\ t + d <= len /\ t <= t + d /\ (r.last = 0 => r.head <= t + d)
    BY <1>3, <1>4, <2>2
  <2>4. QED
    BY <1>6, <2>1, <2>3
<1> DEFINE w == WithTail(f, t + d, z)
           v == WithTail(f, t, y)
           u == WithTail(r, t, y)
<1>12. w \in RB!Rings
  <2>1. t + d <= Len(f.blocks[f.last + 1])
    BY <1>7, <1>10, <1>11
  <2>2. QED
    BY <1>9, <1>10, <1>11, <2>1, TailMoved
<1>13. /\ w.last = r.last /\ w.head = r.head /\ w.tail = t + d /\ w.blocks = b
       /\ WithTail(w, t, y) = v
       /\ v.last = r.last /\ v.head = r.head /\ v.tail = t /\ v.blocks = b
       /\ u.last = r.last /\ u.head = r.head /\ u.tail = t /\ u.blocks = r.blocks
  BY <1>10 DEF WithTail
<1> HIDE DEF w
<1>14. /\ v \in RB!Rings
       /\ SubSeq(w.blocks[w.last + 1], t + 1, w.tail) \in Bytes
       /\ RB!Contents(w) = RB!Contents(v) \o SubSeq(w.blocks[w.last + 1], t + 1, w.tail)
  <2>1. t <= w.tail /\ (w.last = 0 => w.head <= t)
    BY <1>11, <1>13
  <2>2. QED
    BY <1>3, <1>12, <1>13, <2>1, TailCut, ZenonT(60)
<1>15. SubSeq(w.blocks[w.last + 1], t + 1, w.tail) = data
  <2>1. SubSeq(w.blocks[w.last + 1], t + 1, w.tail) = SubSeq(new, t + 1, t + d)
    BY <1>7, <1>13
  <2>2. \A j \in t + 1 .. t + d : new[j] \in Nat
    <3>1. \A j \in 1 .. Len(new) : new[j] \in Nat
      BY <1>6, ElementOfSeq DEF Bytes
    <3>2. Len(new) \in Nat
      BY <1>6 DEF Bytes
    <3>3. \A j \in t + 1 .. t + d : j \in 1 .. Len(new)
      BY <1>3, <1>4, <1>11, <3>2
    <3>4. QED
      BY <3>1, <3>3
  <2> HIDE DEF t
  <2>3. /\ SubSeq(new, t + 1, t + d) \in Seq(Nat)
        /\ Len(SubSeq(new, t + 1, t + d)) = IF t + 1 <= t + d THEN t + d - (t + 1) + 1 ELSE 0
        /\ \A i \in 1 .. t + d - (t + 1) + 1 : SubSeq(new, t + 1, t + d)[i] = new[t + 1 + i - 1]
    BY <1>3, <1>4, <2>2, SubSeqProperties
  <2>4. t + d - (t + 1) + 1 = d /\ (IF t + 1 <= t + d THEN t + d - (t + 1) + 1 ELSE 0) = d
    BY <1>3, <1>4
  <2>5. \A i \in 1 .. d : t + 1 + i - 1 = t + i
    BY <1>3
  <2>6. \A i \in 1 .. d : SubSeq(new, t + 1, t + d)[i] = data[i]
    BY <1>6, <2>3, <2>4, <2>5
  <2>7. SubSeq(new, t + 1, t + d) = data
    BY <1>4, <2>3, <2>4, <2>6, SeqEqual DEF Bytes
  <2>8. QED
    BY <2>1, <2>7
<1>16. RB!Contents(v) = RB!Contents(u)
  <2>1. u \in RB!Rings
    BY <1>1, <1>3, TailMoved
  <2>2. \A j \in 1 .. v.tail : v.blocks[v.last + 1][j] = u.blocks[v.last + 1][j]
    BY <1>6, <1>7, <1>13
  <2>3. \A i \in 1 .. v.last : v.blocks[i] = u.blocks[i]
    BY <1>8, <1>13
  <2>4. v.last = u.last /\ v.head = u.head /\ v.tail = u.tail
    BY <1>13
  <2> HIDE DEF v, u
  <2>5. v \in RB!Rings
    BY <1>14
  <2>6. QED
    BY <2>1, <2>2, <2>3, <2>4, <2>5, SameContents
<1>17. RB!Contents(w) = RB!Contents(u) \o data
  BY <1>14, <1>15, <1>16
<1>18. Len(f.blocks[r.last + 1]) = Len(r.blocks[r.last + 1])
  BY <1>6, <1>7, <1>10
<1>19. \A i \in 1 .. r.last : f.blocks[i] = r.blocks[i]
  BY <1>8, <1>10
<1>20. QED
  BY <1>2, <1>4, <1>9, <1>10, <1>12, <1>17, <1>18, <1>19 DEF w

\* The count is that of the bytes, and a ring without bytes is as new.
Sized(r) ==
    /\ r \in RB!Rings
    /\ r.size = Len(RB!Contents(r))
    /\ r.size = 0 => RB!IsEmpty(r)

\* No block but the last is used up, and the last has room for more than one.
Solid(r) ==
    /\ r.last # 0 => r.head < Len(r.blocks[1]) /\ Len(r.blocks[r.last + 1]) >= 2
    /\ \A i \in 2 .. r.last : Len(r.blocks[i]) > 0

LEMMA ContentsLength ==
    ASSUME NEW r \in RB!Rings, r.last = 0
    PROVE  Len(RB!Contents(r)) = r.tail - r.head
<1>1. RB!Contents(r) = SubSeq(r.blocks[1], r.head + 1, r.tail)
  BY OneBlock
<1>2. /\ r.head \in Nat /\ r.tail \in Nat /\ r.head <= r.tail
      /\ r.blocks[1] \in Bytes /\ Len(r.blocks[1]) \in Nat /\ r.tail <= Len(r.blocks[1])
  <2>1. r.last + 1 = 1
    OBVIOUS
  <2>2. r.tail <= Len(r.blocks[1])
    BY <2>1, RingFields, Zenon
  <2>3. QED
    BY <2>2, RingFields
<1>3. \A j \in r.head + 1 .. r.tail : r.blocks[1][j] \in Nat
  <2>1. \A j \in 1 .. Len(r.blocks[1]) : r.blocks[1][j] \in Nat
    BY <1>2, ElementOfSeq DEF Bytes
  <2>2. QED
    BY <1>2, <2>1
<1>4. Len(SubSeq(r.blocks[1], r.head + 1, r.tail))
         = IF r.head + 1 <= r.tail THEN r.tail - (r.head + 1) + 1 ELSE 0
  BY <1>2, <1>3, SubSeqProperties
<1>5. (IF r.head + 1 <= r.tail THEN r.tail - (r.head + 1) + 1 ELSE 0) = r.tail - r.head
  BY <1>2
<1>6. QED
  BY <1>1, <1>4, <1>5

LEMMA SizedFacts ==
    ASSUME NEW r, Sized(r)
    PROVE  /\ r.size = 0 => r.last = 0 /\ r.tail = 0 /\ r.head = 0
           /\ r.last = 0 /\ r.size # 0 => r.head < r.tail
           /\ RB!IsEmpty(r) <=> r.size = 0
<1>1. /\ r \in RB!Rings /\ r.head \in Nat /\ r.tail \in Nat /\ r.last \in Nat /\ r.size \in Nat
      /\ r.last = 0 => r.head <= r.tail
  BY RingFields DEF Sized
<1>2. r.size = 0 => r.last = 0 /\ r.tail = 0
  BY DEF Sized, RB!IsEmpty
<1>3. r.last = 0 => r.size = r.tail - r.head
  BY ContentsLength DEF Sized
<1>4. QED
  BY <1>1, <1>2, <1>3 DEF RB!IsEmpty

LEMMA Reserved ==
    ASSUME NEW r, Sized(r), NEW n \in Nat
    PROVE  LET u == RB!Reserve(r, n)
           IN  /\ u \in RB!Rings /\ u.size = r.size + n /\ n <= u.tail
               /\ u.last = 0 => u.head <= u.tail - n
               /\ r.size = 0 => u.last = 0 /\ u.head = 0 /\ u.tail = n
               /\ RB!Contents(WithTail(u, u.tail - n, 0)) = RB!Contents(r)
               /\ Solid(r) => Solid(u)
<1> DEFINE u == RB!Reserve(r, n)
           e == r.last + 1
           Good(v) ==
               /\ v \in RB!Rings /\ v.size = r.size + n /\ n <= v.tail
               /\ v.last = 0 => v.head <= v.tail - n
               /\ r.size = 0 => v.last = 0 /\ v.head = 0 /\ v.tail = n
               /\ RB!Contents(WithTail(v, v.tail - n, 0)) = RB!Contents(r)
               /\ Solid(r) => Solid(v)
           max == RB!Larger(BlockSize, n)
<1>1. /\ r \in RB!Rings /\ r.head \in Nat /\ r.tail \in Nat /\ r.last \in Nat /\ r.size \in Nat
      /\ r.last = 0 => r.head <= r.tail
      /\ r \in [blocks : Blocks, head : Nat, tail : Nat, last : Nat, size : Nat]
  BY RingFields DEF Sized, RB!Rings, Blocks, Bytes
<1>2. max \in Nat /\ max >= n /\ max >= 2
  BY BlocksHoldBytes DEF RB!Larger
<1>3. /\ r.size = 0 => r.last = 0 /\ r.tail = 0 /\ r.head = 0
      /\ r.last = 0 /\ r.size # 0 => r.head < r.tail
  BY SizedFacts
<1> DEFINE Moved(s, t) == WithTail(s, t, r.size + n)
<1>4. ASSUME NEW s \in RB!Rings, NEW t \in Nat, n <= t, t - n = r.tail,
             t <= Len(s.blocks[e]),
             s.last = r.last, s.head = r.head,
             RB!Contents(WithTail(s, r.tail, 0)) = RB!Contents(r),
             r.size = 0 => t = n, Solid(r) => Solid(s)
      PROVE  Good(Moved(s, t))
  <2>1. Moved(s, t) \in RB!Rings
    BY <1>1, <1>4, TailMoved
  <2>2. /\ Moved(s, t).size = r.size + n /\ Moved(s, t).tail = t
        /\ Moved(s, t).last = r.last /\ Moved(s, t).head = r.head
        /\ Moved(s, t).blocks = s.blocks
    BY <1>4 DEF WithTail
  <2>3. WithTail(Moved(s, t), t - n, 0) = WithTail(s, r.tail, 0)
    BY <1>4 DEF WithTail
  <2> HIDE DEF Moved
  <2>4. Solid(r) => Solid(Moved(s, t))
    BY <1>4, <2>2 DEF Solid
  <2>5. QED
    BY <1>1, <1>3, <1>4, <2>1, <2>2, <2>3, <2>4
<1>5. CASE r.size = 0
  <2> DEFINE s == RB!Resize(r, 1, max)
  <2>1. r.last = 0 /\ e = 1 /\ r.tail = 0 /\ r.tail <= max
    BY <1>2, <1>3, <1>5
  <2>2. RB!Resize(r, r.last + 1, max) = s
    BY <2>1, Zenon
  <2>3. /\ s \in RB!Rings /\ s.last = r.last /\ s.head = r.head /\ s.tail = r.tail
        /\ Len(s.blocks[r.last + 1]) = max
        /\ RB!Contents(s) = RB!Contents(r)
    BY <1>1, <1>2, <2>1, <2>2, Resized
  <2> HIDE DEF s
  <2>4. RB!Contents(WithTail(s, r.tail, 0)) = RB!Contents(s)
    BY <2>3, ContentsSame DEF WithTail
  <2>5. Solid(s)
    BY <2>1, <2>3 DEF Solid
  <2>6. u = Moved(s, n)
    <3>1. u = [s EXCEPT !.size = n, !.tail = n]
      BY <1>5 DEF RB!Reserve, s
    <3>2. s \in [blocks : Blocks, head : Nat, tail : Nat, last : Nat, size : Nat]
      BY <2>3 DEF RB!Rings, Blocks, Bytes
    <3>3. r.size + n = n
      BY <1>5
    <3>4. QED
      BY <3>1, <3>2, <3>3 DEF WithTail
  <2>7. n - n = r.tail /\ n <= max
    BY <1>2, <2>1
  <2>8. Good(Moved(s, n))
    BY <1>4, <2>1, <2>3, <2>4, <2>5, <2>7
  <2>9. QED
    BY <2>6, <2>8
<1>6. CASE r.size # 0 /\ r.tail + n <= Len(r.blocks[e])
  <2>1. u = [r EXCEPT !.size = @ + n, !.tail = @ + n]
    BY <1>6 DEF RB!Reserve
  <2>2. u = Moved(r, r.tail + n)
    BY <1>1, <2>1 DEF WithTail
  <2>3. RB!Contents(WithTail(r, r.tail, 0)) = RB!Contents(r)
    BY <1>1, ContentsSame DEF WithTail
  <2>4. r.tail + n \in Nat /\ n <= r.tail + n /\ r.tail + n - n = r.tail
    BY <1>1
  <2>5. Good(Moved(r, r.tail + n))
    BY <1>1, <1>4, <1>6, <2>3, <2>4, SMTT(30)
  <2>6. QED
    BY <2>2, <2>5
<1>7. CASE /\ r.size # 0 /\ ~(r.tail + n <= Len(r.blocks[e]))
           /\ r.tail < Len(r.blocks[e]) \div 2
  <2> DEFINE t == r.tail + n
             s == RB!Resize(r, e, t)
  <2>1. t \in Nat /\ r.tail <= t /\ n <= t /\ t - n = r.tail
    BY <1>1
  <2>2. /\ s \in RB!Rings /\ s.last = r.last /\ s.head = r.head /\ s.tail = r.tail
        /\ s.size = r.size
        /\ \A i \in 1 .. r.last : s.blocks[i] = r.blocks[i]
        /\ Len(s.blocks[e]) = t
        /\ RB!Contents(s) = RB!Contents(r)
    <3> HIDE DEF t
    <3>1. QED
      BY <1>1, <2>1, Resized
  <2>3. u = Moved(s, t)
    <3>1. u = RB!Resize([r EXCEPT !.size = @ + n, !.tail = @ + n], e, t)
      BY <1>7 DEF RB!Reserve
    <3>2. u = [s EXCEPT !.size = r.size + n, !.tail = t]
      BY <1>1, <3>1 DEF RB!Resize
    <3> HIDE DEF s, t
    <3>3. s \in [blocks : Blocks, head : Nat, tail : Nat, last : Nat, size : Nat]
      BY <2>2 DEF RB!Rings, Blocks, Bytes
    <3>4. QED
      BY <3>2, <3>3 DEF WithTail
  <2> HIDE DEF s
  <2>4. RB!Contents(WithTail(s, r.tail, 0)) = RB!Contents(s)
    BY <2>2, ContentsSame DEF WithTail
  <2>5. Solid(r) => Solid(s)
    <3> SUFFICES ASSUME Solid(r) PROVE Solid(s)
      OBVIOUS
    <3>1. PICK len \in Nat : len = Len(r.blocks[e])
      BY <1>1, RingFields
    <3>2. t > len
      BY <1>1, <1>7, <3>1
    <3>3. ASSUME r.last # 0 PROVE s.head < Len(s.blocks[1]) /\ Len(s.blocks[e]) >= 2
      <4>1. s.blocks[1] = r.blocks[1]
        BY <1>1, <2>2, <3>3
      <4>2. len >= 2 /\ r.head < Len(r.blocks[1])
        BY <3>1, <3>3 DEF Solid
      <4>3. t >= 2
        BY <2>1, <3>1, <3>2, <4>2
      <4>4. QED
        BY <2>2, <4>1, <4>2, <4>3
    <3>4. \A i \in 2 .. r.last : Len(s.blocks[i]) > 0
      <4>1. \A i \in 2 .. r.last : i \in 1 .. r.last
        BY <1>1
      <4>2. QED
        BY <2>2, <4>1 DEF Solid
    <3>5. QED
      BY <2>2, <3>3, <3>4 DEF Solid
  <2>6. t <= Len(s.blocks[e])
    BY <2>1, <2>2
  <2>7. r.size = 0 => t = n
    BY <1>7
  <2> HIDE DEF t
  <2>8. Good(Moved(s, t))
    BY <1>4, <2>1, <2>2, <2>4, <2>5, <2>6, <2>7
  <2>9. QED
    BY <2>3, <2>8
<1>8. CASE /\ r.size # 0 /\ ~(r.tail + n <= Len(r.blocks[e]))
           /\ ~(r.tail < Len(r.blocks[e]) \div 2)
  <2> DEFINE s == RB!Resize(r, e, r.tail)
             b == [j \in 1 .. max |-> Junk]
             x == Extend(s, b, n, r.size + n)
  <2>1. /\ s \in RB!Rings /\ s.last = r.last /\ s.head = r.head /\ s.tail = r.tail
        /\ s.size = r.size
        /\ \A i \in 1 .. r.last : s.blocks[i] = r.blocks[i]
        /\ Len(s.blocks[e]) = r.tail
        /\ RB!Contents(s) = RB!Contents(r)
    BY <1>1, Resized
  <2>2. u = x
    <3>1. u = [s EXCEPT !.blocks = Append(@, b), !.last = @ + 1, !.tail = n, !.size = @ + n]
      BY <1>8 DEF RB!Reserve
    <3> HIDE DEF s, b
    <3>2. s \in [blocks : Blocks, head : Nat, tail : Nat, last : Nat, size : Nat]
      BY <2>1 DEF RB!Rings, Blocks, Bytes
    <3>3. s.size + n = r.size + n
      BY <2>1
    <3>4. QED
      BY <3>1, <3>2, <3>3 DEF Extend
  <2> HIDE DEF s
  <2>3. b \in Bytes /\ Len(b) = max
    <3>1. b \in [1 .. max -> Nat]
      BY DEF Junk
    <3>2. QED
      BY <1>2, <3>1 DEF Bytes
  <2> HIDE DEF b, max, x
  <2>4. /\ x \in RB!Rings
        /\ x.head = r.head /\ x.tail = n /\ x.last = e /\ x.size = r.size + n
        /\ \A i \in 1 .. e : x.blocks[i] = s.blocks[i]
        /\ x.blocks[r.last + 2] = b
    <3>1. s.tail = Len(s.blocks[s.last + 1]) /\ n <= Len(b) /\ r.size + n \in Nat
      BY <1>1, <1>2, <2>1, <2>3
    <3>2. QED
      BY <2>1, <2>3, <3>1, Extended, SMTT(30) DEF x
  <2>5. RB!Contents(WithTail(x, 0, 0)) = RB!Contents(r)
    <3> DEFINE y == Extend(s, b, 0, 0)
    <3>1. s.tail = Len(s.blocks[s.last + 1]) /\ 0 <= Len(b)
      BY <1>2, <2>1, <2>3
    <3>2. RB!Contents(y) = RB!Contents(s) \o SubSeq(b, 1, 0)
      BY <2>1, <2>3, <3>1, Extended
    <3>3. WithTail(x, 0, 0) = y
      BY DEF WithTail, Extend, x
    <3>4. SubSeq(b, 1, 0) = << >>
      BY SubSeqEmpty
    <3>5. RB!Contents(s) \in Bytes
      BY <2>1, ContentsAre
    <3>6. RB!Contents(s) \o << >> = RB!Contents(s)
      BY <3>5, ConcatEmptySeq DEF Bytes
    <3>7. QED
      BY <2>1, <3>2, <3>3, <3>4, <3>6
  <2>6. Solid(r) => Solid(x)
    <3> SUFFICES ASSUME Solid(r) PROVE Solid(x)
      OBVIOUS
    <3>1. PICK len \in Nat : len = Len(r.blocks[e]) /\ r.tail <= len
      BY <1>1, RingFields
    <3>2. ~(r.tail < len \div 2)
      BY <1>8, <3>1
    <3>3. r.last # 0 => r.tail > 0 /\ r.head < Len(r.blocks[1])
      <4>1. r.last # 0 => len >= 2
        BY <3>1 DEF Solid
      <4>2. len >= 2 => r.tail > 0
        BY <1>1, <3>2
      <4>3. QED
        BY <4>1, <4>2 DEF Solid
    <3>4. x.head < Len(x.blocks[1])
      <4>1. CASE r.last = 0
        <5>1. e = 1 /\ x.blocks[1] = s.blocks[1] /\ Len(s.blocks[1]) = r.tail
          BY <2>1, <2>4, <4>1
        <5>2. r.head < r.tail
          BY <1>3, <1>8, <4>1
        <5>3. QED
          BY <2>4, <5>1, <5>2
      <4>2. CASE r.last # 0
        <5>1. 1 \in 1 .. e /\ 1 \in 1 .. r.last
          BY <1>1, <4>2
        <5>2. x.blocks[1] = r.blocks[1]
          BY <2>1, <2>4, <5>1
        <5>3. QED
          BY <2>4, <3>3, <4>2, <5>2
      <4>3. QED
        BY <4>1, <4>2
    <3>5. Len(x.blocks[x.last + 1]) >= 2
      <4>1. x.last + 1 = r.last + 2
        BY <1>1, <2>4
      <4>2. QED
        BY <1>2, <2>3, <2>4, <4>1
    <3>6. ASSUME NEW i \in 2 .. e PROVE Len(x.blocks[i]) > 0
      <4>1. i \in 1 .. e /\ x.blocks[i] = s.blocks[i]
        BY <1>1, <2>4
      <4>2. CASE i = e
        <5>1. r.last # 0
          BY <1>1, <4>2
        <5>2. Len(x.blocks[i]) = r.tail
          BY <2>1, <4>1, <4>2
        <5>3. QED
          BY <3>3, <5>1, <5>2
      <4>3. CASE i # e
        <5>1. i \in 1 .. r.last /\ i \in 2 .. r.last
          BY <1>1, <4>3
        <5>2. x.blocks[i] = r.blocks[i]
          BY <2>1, <4>1, <5>1
        <5>3. QED
          BY <5>1, <5>2 DEF Solid
      <4>4. QED
        BY <4>2, <4>3
    <3>7. QED
      BY <2>4, <3>4, <3>5, <3>6 DEF Solid
  <2>7. n - n = 0 /\ x.tail - n = 0 /\ x.last # 0
    BY <1>1, <2>4
  <2>8. Good(x)
    BY <1>1, <1>8, <2>4, <2>5, <2>6, <2>7
  <2>9. QED
    BY <2>2, <2>8
<1>9. Good(u)
  BY <1>5, <1>6, <1>7, <1>8
<1>10. QED
  BY <1>9

-----------------------------------------------------------------------------
(* The loops of chop() and free(), and what they have dropped.             *)

NewEnd(r, b, l, e) == [r EXCEPT !.blocks = b, !.last = l, !.tail = e]

LEMMA EndExcept ==
    ASSUME NEW r \in RB!Rings, NEW b, NEW e, NEW l
    PROVE  NewEnd(r, b, l, e) =
              [blocks |-> b, head |-> r.head, tail |-> e, last |-> l, size |-> r.size]
<1> DEFINE x == NewEnd(r, b, l, e)
           y == [blocks |-> b, head |-> r.head, tail |-> e, last |-> l, size |-> r.size]
<1>1. r \in [blocks : Blocks, head : Nat, tail : Nat, last : Nat, size : Nat]
  BY DEF RB!Rings, Blocks, Bytes
<1>2. /\ x.blocks = y.blocks /\ x.head = y.head /\ x.tail = y.tail /\ x.last = y.last
      /\ x.size = y.size
  BY <1>1 DEF NewEnd
<1>3. x = [k \in {"blocks", "head", "tail", "last", "size"} |-> x[k]]
  BY <1>1 DEF NewEnd
<1> HIDE DEF x
<1>4. x = y
  BY <1>2, <1>3
<1>5. QED
  BY <1>4 DEF x

NewFront(r, b, l, e) == [r EXCEPT !.blocks = b, !.last = l, !.head = e]

LEMMA FrontExcept ==
    ASSUME NEW r \in RB!Rings, NEW b, NEW e, NEW l
    PROVE  NewFront(r, b, l, e) =
              [blocks |-> b, head |-> e, tail |-> r.tail, last |-> l, size |-> r.size]
<1> DEFINE x == NewFront(r, b, l, e)
           y == [blocks |-> b, head |-> e, tail |-> r.tail, last |-> l, size |-> r.size]
<1>1. r \in [blocks : Blocks, head : Nat, tail : Nat, last : Nat, size : Nat]
  BY DEF RB!Rings, Blocks, Bytes
<1>2. /\ x.blocks = y.blocks /\ x.head = y.head /\ x.tail = y.tail /\ x.last = y.last
      /\ x.size = y.size
  BY <1>1 DEF NewFront
<1>3. x = [k \in {"blocks", "head", "tail", "last", "size"} |-> x[k]]
  BY <1>1 DEF NewFront
<1> HIDE DEF x
<1>4. x = y
  BY <1>2, <1>3
<1>5. QED
  BY <1>4 DEF x

LEMMA JobFields ==
    ASSUME NEW s \in RB!Jobs
    PROVE  s.ring \in RB!Rings /\ s.left \in Nat
BY DEF RB!Jobs

LEMMA IsJob ==
    ASSUME NEW r \in RB!Rings, NEW n \in Nat
    PROVE  RB!Job(r, n) \in RB!Jobs /\ RB!Job(r, n).ring = r /\ RB!Job(r, n).left = n
BY DEF RB!Jobs, RB!Job

\* What the loop of chop() has dropped has been the end.
LEMMA Chopping ==
    ASSUME NEW r \in RB!Rings, NEW n \in Nat
    PROVE  \E d \in RB!Jobs :
              /\ ~(d.ring.last # 0 /\ d.left > d.ring.tail)
              /\ ~(r.last # 0 /\ n > r.tail) => d = RB!Job(r, n)
              /\ \E p \in Bytes : /\ RB!Contents(r) = RB!Contents(d.ring) \o p
                                  /\ Len(p) + d.left = n
              /\ RB!ChopLoop(r, n) =
                    IF d.ring.last = 0 /\ d.ring.tail - d.left <= d.ring.head
                      THEN [d.ring EXCEPT !.tail = 0, !.head = 0]
                      ELSE [d.ring EXCEPT !.tail = @ - d.left]
<1> DEFINE S == RB!Jobs
           M == {s \in S : s.ring.last # 0 /\ s.left > s.ring.tail}
           t == [s \in M |-> RB!DropLast(s)]
           Loop(f) == f = [s \in S |-> IF s.ring.last # 0 /\ s.left > s.ring.tail
                                         THEN f[RB!DropLast(s)] ELSE s]
           loop == CHOOSE f : Loop(f)
           c == RB!Contents(r)
           I == {s \in S : \E p \in Bytes : /\ c = RB!Contents(s.ring) \o p
                                            /\ Len(p) + s.left = n}
           measure == [s \in S |-> s.ring.last]
<1>1. ASSUME NEW s \in M
      PROVE  RB!DropLast(s) = [ring |-> WithoutLast(s.ring), left |-> s.left - s.ring.tail]
  <2> DEFINE g == s.ring
             w == [g EXCEPT !.blocks = Front(g.blocks), !.last = g.last - 1,
                            !.tail = Len(g.blocks[g.last])]
  <2>1. g \in RB!Rings
    BY JobFields
  <2>2. w = WithoutLast(g)
    <3>1. w = NewEnd(g, Front(g.blocks), g.last - 1, Len(g.blocks[g.last]))
      BY Zenon DEF NewEnd
    <3> HIDE DEF g, w
    <3>2. QED
      BY <2>1, <3>1, EndExcept DEF WithoutLast
  <2>3. RB!Front(g.blocks) = Front(g.blocks)
    BY LibraryOfRings
  <2>4. RB!DropLast(s) = [ring |-> w, left |-> s.left - g.tail]
    BY <2>3 DEF RB!DropLast, RB!Job
  <2>5. QED
    BY <2>2, <2>4
<1>2. ASSUME NEW s \in M
      PROVE  /\ s.ring \in RB!Rings /\ s.left \in Nat /\ s.ring.last # 0
             /\ s.ring.tail \in Nat /\ s.left - s.ring.tail \in Nat /\ s.ring.last \in Nat
             /\ t[s] \in S /\ t[s].ring = WithoutLast(s.ring)
             /\ t[s].left = s.left - s.ring.tail
  <2>1. s.ring \in RB!Rings /\ s.left \in Nat /\ s.ring.last # 0 /\ s.left > s.ring.tail
    BY JobFields
  <2>2. s.ring.tail \in Nat /\ s.ring.last \in Nat
    BY <2>1, RingFields
  <2>3. WithoutLast(s.ring) \in RB!Rings
    BY <2>1, LastBlock
  <2>4. s.left - s.ring.tail \in Nat
    BY <2>1, <2>2
  <2>5. t[s] = [ring |-> WithoutLast(s.ring), left |-> s.left - s.ring.tail]
    BY <1>1
  <2>6. QED
    BY <2>1, <2>2, <2>3, <2>4, <2>5 DEF RB!Jobs
<1>3. t \in [M -> S]
  BY <1>2
<1>4. \A f : Loop(f) <=> Loops(S, M, t, f)
  BY Zenon DEF Loops
<1>5. Loop(loop)
  <2>1. M \in SUBSET S
    OBVIOUS
  <2> HIDE DEF M, t, S, Loop
  <2>2. \E f : Loops(S, M, t, f)
    BY <1>3, <2>1, LoopExists, Zenon
  <2>3. \E f : Loop(f)
    BY <1>4, <2>2
  <2>4. QED
    BY <2>3, Zenon
<1>6. ASSUME NEW s \in I \cap M PROVE t[s] \in I
  <2>1. PICK p \in Bytes : c = RB!Contents(s.ring) \o p /\ Len(p) + s.left = n
    OBVIOUS
  <2> DEFINE q == SubSeq(s.ring.blocks[s.ring.last + 1], 1, s.ring.tail)
             w == RB!Contents(WithoutLast(s.ring))
  <2>2. q \in Bytes /\ RB!Contents(s.ring) = w \o q /\ w \in Bytes
    BY <1>2, LastBlock, ContentsAre
  <2>3. Len(q) = s.ring.tail
    <3>1. PICK k \in Nat : k = s.ring.tail
      BY <1>2
    <3>2. /\ s.ring.blocks[s.ring.last + 1] \in Bytes
          /\ k <= Len(s.ring.blocks[s.ring.last + 1])
          /\ Len(s.ring.blocks[s.ring.last + 1]) \in Nat
      BY <1>2, <3>1, RingFields
    <3>3. \A j \in 1 .. k : s.ring.blocks[s.ring.last + 1][j] \in Nat
      <4>1. \A j \in 1 .. Len(s.ring.blocks[s.ring.last + 1]) :
                s.ring.blocks[s.ring.last + 1][j] \in Nat
        BY <3>2, ElementOfSeq DEF Bytes
      <4>2. \A j \in 1 .. k : j \in 1 .. Len(s.ring.blocks[s.ring.last + 1])
        BY <3>2
      <4>3. QED
        BY <4>1, <4>2
    <3>4. Len(SubSeq(s.ring.blocks[s.ring.last + 1], 1, k)) = IF 1 <= k THEN k - 1 + 1 ELSE 0
      BY <3>3, SubSeqProperties
    <3>5. (IF 1 <= k THEN k - 1 + 1 ELSE 0) = k
      OBVIOUS
    <3>6. QED
      BY <3>1, <3>4, <3>5
  <2> HIDE DEF q, w
  <2>4. c = w \o (q \o p)
    <3>1. w \in Seq(Nat) /\ q \in Seq(Nat) /\ p \in Seq(Nat)
      BY <2>2 DEF Bytes
    <3>2. (w \o q) \o p = w \o (q \o p)
      BY <3>1, ConcatAssociative
    <3>3. QED
      BY <2>1, <2>2, <3>2, Zenon
  <2>5. q \o p \in Bytes /\ Len(q \o p) = Len(q) + Len(p)
    BY <2>2, ConcatProperties DEF Bytes
  <2>6. Len(p) \in Nat
    BY DEF Bytes
  <2>7. Len(q \o p) + (s.left - s.ring.tail) = n
    <3>1. PICK x \in Nat, y \in Nat : x = Len(p) /\ y = Len(q)
      BY <1>2, <2>3, <2>6
    <3>2. Len(q \o p) = y + x /\ x + s.left = n /\ y = s.ring.tail
      BY <2>1, <2>3, <2>5, <3>1
    <3>3. s.left \in Nat
      BY <1>2
    <3>4. y + x + (s.left - y) = x + s.left
      BY <3>3
    <3>5. QED
      BY <3>2, <3>4
  <2>8. c = RB!Contents(t[s].ring) \o (q \o p) /\ Len(q \o p) + t[s].left = n
    BY <1>2, <2>4, <2>7 DEF w
  <2> HIDE DEF t, c, S
  <2>9. t[s] \in S
    BY <1>2
  <2>10. QED
    BY <2>5, <2>8, <2>9
<1>7. /\ measure \in [S -> Nat]
      /\ \A s \in I \cap M : measure[t[s]] < measure[s]
  <2>1. \A s \in S : s.ring.last \in Nat
    BY JobFields, RingFields
  <2>2. ASSUME NEW s \in I \cap M PROVE measure[t[s]] < measure[s]
    <3>1. t[s] \in S /\ s \in S /\ t[s].ring = WithoutLast(s.ring) /\ s.ring.last \in Nat
      BY <1>2
    <3> HIDE DEF t, S, M, I
    <3>2. t[s].ring.last = s.ring.last - 1
      BY <3>1 DEF WithoutLast
    <3>3. measure[t[s]] = s.ring.last - 1 /\ measure[s] = s.ring.last
      BY <3>1, <3>2
    <3>4. QED
      BY <3>1, <3>3
  <2>3. QED
    BY <2>1, <2>2
<1> DEFINE start == RB!Job(r, n)
           d == loop[start]
<1>8. start \in S /\ start.ring = r /\ start.left = n
  BY IsJob
<1>9. start \in I
  <2>1. c \o << >> = c /\ << >> \in Bytes /\ Len(<< >>) = 0
    BY ContentsAre, ConcatEmptySeq DEF Bytes
  <2> HIDE DEF start, c
  <2>2. c = RB!Contents(start.ring) \o << >> /\ Len(<< >>) + start.left = n
    BY <1>8, <2>1 DEF c
  <2>3. QED
    BY <1>8, <2>1, <2>2
<1>10. d \in I \ M
  <2>1. Loops(S, M, t, loop)
    BY <1>4, <1>5
  <2>2. M \in SUBSET S /\ I \in SUBSET S
    OBVIOUS
  <2>3. \A s \in I \cap M : t[s] \in I
    BY <1>6
  <2> HIDE DEF loop, M, t, S, I, measure, start
  <2>4. QED
    BY <1>3, <1>7, <1>9, <2>1, <2>2, <2>3, LoopEnds
<1>11. ~(r.last # 0 /\ n > r.tail) => d = start
  <2> HIDE DEF loop, start
  <2>1. QED
    BY <1>5, <1>8
<1>12. RB!ChopLoop(r, n) =
          IF d.ring.last = 0 /\ d.ring.tail - d.left <= d.ring.head
            THEN [d.ring EXCEPT !.tail = 0, !.head = 0]
            ELSE [d.ring EXCEPT !.tail = @ - d.left]
  BY Zenon DEF RB!ChopLoop, RB!While
<1> HIDE DEF loop, start, c
<1>13. d \in S /\ ~(d.ring.last # 0 /\ d.left > d.ring.tail)
       /\ \E p \in Bytes : c = RB!Contents(d.ring) \o p /\ Len(p) + d.left = n
  BY <1>10
<1>14. QED
  BY <1>11, <1>12, <1>13 DEF start, c

LEMMA Slice ==
    ASSUME NEW s \in Bytes, NEW a \in Nat, NEW b \in Nat, a <= b, b <= Len(s)
    PROVE  /\ SubSeq(s, a + 1, b) \in Bytes
           /\ Len(SubSeq(s, a + 1, b)) = b - a
           /\ \A i \in 1 .. b - a : SubSeq(s, a + 1, b)[i] = s[a + i]
<1>1. \A j \in a + 1 .. b : s[j] \in Nat
  <2>1. \A j \in 1 .. Len(s) : s[j] \in Nat
    BY ElementOfSeq DEF Bytes
  <2>2. Len(s) \in Nat
    BY DEF Bytes
  <2>3. \A j \in a + 1 .. b : j \in 1 .. Len(s)
    BY <2>2
  <2>4. QED
    BY <2>1, <2>3
<1>2. /\ SubSeq(s, a + 1, b) \in Seq(Nat)
      /\ Len(SubSeq(s, a + 1, b)) = IF a + 1 <= b THEN b - (a + 1) + 1 ELSE 0
      /\ \A i \in 1 .. b - (a + 1) + 1 : SubSeq(s, a + 1, b)[i] = s[a + 1 + i - 1]
  BY <1>1, SubSeqProperties
<1>3. b - (a + 1) + 1 = b - a /\ (IF a + 1 <= b THEN b - (a + 1) + 1 ELSE 0) = b - a
  OBVIOUS
<1>4. \A i \in 1 .. b - a : a + 1 + i - 1 = a + i
  OBVIOUS
<1>5. QED
  BY <1>2, <1>3, <1>4 DEF Bytes

\* A sequence is what comes before a place and what comes after it.
LEMMA Cancel ==
    ASSUME NEW p \in Bytes, NEW q \in Bytes, NEW v \in Bytes, NEW w \in Bytes,
           p \o q = v \o w, Len(p) = Len(v)
    PROVE  p = v /\ q = w
<1>1. PICK n \in Nat : n = Len(p)
  BY DEF Bytes
<1>2. PICK m \in Nat, k \in Nat : m = Len(q) /\ k = Len(w)
  BY DEF Bytes
<1>3. /\ Len(p \o q) = n + m
      /\ \A i \in 1 .. n : (p \o q)[i] = p[i]
      /\ \A i \in 1 .. m : (p \o q)[n + i] = q[i]
  <2>1. \A i \in 1 .. m : n + i \in 1 .. n + m /\ n + i > n /\ n + i - n = i
    OBVIOUS
  <2>2. \A i \in 1 .. n : i \in 1 .. n + m /\ i <= n
    OBVIOUS
  <2>3. /\ Len(p \o q) = Len(p) + Len(q)
        /\ \A i \in 1 .. Len(p) + Len(q) :
              (p \o q)[i] = IF i <= Len(p) THEN p[i] ELSE q[i - Len(p)]
    BY ConcatProperties DEF Bytes
  <2>4. /\ Len(p \o q) = n + m
        /\ \A i \in 1 .. n + m : (p \o q)[i] = IF i <= n THEN p[i] ELSE q[i - n]
    BY <1>1, <1>2, <2>3
  <2>5. ASSUME NEW i \in 1 .. m PROVE (p \o q)[n + i] = q[i]
    <3>1. n + i \in 1 .. n + m /\ ~(n + i <= n) /\ n + i - n = i
      BY <2>1
    <3>2. (p \o q)[n + i] = IF n + i <= n THEN p[n + i] ELSE q[n + i - n]
      BY <2>4, <3>1
    <3>3. QED
      BY <3>1, <3>2
  <2>6. \A i \in 1 .. n : (p \o q)[i] = p[i]
    BY <2>2, <2>4
  <2>7. QED
    BY <2>4, <2>5, <2>6
<1>4. /\ Len(v \o w) = n + k
      /\ \A i \in 1 .. n : (v \o w)[i] = v[i]
      /\ \A i \in 1 .. k : (v \o w)[n + i] = w[i]
  <2>1. \A i \in 1 .. k : n + i \in 1 .. n + k /\ n + i > n /\ n + i - n = i
    OBVIOUS
  <2>2. \A i \in 1 .. n : i \in 1 .. n + k /\ i <= n
    OBVIOUS
  <2>3. /\ Len(v \o w) = Len(v) + Len(w)
        /\ \A i \in 1 .. Len(v) + Len(w) :
              (v \o w)[i] = IF i <= Len(v) THEN v[i] ELSE w[i - Len(v)]
    BY ConcatProperties DEF Bytes
  <2>4. /\ Len(v \o w) = n + k
        /\ \A i \in 1 .. n + k : (v \o w)[i] = IF i <= n THEN v[i] ELSE w[i - n]
    BY <1>1, <1>2, <2>3
  <2>5. ASSUME NEW i \in 1 .. k PROVE (v \o w)[n + i] = w[i]
    <3>1. n + i \in 1 .. n + k /\ ~(n + i <= n) /\ n + i - n = i
      BY <2>1
    <3>2. (v \o w)[n + i] = IF n + i <= n THEN v[n + i] ELSE w[n + i - n]
      BY <2>4, <3>1
    <3>3. QED
      BY <3>1, <3>2
  <2>6. \A i \in 1 .. n : (v \o w)[i] = v[i]
    BY <2>2, <2>4
  <2>7. QED
    BY <2>4, <2>5, <2>6
<1>5. m = k
  <2>1. n + m = n + k
    BY <1>3, <1>4
  <2>2. QED
    BY <2>1
<1>6. \A i \in 1 .. n : p[i] = v[i]
  BY <1>3, <1>4
<1>7. \A i \in 1 .. m : q[i] = w[i]
  BY <1>3, <1>4, <1>5
<1>8. p = v
  BY <1>1, <1>6, SeqEqual DEF Bytes
<1>9. q = w
  BY <1>2, <1>5, <1>7, SeqEqual DEF Bytes
<1>10. QED
  BY <1>8, <1>9

LEMMA Join ==
    ASSUME NEW p \in Bytes, NEW q \in Bytes
    PROVE  /\ p \o q \in Bytes
           /\ Len(p \o q) = Len(p) + Len(q) /\ Len(p) \in Nat /\ Len(q) \in Nat
           /\ << >> \in Bytes /\ Len(<< >>) = 0 /\ << >> \o q = q /\ q \o << >> = q
BY ConcatProperties, ConcatEmptySeq DEF Bytes

LEMMA Joins ==
    ASSUME NEW p \in Bytes, NEW q \in Bytes, NEW v \in Bytes
    PROVE  (p \o q) \o v = p \o (q \o v)
<1>1. p \in Seq(Nat) /\ q \in Seq(Nat) /\ v \in Seq(Nat)
  BY DEF Bytes
<1>2. QED
  BY <1>1, ConcatAssociative, SMTT(60)

\* What is left of the first block.
FirstPart(r) == SubSeq(r.blocks[1], r.head + 1, r.head + RB!NextDataBlockSize(r))

LEMMA NextBlock ==
    ASSUME NEW r \in RB!Rings
    PROVE  LET k == RB!NextDataBlockSize(r)
           IN  /\ k \in Nat /\ r.head + k <= Len(r.blocks[1])
               /\ FirstPart(r) \in Bytes /\ Len(FirstPart(r)) = k
               /\ r.last = 0 => k = r.tail - r.head /\ RB!Contents(r) = FirstPart(r)
               /\ r.last # 0 =>
                     /\ k = Len(r.blocks[1]) - r.head
                     /\ RB!Contents(r) = FirstPart(r) \o RB!Contents(WithoutFirst(r))
<1> DEFINE k == RB!NextDataBlockSize(r)
<1>1. /\ r.head \in Nat /\ r.tail \in Nat /\ r.blocks[1] \in Bytes
      /\ Len(r.blocks[1]) \in Nat /\ r.head <= Len(r.blocks[1])
      /\ r.last = 0 => r.head <= r.tail
  BY RingFields
<1>2. PICK end \in Nat : end = IF r.last = 0 THEN r.tail ELSE Len(r.blocks[1])
  BY <1>1
<1>3. k = end - r.head
  BY <1>2 DEF RB!NextDataBlockSize
<1>4. r.head <= end /\ end <= Len(r.blocks[1])
  <2>1. CASE r.last = 0
    <3>1. r.last + 1 = 1
      BY <2>1
    <3>2. r.tail <= Len(r.blocks[1])
      BY <3>1, RingFields, Zenon
    <3>3. QED
      BY <1>1, <1>2, <2>1, <3>2
  <2>2. CASE r.last # 0
    BY <1>1, <1>2, <2>2
  <2>3. QED
    BY <2>1, <2>2
<1> HIDE DEF k
<1>5. k \in Nat /\ r.head + k = end
  BY <1>1, <1>3, <1>4
<1>6. FirstPart(r) = SubSeq(r.blocks[1], r.head + 1, end)
  BY <1>5 DEF FirstPart, k
<1>7. /\ SubSeq(r.blocks[1], r.head + 1, end) \in Bytes
      /\ Len(SubSeq(r.blocks[1], r.head + 1, end)) = end - r.head
  BY <1>1, <1>4, Slice
<1>8. ASSUME r.last = 0
      PROVE  k = r.tail - r.head /\ RB!Contents(r) = FirstPart(r)
  BY <1>2, <1>3, <1>6, <1>8, OneBlock
<1>9. ASSUME r.last # 0
      PROVE  /\ k = Len(r.blocks[1]) - r.head
             /\ RB!Contents(r) = FirstPart(r) \o RB!Contents(WithoutFirst(r))
  BY <1>2, <1>3, <1>6, <1>9, FirstBlock
<1>10. QED
  BY <1>3, <1>4, <1>5, <1>6, <1>7, <1>8, <1>9 DEF k

LEMMA SolidWithoutFirst ==
    ASSUME NEW r \in RB!Rings, r.last # 0, Solid(r)
    PROVE  Solid(WithoutFirst(r))
<1> DEFINE w == WithoutFirst(r)
<1>1. PICK l \in Nat : r.last = l + 1
  <2>1. r.last - 1 \in Nat /\ r.last = (r.last - 1) + 1
    BY RingFields
  <2>2. QED
    BY <2>1
<1>2. r.blocks \in Blocks /\ r.blocks # << >> /\ Len(r.blocks) = l + 2
  BY <1>1, RingFields
<1>3. w.last = l /\ w.head = 0 /\ w.blocks = Tail(r.blocks)
  BY <1>1 DEF WithoutFirst
<1>4. \A i \in 1 .. l + 1 : w.blocks[i] = r.blocks[i + 1]
  BY <1>2, <1>3, HeadTailProperties DEF Blocks
<1> HIDE DEF w
<1>5. Len(r.blocks[l + 2]) >= 2
  BY <1>1 DEF Solid
<1>6. \A i \in 2 .. l + 1 : Len(r.blocks[i]) > 0
  BY <1>1 DEF Solid
<1>7. w.last # 0 => w.head < Len(w.blocks[1])
  <2> SUFFICES ASSUME w.last # 0 PROVE 0 < Len(w.blocks[1])
    BY <1>3
  <2>1. 1 \in 1 .. l + 1 /\ 2 \in 2 .. l + 1 /\ 1 + 1 = 2
    BY <1>3
  <2>2. w.blocks[1] = r.blocks[2]
    BY <1>4, <2>1
  <2>3. QED
    BY <1>6, <2>1, <2>2
<1>8. Len(w.blocks[w.last + 1]) >= 2
  <2>1. l + 1 \in 1 .. l + 1 /\ l + 1 + 1 = l + 2
    OBVIOUS
  <2>2. w.blocks[l + 1] = r.blocks[l + 2]
    BY <1>4, <2>1
  <2>3. QED
    BY <1>3, <1>5, <2>2
<1>9. \A i \in 2 .. w.last : Len(w.blocks[i]) > 0
  <2> SUFFICES ASSUME NEW i \in 2 .. l PROVE Len(w.blocks[i]) > 0
    BY <1>3
  <2>1. i \in 1 .. l + 1 /\ i + 1 \in 2 .. l + 1
    OBVIOUS
  <2>2. QED
    BY <1>4, <1>6, <2>1
<1>10. QED
  BY <1>7, <1>8, <1>9 DEF Solid, w

\* What the loop of free() has dropped has been the beginning.
LEMMA Freeing ==
    ASSUME NEW r \in RB!Rings, NEW n \in Nat
    PROVE  \E d \in RB!Jobs :
              /\ Solid(r) => Solid(d.ring)
              /\ ~(d.left >= RB!NextDataBlockSize(d.ring) /\ d.ring.last # 0)
              /\ d.ring.size = r.size
              /\ \E p \in Bytes : /\ RB!Contents(r) = p \o RB!Contents(d.ring)
                                  /\ Len(p) + d.left = n
              /\ RB!FreeLoop(r, n) =
                    IF d.left >= RB!NextDataBlockSize(d.ring)
                      THEN [RB!Resize(d.ring, 1, BlockSize) EXCEPT !.head = 0, !.tail = 0, !.last = 0]
                    ELSE IF d.ring.head + d.left = d.ring.tail /\ d.ring.last = 0
                      THEN [d.ring EXCEPT !.head = 0, !.tail = 0]
                    ELSE [d.ring EXCEPT !.head = @ + d.left]
<1> DEFINE S == RB!Jobs
           M == {s \in S : s.left >= RB!NextDataBlockSize(s.ring) /\ Len(s.ring.blocks) # 1}
           t == [s \in M |-> RB!DropFirst(s)]
           Loop(f) == f = [s \in S |-> IF s.left >= RB!NextDataBlockSize(s.ring)
                                            /\ Len(s.ring.blocks) # 1
                                         THEN f[RB!DropFirst(s)] ELSE s]
           loop == CHOOSE f : Loop(f)
           c == RB!Contents(r)
           I == {s \in S : /\ (Solid(r) => Solid(s.ring)) /\ s.ring.size = r.size
                           /\ \E p \in Bytes : /\ c = p \o RB!Contents(s.ring)
                                               /\ Len(p) + s.left = n}
           measure == [s \in S |-> s.ring.last]
<1>1. ASSUME NEW s \in M
      PROVE  RB!DropFirst(s) = [ring |-> WithoutFirst(s.ring),
                                left |-> s.left - RB!NextDataBlockSize(s.ring)]
  <2> DEFINE g == s.ring
             w == [g EXCEPT !.blocks = Tail(g.blocks), !.last = g.last - 1, !.head = 0]
  <2>1. g \in RB!Rings
    BY JobFields
  <2>2. w = WithoutFirst(g)
    <3>1. w = NewFront(g, Tail(g.blocks), g.last - 1, 0)
      BY Zenon DEF NewFront
    <3> HIDE DEF g, w
    <3>2. \A b, e, l : NewFront(g, b, l, e) =
              [blocks |-> b, head |-> e, tail |-> g.tail, last |-> l, size |-> g.size]
      BY <2>1, FrontExcept
    <3>3. QED
      BY <3>1, <3>2, Zenon DEF WithoutFirst
  <2>3. RB!DropFirst(s) = [ring |-> w, left |-> s.left - RB!NextDataBlockSize(g)]
    BY DEF RB!DropFirst, RB!Job
  <2>4. QED
    BY <2>2, <2>3
<1>2. ASSUME NEW s \in M
      PROVE  /\ s.ring \in RB!Rings /\ s.left \in Nat /\ s.ring.last # 0 /\ s.ring.last \in Nat
             /\ RB!NextDataBlockSize(s.ring) \in Nat
             /\ s.left - RB!NextDataBlockSize(s.ring) \in Nat
             /\ t[s] \in S /\ t[s].ring = WithoutFirst(s.ring)
             /\ t[s].left = s.left - RB!NextDataBlockSize(s.ring)
  <2>1. /\ s.ring \in RB!Rings /\ s.left \in Nat /\ Len(s.ring.blocks) # 1
        /\ s.left >= RB!NextDataBlockSize(s.ring)
    BY JobFields
  <2>2. s.ring.last # 0 /\ s.ring.last \in Nat
    <3>1. Len(s.ring.blocks) = s.ring.last + 1 /\ s.ring.last \in Nat
      BY <2>1, RingFields
    <3>2. QED
      BY <2>1, <3>1
  <2>3. WithoutFirst(s.ring) \in RB!Rings
    BY <2>1, <2>2, FirstBlock
  <2>4. RB!NextDataBlockSize(s.ring) \in Nat
    BY <2>1, NextBlock
  <2>5. s.left - RB!NextDataBlockSize(s.ring) \in Nat
    BY <2>1, <2>4
  <2>6. t[s] = [ring |-> WithoutFirst(s.ring), left |-> s.left - RB!NextDataBlockSize(s.ring)]
    BY <1>1
  <2>7. QED
    BY <2>1, <2>2, <2>3, <2>4, <2>5, <2>6 DEF RB!Jobs
<1>3. t \in [M -> S]
  BY <1>2
<1>4. \A f : Loop(f) <=> Loops(S, M, t, f)
  BY Zenon DEF Loops
<1>5. Loop(loop)
  <2>1. M \in SUBSET S
    OBVIOUS
  <2> HIDE DEF M, t, S, Loop
  <2>2. \E f : Loops(S, M, t, f)
    BY <1>3, <2>1, LoopExists, Zenon
  <2>3. \E f : Loop(f)
    BY <1>4, <2>2
  <2>4. QED
    BY <2>3, Zenon
<1>6. ASSUME NEW s \in I \cap M PROVE t[s] \in I
  <2>1. PICK p \in Bytes : c = p \o RB!Contents(s.ring) /\ Len(p) + s.left = n
    OBVIOUS
  <2> DEFINE q == FirstPart(s.ring)
             w == RB!Contents(WithoutFirst(s.ring))
             k == RB!NextDataBlockSize(s.ring)
  <2>2. q \in Bytes /\ Len(q) = k /\ RB!Contents(s.ring) = q \o w /\ w \in Bytes
    BY <1>2, NextBlock, FirstBlock, ContentsAre
  <2>3. k \in Nat /\ s.left \in Nat
    BY <1>2
  <2> HIDE DEF q, w, k
  <2>4. c = (p \o q) \o w
    <3>1. (p \o q) \o w = p \o (q \o w)
      BY <2>2, Joins
    <3>2. QED
      BY <2>1, <2>2, <3>1, Zenon
  <2>5. p \o q \in Bytes /\ Len(p \o q) = Len(p) + Len(q)
    BY <2>2, Join
  <2>6. Len(p \o q) + (s.left - k) = n
    <3>1. PICK x \in Nat : x = Len(p)
      BY DEF Bytes
    <3>2. Len(p \o q) = x + k /\ x + s.left = n
      BY <2>1, <2>2, <2>5, <3>1
    <3>3. x + k + (s.left - k) = x + s.left
      BY <2>3
    <3>4. QED
      BY <3>2, <3>3
  <2>7. c = (p \o q) \o RB!Contents(t[s].ring) /\ Len(p \o q) + t[s].left = n
    BY <1>2, <2>4, <2>6 DEF w, k
  <2>8. (Solid(r) => Solid(t[s].ring)) /\ t[s].ring.size = r.size
    <3>1. (Solid(r) => Solid(s.ring)) /\ s.ring.size = r.size
      OBVIOUS
    <3>2. Solid(r) => Solid(WithoutFirst(s.ring))
      BY <1>2, <3>1, SolidWithoutFirst
    <3>3. WithoutFirst(s.ring).size = r.size
      BY <3>1 DEF WithoutFirst
    <3>4. QED
      BY <1>2, <3>2, <3>3
  <2>9. t[s] \in S
    BY <1>2
  <2> HIDE DEF t, c, S
  <2>10. QED
    BY <2>5, <2>7, <2>8, <2>9
<1>7. /\ measure \in [S -> Nat]
      /\ \A s \in I \cap M : measure[t[s]] < measure[s]
  <2>1. \A s \in S : s.ring.last \in Nat
    BY JobFields, RingFields
  <2>2. ASSUME NEW s \in I \cap M PROVE measure[t[s]] < measure[s]
    <3>1. t[s] \in S /\ s \in S /\ t[s].ring = WithoutFirst(s.ring) /\ s.ring.last \in Nat
      BY <1>2
    <3> HIDE DEF t, S, M, I
    <3>2. t[s].ring.last = s.ring.last - 1
      BY <3>1 DEF WithoutFirst
    <3>3. measure[t[s]] = s.ring.last - 1 /\ measure[s] = s.ring.last
      BY <3>1, <3>2
    <3>4. QED
      BY <3>1, <3>3
  <2>3. QED
    BY <2>1, <2>2
<1> DEFINE start == RB!Job(r, n)
           d == loop[start]
<1>8. start \in S /\ start.ring = r /\ start.left = n
  BY IsJob
<1>9. start \in I
  <2>1. << >> \o c = c /\ << >> \in Bytes /\ Len(<< >>) = 0
    BY ContentsAre, Join
  <2> HIDE DEF start, c
  <2>2. c = << >> \o RB!Contents(start.ring) /\ Len(<< >>) + start.left = n
    BY <1>8, <2>1 DEF c
  <2>3. QED
    BY <1>8, <2>1, <2>2
<1>10. d \in I \ M
  <2>1. Loops(S, M, t, loop)
    BY <1>4, <1>5
  <2>2. M \in SUBSET S /\ I \in SUBSET S
    OBVIOUS
  <2>3. \A s \in I \cap M : t[s] \in I
    BY <1>6
  <2> HIDE DEF loop, M, t, S, I, measure, start
  <2>4. QED
    BY <1>3, <1>7, <1>9, <2>1, <2>2, <2>3, LoopEnds
<1>11. RB!FreeLoop(r, n) =
          IF d.left >= RB!NextDataBlockSize(d.ring)
            THEN [RB!Resize(d.ring, 1, BlockSize) EXCEPT !.head = 0, !.tail = 0, !.last = 0]
          ELSE IF d.ring.head + d.left = d.ring.tail /\ d.ring.last = 0
            THEN [d.ring EXCEPT !.head = 0, !.tail = 0]
          ELSE [d.ring EXCEPT !.head = @ + d.left]
  BY Zenon DEF RB!FreeLoop, RB!While
<1> HIDE DEF loop, start, c
<1>12. /\ d \in S /\ ~(d.left >= RB!NextDataBlockSize(d.ring) /\ Len(d.ring.blocks) # 1)
       /\ (Solid(r) => Solid(d.ring)) /\ d.ring.size = r.size
       /\ \E p \in Bytes : c = p \o RB!Contents(d.ring) /\ Len(p) + d.left = n
  BY <1>10
<1>13. d.ring.last # 0 => Len(d.ring.blocks) # 1
  <2>1. d.ring \in RB!Rings
    BY <1>12, JobFields
  <2>2. Len(d.ring.blocks) = d.ring.last + 1 /\ d.ring.last \in Nat
    BY <2>1, RingFields
  <2>3. QED
    BY <2>2
<1>14. QED
  BY <1>11, <1>12, <1>13 DEF c

-----------------------------------------------------------------------------
(* Taking from the beginning: free() and read().                           *)

LEMMA Split ==
    ASSUME NEW s \in Bytes, NEW a \in Nat, NEW b \in Nat, NEW e \in Nat, a <= b, b <= e,
           e <= Len(s)
    PROVE  SubSeq(s, a + 1, e) = SubSeq(s, a + 1, b) \o SubSeq(s, b + 1, e)
<1> DEFINE x == SubSeq(s, a + 1, e)
           p == SubSeq(s, a + 1, b)
           q == SubSeq(s, b + 1, e)
<1>1. Len(s) \in Nat
  BY DEF Bytes
<1>2. x \in Bytes /\ Len(x) = e - a /\ \A i \in 1 .. e - a : x[i] = s[a + i]
  BY Slice
<1>3. p \in Bytes /\ Len(p) = b - a /\ \A i \in 1 .. b - a : p[i] = s[a + i]
  BY <1>1, Slice
<1>4. q \in Bytes /\ Len(q) = e - b /\ \A i \in 1 .. e - b : q[i] = s[b + i]
  BY Slice
<1> HIDE DEF x, p, q
<1>5. /\ Len(p \o q) = Len(p) + Len(q)
      /\ \A i \in 1 .. Len(p) + Len(q) :
            (p \o q)[i] = IF i <= Len(p) THEN p[i] ELSE q[i - Len(p)]
  BY <1>3, <1>4, ConcatProperties DEF Bytes
<1>6. b - a + (e - b) = e - a
  OBVIOUS
<1>7. /\ Len(p \o q) = e - a
      /\ \A i \in 1 .. e - a : (p \o q)[i] = IF i <= b - a THEN p[i] ELSE q[i - (b - a)]
  BY <1>3, <1>4, <1>5, <1>6
<1>8. ASSUME NEW i \in 1 .. e - a PROVE x[i] = (p \o q)[i]
  <2>1. CASE i <= b - a
    <3>1. i \in 1 .. b - a
      BY <2>1
    <3>2. (p \o q)[i] = p[i]
      BY <1>7, <2>1
    <3>3. QED
      BY <1>2, <1>3, <3>1, <3>2
  <2>2. CASE ~(i <= b - a)
    <3>1. i - (b - a) \in 1 .. e - b /\ b + (i - (b - a)) = a + i
      BY <2>2
    <3>2. (p \o q)[i] = q[i - (b - a)]
      BY <1>7, <2>2
    <3>3. q[i - (b - a)] = s[b + (i - (b - a))]
      BY <1>4, <3>1
    <3>4. QED
      BY <1>2, <3>1, <3>2, <3>3
  <2>3. QED
    BY <2>1, <2>2
<1>9. p \o q \in Bytes
  BY <1>3, <1>4, Join
<1>10. x = p \o q
  BY <1>2, <1>7, <1>8, <1>9, SeqEqual DEF Bytes
<1>11. QED
  BY <1>10 DEF x, p, q

WithHead(r, h) ==
    [blocks |-> r.blocks, head |-> h, tail |-> r.tail, last |-> r.last, size |-> r.size]

LEMMA HeadMoved ==
    ASSUME NEW r \in RB!Rings, NEW m \in Nat, m <= RB!NextDataBlockSize(r)
    PROVE  LET w == WithHead(r, r.head + m)
               p == SubSeq(r.blocks[1], r.head + 1, r.head + m)
           IN  /\ w \in RB!Rings
               /\ p \in Bytes /\ Len(p) = m
               /\ RB!Contents(r) = p \o RB!Contents(w)
               /\ RB!NextDataBlockSize(w) = RB!NextDataBlockSize(r) - m
<1> DEFINE k == RB!NextDataBlockSize(r)
           h == r.head + m
           w == WithHead(r, h)
           b == r.blocks[1]
           p == SubSeq(b, r.head + 1, h)
<1>1. /\ r.blocks \in Blocks /\ r.head \in Nat /\ r.tail \in Nat /\ r.last \in Nat /\ r.size \in Nat
      /\ Len(r.blocks) = r.last + 1
      /\ b \in Bytes /\ Len(b) \in Nat
      /\ r.tail <= Len(r.blocks[r.last + 1])
  BY RingFields
<1>2. /\ k \in Nat /\ r.head + k <= Len(b)
      /\ FirstPart(r) \in Bytes
      /\ r.last = 0 => k = r.tail - r.head /\ RB!Contents(r) = FirstPart(r)
      /\ r.last # 0 => /\ k = Len(b) - r.head
                       /\ RB!Contents(r) = FirstPart(r) \o RB!Contents(WithoutFirst(r))
  BY NextBlock
<1>3. h \in Nat /\ h <= r.head + k /\ h <= Len(b) /\ r.head <= h
  BY <1>1, <1>2, SMTT(30)
<1>4. r.last = 0 => h <= r.tail
  BY <1>1, <1>2, <1>3
<1>5. w \in RB!Rings
  <2> HIDE DEF h
  <2>1. QED
    BY <1>1, <1>3, <1>4, IsRing DEF WithHead
<1>6. /\ w.blocks = r.blocks /\ w.head = h /\ w.tail = r.tail /\ w.last = r.last
      /\ w.size = r.size
  BY DEF WithHead
<1>7. RB!NextDataBlockSize(w) = k - m
  <2>1. PICK end \in Nat : end = IF r.last = 0 THEN r.tail ELSE Len(b)
    BY <1>1
  <2>2. k = end - r.head
    BY <2>1 DEF RB!NextDataBlockSize
  <2>3. RB!NextDataBlockSize(w) = end - h
    BY <1>6, <2>1 DEF RB!NextDataBlockSize
  <2> HIDE DEF k, w
  <2>4. end - h = k - m
    BY <1>1, <2>2
  <2>5. QED
    BY <2>3, <2>4
<1>8. p \in Bytes /\ Len(p) = m
  <2>1. h - r.head = m
    BY <1>1
  <2> HIDE DEF h
  <2>2. QED
    BY <1>1, <1>3, <2>1, Slice
<1>9. FirstPart(r) = p \o FirstPart(w)
  <2>1. FirstPart(w) = SubSeq(b, h + 1, h + (k - m))
    BY <1>6, <1>7 DEF FirstPart
  <2>2. h + (k - m) = r.head + k /\ r.head + k \in Nat
    BY <1>1, <1>2
  <2>3. FirstPart(r) = SubSeq(b, r.head + 1, r.head + k)
    BY DEF FirstPart
  <2>4. PICK e \in Nat : e = r.head + k
    BY <2>2
  <2>5. e <= Len(b) /\ h <= e
    BY <1>2, <1>3, <2>4
  <2>6. FirstPart(w) = SubSeq(b, h + 1, e) /\ FirstPart(r) = SubSeq(b, r.head + 1, e)
    BY <2>1, <2>2, <2>3, <2>4
  <2> HIDE DEF h, b
  <2>7. SubSeq(b, r.head + 1, e) = SubSeq(b, r.head + 1, h) \o SubSeq(b, h + 1, e)
    <3>1. b \in Bytes /\ r.head \in Nat /\ h \in Nat /\ r.head <= h
      BY <1>1, <1>3
    <3>2. QED
      BY <2>5, <3>1, Split, Zenon
  <2>8. QED
    BY <2>6, <2>7
<1> HIDE DEF p, w
<1>10. RB!Contents(r) = p \o RB!Contents(w)
  <2>1. FirstPart(w) \in Bytes
    BY <1>5, NextBlock
  <2>2. CASE r.last = 0
    <3>1. RB!Contents(w) = FirstPart(w)
      BY <1>5, <1>6, <2>2, NextBlock
    <3>2. QED
      BY <1>2, <1>9, <2>2, <3>1
  <2>3. CASE r.last # 0
    <3>1. WithoutFirst(w) = WithoutFirst(r)
      BY <1>6 DEF WithoutFirst
    <3> DEFINE z == RB!Contents(WithoutFirst(r))
    <3>2. z \in Bytes
      BY <2>3, FirstBlock, ContentsAre
    <3>3. RB!Contents(w) = FirstPart(w) \o z
      BY <1>5, <1>6, <2>3, <3>1, NextBlock
    <3>4. RB!Contents(r) = (p \o FirstPart(w)) \o z
      BY <1>2, <1>9, <2>3
    <3> HIDE DEF z
    <3>5. (p \o FirstPart(w)) \o z = p \o (FirstPart(w) \o z)
      BY <1>8, <2>1, <3>2, Joins
    <3>6. QED
      BY <3>3, <3>4, <3>5, Zenon
  <2>4. QED
    BY <2>2, <2>3
<1>11. QED
  BY <1>5, <1>7, <1>8, <1>10 DEF w, p

LEMMA NewRing ==
    /\ Sized(RB!EmptyRing) /\ Solid(RB!EmptyRing)
    /\ RB!Contents(RB!EmptyRing) = << >> /\ RB!EmptyRing.size = 0
<1> DEFINE r == RB!EmptyRing
<1>1. r = [blocks |-> << << >> >>, head |-> 0, tail |-> 0, last |-> 0, size |-> 0]
  BY DEF RB!EmptyRing
<1>2. << << >> >> \in Blocks /\ Len(<< << >> >>) = 0 + 1 /\ Len(<< << >> >>[1]) = 0
      /\ << << >> >>[0 + 1] = << >>
  BY DEF Blocks, Bytes
<1>3. r \in RB!Rings
  <2>1. PICK b : b = << << >> >>
    OBVIOUS
  <2>2. b \in Blocks /\ Len(b) = 0 + 1 /\ 0 <= Len(b[1]) /\ 0 <= Len(b[0 + 1]) /\ 0 \in Nat
    BY <1>2, <2>1
  <2>3. [blocks |-> b, head |-> 0, tail |-> 0, last |-> 0, size |-> 0] \in RB!Rings
    <3>1. PICK n \in Nat : n = 0
      OBVIOUS
    <3>2. Len(b) = n + 1 /\ n <= Len(b[1]) /\ n <= Len(b[n + 1]) /\ n <= n
      BY <2>2, <3>1
    <3>3. [blocks |-> b, head |-> n, tail |-> n, last |-> n, size |-> n] \in RB!Rings
      BY <2>2, <3>2, IsRing
    <3>4. QED
      BY <3>1, <3>3
  <2>4. QED
    BY <1>1, <2>1, <2>3
<1>4. r.last = 0 /\ r.head = 0 /\ r.tail = 0 /\ r.size = 0
  BY <1>1
<1> HIDE DEF r
<1>5. Len(RB!Contents(r)) = 0
  <2>1. Len(RB!Contents(r)) = r.tail - r.head
    BY <1>3, <1>4, ContentsLength
  <2>2. QED
    BY <1>4, <2>1
<1>6. RB!Contents(r) = << >>
  <2>1. RB!Contents(r) \in Bytes
    BY <1>3, ContentsAre
  <2>2. QED
    BY <1>5, <2>1 DEF Bytes
<1>7. Sized(r)
  BY <1>3, <1>4, <1>5 DEF Sized, RB!IsEmpty
<1>8. Solid(r)
  BY <1>4 DEF Solid
<1>9. QED
  BY <1>4, <1>6, <1>7, <1>8 DEF r

LEMMA WithSize ==
    ASSUME NEW r \in RB!Rings, NEW z \in Nat
    PROVE  LET w == [r EXCEPT !.size = z]
           IN  /\ w \in RB!Rings /\ RB!Contents(w) = RB!Contents(r) /\ w.size = z
               /\ w.blocks = r.blocks /\ w.head = r.head /\ w.tail = r.tail /\ w.last = r.last
               /\ Solid(r) => Solid(w)
<1> DEFINE w == [r EXCEPT !.size = z]
<1>1. r \in [blocks : Blocks, head : Nat, tail : Nat, last : Nat, size : Nat]
  BY DEF RB!Rings, Blocks, Bytes
<1>2. /\ w.size = z /\ w.blocks = r.blocks /\ w.head = r.head /\ w.tail = r.tail
      /\ w.last = r.last
  BY <1>1
<1>3. w \in RB!Rings
  <2>1. w = WithTail(r, r.tail, z)
    BY <1>1 DEF WithTail
  <2>2. r.tail \in Nat /\ r.tail <= Len(r.blocks[r.last + 1]) /\ (r.last = 0 => r.head <= r.tail)
    BY RingFields
  <2> HIDE DEF w
  <2>3. QED
    BY <2>1, <2>2, TailMoved
<1> HIDE DEF w
<1>4. RB!Contents(w) = RB!Contents(r)
  BY <1>2, ContentsSame
<1>5. Solid(r) => Solid(w)
  BY <1>2 DEF Solid
<1>6. QED
  BY <1>2, <1>3, <1>4, <1>5 DEF w

\* free() takes the first n bytes out of the ring.
LEMMA Freed ==
    ASSUME NEW r, Sized(r), Solid(r), NEW n \in Nat, n <= r.size
    PROVE  /\ Sized(RB!Free(r, n)) /\ Solid(RB!Free(r, n))
           /\ \E p \in Bytes : RB!Contents(r) = p \o RB!Contents(RB!Free(r, n)) /\ Len(p) = n
<1> DEFINE z == RB!Larger(r.size - n, 0)
           w == [r EXCEPT !.size = z]
           f == RB!FreeLoop(w, n)
           c == RB!Contents(r)
<1>1. r \in RB!Rings /\ r.size \in Nat /\ r.size = Len(c) /\ c \in Bytes
  BY RingFields, ContentsAre DEF Sized
<1>2. z \in Nat /\ z = r.size - n
  BY <1>1 DEF RB!Larger
<1>3. w \in RB!Rings /\ RB!Contents(w) = c /\ w.size = z /\ Solid(w)
  <2> HIDE DEF z
  <2>1. QED
    BY <1>1, <1>2, WithSize
<1>4. RB!Free(r, n) = IF RB!IsEmpty(f) THEN RB!EmptyRing ELSE f
  BY DEF RB!Free
<1> HIDE DEF c, w, z
<1>5. PICK d \in RB!Jobs :
         /\ Solid(w) => Solid(d.ring)
         /\ ~(d.left >= RB!NextDataBlockSize(d.ring) /\ d.ring.last # 0)
         /\ d.ring.size = w.size
         /\ \E p \in Bytes : /\ RB!Contents(w) = p \o RB!Contents(d.ring)
                             /\ Len(p) + d.left = n
         /\ f = IF d.left >= RB!NextDataBlockSize(d.ring)
                  THEN [RB!Resize(d.ring, 1, BlockSize) EXCEPT !.head = 0, !.tail = 0, !.last = 0]
                ELSE IF d.ring.head + d.left = d.ring.tail /\ d.ring.last = 0
                  THEN [d.ring EXCEPT !.head = 0, !.tail = 0]
                ELSE [d.ring EXCEPT !.head = @ + d.left]
  BY <1>3, Freeing
<1> HIDE DEF f
<1>6. PICK p \in Bytes : c = p \o RB!Contents(d.ring) /\ Len(p) + d.left = n
  BY <1>3, <1>5
<1> DEFINE g == d.ring
           k == RB!NextDataBlockSize(g)
           m == d.left
           e == RB!Contents(g)
<1>7. g \in RB!Rings /\ m \in Nat /\ e \in Bytes /\ g.size = z
  BY <1>3, <1>5, JobFields, ContentsAre
<1>8. /\ k \in Nat
      /\ g.last = 0 => k = g.tail - g.head /\ e = FirstPart(g)
      /\ FirstPart(g) \in Bytes /\ Len(FirstPart(g)) = k
  BY <1>7, NextBlock
<1>9. PICK a \in Nat, b \in Nat : a = Len(p) /\ b = Len(e)
  BY <1>7 DEF Bytes
<1>10. a + b = r.size /\ a + m = n /\ z = b - m /\ m <= b
  <2>1. Len(c) = a + b
    BY <1>6, <1>7, <1>9, Join
  <2>2. QED
    BY <1>1, <1>2, <1>6, <1>7, <1>9, <2>1, SMTT(30)
<1> HIDE DEF g, k, m, e
<1>11. CASE m >= k
  <2>1. g.last = 0
    BY <1>5, <1>11 DEF g, m, k
  <2>2. e = FirstPart(g) /\ b = k
    BY <1>8, <1>9, <2>1
  <2>3. m = b
    BY <1>7, <1>8, <1>10, <1>11, <2>2
  <2>4. f.tail = 0 /\ f.last = 0
    <3>1. f = [RB!Resize(g, 1, BlockSize) EXCEPT !.head = 0, !.tail = 0, !.last = 0]
      BY <1>5, <1>11 DEF g, m, k
    <3>2. g \in [blocks : Blocks, head : Nat, tail : Nat, last : Nat, size : Nat]
      BY <1>7 DEF RB!Rings, Blocks, Bytes
    <3>3. QED
      BY <3>1, <3>2 DEF RB!Resize
  <2>5. RB!Free(r, n) = RB!EmptyRing
    BY <1>4, <2>4 DEF RB!IsEmpty
  <2>6. c \o << >> = c
    BY <1>1, Join
  <2>7. Len(c) = n
    BY <1>1, <1>9, <1>10, <2>3
  <2>8. QED
    BY <1>1, <2>5, <2>6, <2>7, NewRing DEF c
<1>12. CASE ~(m >= k)
  <2> DEFINE h == WithHead(g, g.head + m)
  <2>1. /\ g.head \in Nat /\ g.tail \in Nat /\ g.last \in Nat
        /\ g.last = 0 => g.head <= g.tail
        /\ g \in [blocks : Blocks, head : Nat, tail : Nat, last : Nat, size : Nat]
    BY <1>7, RingFields DEF RB!Rings, Blocks, Bytes
  <2>2. ~(g.head + m = g.tail /\ g.last = 0)
    BY <1>7, <1>8, <1>12, <2>1
  <2>3. f = h
    <3>1. f = [g EXCEPT !.head = @ + m]
      BY <1>5, <1>12, <2>2 DEF g, m, k
    <3>2. QED
      BY <2>1, <3>1 DEF WithHead
  <2> DEFINE q == SubSeq(g.blocks[1], g.head + 1, g.head + m)
  <2>4. m <= k
    BY <1>7, <1>8, <1>12
  <2>5. /\ h \in RB!Rings /\ q \in Bytes /\ Len(q) = m /\ e = q \o RB!Contents(h)
        /\ RB!NextDataBlockSize(h) = k - m
    BY <1>7, <2>4, HeadMoved DEF e, k
  <2>6. h.blocks = g.blocks /\ h.head = g.head + m /\ h.tail = g.tail /\ h.last = g.last
        /\ h.size = g.size
    BY DEF WithHead
  <2> HIDE DEF h, q
  <2>7. RB!Contents(h) \in Bytes
    BY <2>5, ContentsAre
  <2>8. PICK x \in Nat : x = Len(RB!Contents(h))
    BY <2>7 DEF Bytes
  <2>9. b = m + x
    BY <1>9, <2>5, <2>7, <2>8, Join
  <2>10. x > 0
    <3>1. FirstPart(h) \in Bytes /\ Len(FirstPart(h)) = k - m
      BY <2>5, NextBlock
    <3>2. k - m > 0
      BY <1>7, <1>8, <1>12
    <3>3. CASE h.last = 0
      <4>1. RB!Contents(h) = FirstPart(h)
        BY <2>5, <3>3, NextBlock
      <4>2. QED
        BY <2>8, <3>1, <3>2, <4>1
    <3>4. CASE h.last # 0
      <4> DEFINE y == RB!Contents(WithoutFirst(h))
      <4>1. RB!Contents(h) = FirstPart(h) \o y
        BY <2>5, <3>4, NextBlock
      <4>2. y \in Bytes
        BY <2>5, <3>4, FirstBlock, ContentsAre
      <4> HIDE DEF y
      <4>3. PICK u \in Nat, v \in Nat : u = Len(FirstPart(h)) /\ v = Len(y)
        BY <3>1, <4>2 DEF Bytes
      <4>4. x = u + v
        BY <2>8, <3>1, <4>1, <4>2, <4>3, Join
      <4>5. u > 0
        BY <3>1, <3>2, <4>3
      <4>6. QED
        BY <4>4, <4>5
    <3>5. QED
      BY <3>3, <3>4
  <2>11. ~RB!IsEmpty(h)
    <3>1. g.last = 0 => g.tail # 0
      BY <1>7, <1>8, <1>12, <2>1
    <3>2. QED
      BY <2>6, <3>1 DEF RB!IsEmpty
  <2>12. RB!Free(r, n) = h
    BY <1>4, <2>3, <2>11
  <2>13. h.size = x
    <3>1. z = x
      BY <1>7, <1>10, <2>9
    <3>2. QED
      BY <1>7, <2>6, <3>1
  <2>14. Sized(h)
    BY <2>5, <2>8, <2>10, <2>13 DEF Sized
  <2>15. Solid(h)
    <3>1. Solid(g)
      BY <1>3, <1>5 DEF g
    <3>2. h.last # 0 => h.head < Len(h.blocks[1])
      <4> SUFFICES ASSUME h.last # 0 PROVE h.head < Len(h.blocks[1])
        OBVIOUS
      <4>1. g.last # 0
        BY <2>6
      <4>2. k = Len(g.blocks[1]) - g.head /\ Len(g.blocks[1]) \in Nat
        BY <1>7, <4>1, NextBlock, RingFields DEF k
      <4>3. PICK u \in Nat : u = Len(g.blocks[1])
        BY <4>2
      <4>4. g.head + m < u
        BY <1>7, <1>8, <1>12, <2>1, <4>2, <4>3
      <4>5. QED
        BY <2>6, <4>3, <4>4
    <3>3. QED
      BY <2>6, <3>1, <3>2 DEF Solid
  <2>16. c = (p \o q) \o RB!Contents(h)
    <3>1. (p \o q) \o RB!Contents(h) = p \o (q \o RB!Contents(h))
      BY <2>5, <2>7, Joins
    <3>2. c = p \o e
      BY <1>6 DEF g, e
    <3>3. QED
      BY <2>5, <3>1, <3>2, Zenon
  <2>17. p \o q \in Bytes /\ Len(p \o q) = n
    <3>1. p \o q \in Bytes /\ Len(p \o q) = Len(p) + Len(q)
      BY <2>5, Join
    <3>2. QED
      BY <1>9, <1>10, <2>5, <3>1
  <2>18. QED
    BY <2>12, <2>14, <2>15, <2>16, <2>17 DEF c
<1>13. QED
  BY <1>11, <1>12

LEMMA Cleared ==
    ASSUME NEW r \in RB!Rings, r.last = 0
    PROVE  LET x == [r EXCEPT !.tail = 0, !.head = 0]
           IN  /\ x \in RB!Rings /\ RB!Contents(x) = << >> /\ x.size = r.size
               /\ x.last = 0 /\ x.tail = 0 /\ RB!IsEmpty(x)
<1> DEFINE x == [r EXCEPT !.tail = 0, !.head = 0]
<1>1. /\ r \in [blocks : Blocks, head : Nat, tail : Nat, last : Nat, size : Nat]
      /\ r.blocks \in Blocks /\ r.size \in Nat /\ r.last \in Nat /\ r.blocks[1] \in Bytes
      /\ r.blocks[r.last + 1] \in Bytes
      /\ Len(r.blocks) = r.last + 1
  BY RingFields DEF RB!Rings, Blocks, Bytes
<1>2. x = [blocks |-> r.blocks, head |-> 0, tail |-> 0, last |-> r.last, size |-> r.size]
  <2> DEFINE y == [blocks |-> r.blocks, head |-> 0, tail |-> 0, last |-> r.last, size |-> r.size]
  <2>1. /\ x.blocks = y.blocks /\ x.head = y.head /\ x.tail = y.tail /\ x.last = y.last
        /\ x.size = y.size
    BY <1>1
  <2>2. x = [k \in {"blocks", "head", "tail", "last", "size"} |-> x[k]]
    BY <1>1
  <2> HIDE DEF x
  <2>3. QED
    BY <2>1, <2>2
<1>3. 0 <= Len(r.blocks[1]) /\ 0 <= Len(r.blocks[r.last + 1])
  BY <1>1 DEF Bytes
<1>4. x \in RB!Rings
  <2>1. PICK n \in Nat : n = 0
    OBVIOUS
  <2>2. n <= Len(r.blocks[1]) /\ n <= Len(r.blocks[r.last + 1]) /\ (r.last = 0 => n <= n)
    BY <1>3, <2>1
  <2>3. [blocks |-> r.blocks, head |-> n, tail |-> n, last |-> r.last, size |-> r.size] \in RB!Rings
    BY <1>1, <2>2, IsRing
  <2>4. QED
    BY <1>2, <2>1, <2>3
<1>5. x.last = 0 /\ x.tail = 0 /\ x.head = 0 /\ x.size = r.size
  BY <1>2
<1> HIDE DEF x
<1>6. Len(RB!Contents(x)) = 0
  <2>1. Len(RB!Contents(x)) = x.tail - x.head
    BY <1>4, <1>5, ContentsLength
  <2>2. QED
    BY <1>5, <2>1
<1>7. RB!Contents(x) = << >>
  <2>1. RB!Contents(x) \in Bytes
    BY <1>4, ContentsAre
  <2>2. QED
    BY <1>6, <2>1 DEF Bytes
<1>8. QED
  BY <1>4, <1>5, <1>7 DEF x, RB!IsEmpty

\* What the caller of reserve() has put into the room it was given.
LEMMA Stuffed ==
    ASSUME NEW r, Sized(r), NEW n \in Nat, NEW data \in Bytes, Len(data) <= n
    PROVE  LET f == RB!Fill(RB!Reserve(r, n), n, data)
               t == f.tail - n + Len(data)
               w == WithTail(f, t, r.size + Len(data))
           IN  /\ f \in RB!Rings /\ f.size = r.size + n /\ n <= f.tail
               /\ f.last = 0 => f.head <= f.tail - n
               /\ r.size = 0 => f.last = 0 /\ f.head = 0 /\ f.tail = n
               /\ w \in RB!Rings
               /\ RB!Contents(w) = RB!Contents(r) \o data
               /\ Solid(r) => Solid(f)
<1> DEFINE u == RB!Reserve(r, n)
<1>1. /\ u \in RB!Rings /\ u.size = r.size + n /\ n <= u.tail
      /\ u.last = 0 => u.head <= u.tail - n
      /\ r.size = 0 => u.last = 0 /\ u.head = 0 /\ u.tail = n
      /\ RB!Contents(WithTail(u, u.tail - n, 0)) = RB!Contents(r)
      /\ Solid(r) => Solid(u)
  BY Reserved
<1> HIDE DEF u
<1> DEFINE f == RB!Fill(u, n, data)
           z == r.size + Len(data)
           w == WithTail(f, u.tail - n + Len(data), z)
<1>2. z \in Nat
  <2>1. r.size \in Nat
    BY RingFields DEF Sized
  <2>2. Len(data) \in Nat
    BY DEF Bytes
  <2>3. QED
    BY <2>1, <2>2
<1> HIDE DEF z
<1>3. /\ f \in RB!Rings
      /\ f.last = u.last /\ f.head = u.head /\ f.tail = u.tail /\ f.size = u.size
      /\ \A i \in 1 .. u.last : f.blocks[i] = u.blocks[i]
      /\ Len(f.blocks[u.last + 1]) = Len(u.blocks[u.last + 1])
      /\ w \in RB!Rings
      /\ RB!Contents(w) = RB!Contents(WithTail(u, u.tail - n, 0)) \o data
  <2>1. PICK y \in Nat : y = 0
    OBVIOUS
  <2>2. u \in RB!Rings /\ n <= u.tail /\ (u.last = 0 => u.head <= u.tail - n)
    BY <1>1
  <2>3. /\ f \in RB!Rings
        /\ f.last = u.last /\ f.head = u.head /\ f.tail = u.tail /\ f.size = u.size
        /\ \A i \in 1 .. u.last : f.blocks[i] = u.blocks[i]
        /\ Len(f.blocks[u.last + 1]) = Len(u.blocks[u.last + 1])
        /\ w \in RB!Rings
        /\ RB!Contents(w) = RB!Contents(WithTail(u, u.tail - n, y)) \o data
    <3>1. /\ f \in RB!Rings
          /\ f.last = u.last /\ f.head = u.head /\ f.tail = u.tail /\ f.size = u.size
      BY <1>2, <2>2, Filled
    <3>2. /\ \A i \in 1 .. u.last : f.blocks[i] = u.blocks[i]
          /\ Len(f.blocks[u.last + 1]) = Len(u.blocks[u.last + 1])
      BY <1>2, <2>2, Filled
    <3>3. w \in RB!Rings
      BY <1>2, <2>2, Filled
    <3>4. RB!Contents(w) = RB!Contents(WithTail(u, u.tail - n, y)) \o data
      BY <1>2, <2>2, Filled
    <3>5. QED
      BY <3>1, <3>2, <3>3, <3>4
  <2>4. QED
    BY <2>1, <2>3
<1> HIDE DEF f
<1>4. Solid(u) => Solid(f)
  <2> SUFFICES ASSUME Solid(u) PROVE Solid(f)
    OBVIOUS
  <2>1. u.last \in Nat
    BY <1>1, RingFields
  <2>2. u.last # 0 => f.blocks[1] = u.blocks[1]
    BY <1>3, <2>1
  <2>3. \A i \in 2 .. u.last : f.blocks[i] = u.blocks[i]
    BY <1>3, <2>1
  <2>4. QED
    BY <1>3, <2>2, <2>3 DEF Solid
<1>5. WithTail(f, f.tail - n + Len(data), r.size + Len(data)) = w
  BY <1>3 DEF z
<1>6. QED
  BY <1>1, <1>3, <1>4, <1>5 DEF u, f

\* putChar() and writeData() add the bytes at the end.
LEMMA Written ==
    ASSUME NEW r, Sized(r), NEW data \in Bytes
    PROVE  /\ Sized(RB!Put(r, data)) /\ (Solid(r) => Solid(RB!Put(r, data)))
           /\ RB!Contents(RB!Put(r, data)) = RB!Contents(r) \o data
<1>1. PICK n \in Nat : n = Len(data)
  BY DEF Bytes
<1> DEFINE f == RB!Fill(RB!Reserve(r, n), n, data)
           t == f.tail - n + Len(data)
           w == WithTail(f, t, r.size + Len(data))
<1>2. /\ f \in RB!Rings /\ f.size = r.size + n /\ n <= f.tail
      /\ f.last = 0 => f.head <= f.tail - n
      /\ r.size = 0 => f.last = 0 /\ f.head = 0 /\ f.tail = n
      /\ w \in RB!Rings
      /\ RB!Contents(w) = RB!Contents(r) \o data
      /\ Solid(r) => Solid(f)
  BY <1>1, Stuffed
<1>3. RB!Put(r, data) = f
  BY <1>1 DEF RB!Put
<1> HIDE DEF f
<1>4. f.tail \in Nat /\ r.size \in Nat /\ r \in RB!Rings
  BY <1>2, RingFields DEF Sized
<1>5. w.blocks = f.blocks /\ w.head = f.head /\ w.tail = f.tail /\ w.last = f.last
  <2>1. t = f.tail
    BY <1>1, <1>4
  <2>2. QED
    BY <2>1 DEF WithTail
<1>6. RB!Contents(f) = RB!Contents(r) \o data
  <2> HIDE DEF w
  <2>1. RB!Contents(f) = RB!Contents(w)
    BY <1>5, ContentsSame
  <2>2. QED
    BY <1>2, <2>1
<1>7. f.size = Len(RB!Contents(f))
  <2>1. RB!Contents(r) \in Bytes /\ r.size = Len(RB!Contents(r))
    BY <1>4, ContentsAre DEF Sized
  <2>2. Len(RB!Contents(r) \o data) = Len(RB!Contents(r)) + Len(data)
    BY <2>1, Join
  <2>3. QED
    BY <1>1, <1>2, <1>6, <2>1, <2>2
<1>8. f.size = 0 => RB!IsEmpty(f)
  <2>1. f.size = 0 => r.size = 0 /\ n = 0
    BY <1>2, <1>4
  <2>2. QED
    BY <1>2, <2>1 DEF RB!IsEmpty
<1>9. Sized(f)
  BY <1>2, <1>7, <1>8 DEF Sized
<1>10. QED
  BY <1>2, <1>3, <1>6, <1>9

\* readFromPort() takes the room it did not fill back.
LEMMA Stored ==
    ASSUME NEW r, Sized(r), NEW n \in Nat, NEW data \in Bytes, Len(data) <= n
    PROVE  LET v == RB!Chop(RB!Fill(RB!Reserve(r, n), n, data), n - Len(data))
           IN  /\ Sized(v) /\ (Solid(r) => Solid(v))
               /\ RB!Contents(v) = RB!Contents(r) \o data
<1>1. PICK d \in Nat : d = Len(data)
  BY DEF Bytes
<1> DEFINE f == RB!Fill(RB!Reserve(r, n), n, data)
<1> DEFINE left == n - d
           t == f.tail - n + d
           z == r.size + d
           w == WithTail(f, t, z)
<1>2. /\ f \in RB!Rings /\ f.size = r.size + n /\ n <= f.tail
      /\ f.last = 0 => f.head <= f.tail - n
      /\ r.size = 0 => f.last = 0 /\ f.head = 0 /\ f.tail = n
      /\ w \in RB!Rings
      /\ RB!Contents(w) = RB!Contents(r) \o data
      /\ Solid(r) => Solid(f)
  BY <1>1, Stuffed
<1> HIDE DEF f
<1>3. f.tail \in Nat /\ f.head \in Nat /\ r.size \in Nat /\ r \in RB!Rings
  BY <1>2, RingFields DEF Sized
<1>4. left \in Nat /\ t \in Nat /\ f.tail - left = t /\ z \in Nat /\ left <= f.tail
      /\ (f.last = 0 => f.head <= t) /\ d <= n
  <2>1. d <= n
    BY <1>1
  <2>2. n <= f.tail /\ (f.last = 0 => f.head <= f.tail - n)
    BY <1>2
  <2>3. PICK a \in Nat, h \in Nat, b \in Nat : a = f.tail /\ h = f.head /\ b = r.size
    BY <1>3
  <2>4. /\ n - d \in Nat /\ a - n + d \in Nat /\ a - (n - d) = a - n + d /\ b + d \in Nat
        /\ n - d <= a /\ (h <= a - n => h <= a - n + d)
    BY <2>1, <2>2, <2>3
  <2>5. QED
    BY <2>1, <2>2, <2>3, <2>4
<1> DEFINE g == [f EXCEPT !.size = RB!Larger(f.size - left, 0)]
           v == RB!ChopLoop(g, left)
<1>5. RB!Larger(f.size - left, 0) = z
  BY <1>2, <1>3, <1>4 DEF RB!Larger
<1>6. RB!Chop(f, n - Len(data)) = v
  BY <1>1 DEF RB!Chop
<1> HIDE DEF left
<1>7. /\ g \in RB!Rings /\ g.size = z
      /\ g.blocks = f.blocks /\ g.head = f.head /\ g.tail = f.tail /\ g.last = f.last
      /\ Solid(f) => Solid(g)
  <2> HIDE DEF z
  <2>1. QED
    BY <1>2, <1>4, <1>5, WithSize
<1>8. w.blocks = f.blocks /\ w.head = f.head /\ w.tail = t /\ w.last = f.last /\ w.size = z
  BY DEF WithTail
<1> HIDE DEF g, w, t, z
<1>9. v = IF g.last = 0 /\ g.tail - left <= g.head
            THEN [g EXCEPT !.tail = 0, !.head = 0] ELSE [g EXCEPT !.tail = @ - left]
  <2>1. PICK e \in RB!Jobs :
           /\ ~(e.ring.last # 0 /\ e.left > e.ring.tail)
           /\ ~(g.last # 0 /\ left > g.tail) => e = RB!Job(g, left)
           /\ \E p \in Bytes : /\ RB!Contents(g) = RB!Contents(e.ring) \o p
                               /\ Len(p) + e.left = left
           /\ RB!ChopLoop(g, left) =
                 IF e.ring.last = 0 /\ e.ring.tail - e.left <= e.ring.head
                   THEN [e.ring EXCEPT !.tail = 0, !.head = 0]
                   ELSE [e.ring EXCEPT !.tail = @ - e.left]
    <3>1. g \in RB!Rings /\ left \in Nat
      BY <1>4, <1>7
    <3>2. QED
      BY <3>1, Chopping
  <2>2. ~(left > g.tail)
    BY <1>3, <1>4, <1>7
  <2>3. e.ring = g /\ e.left = left
    BY <1>4, <1>7, <2>1, <2>2, IsJob
  <2>4. QED
    BY <2>1, <2>3, Zenon
<1> HIDE DEF v
<1>10. /\ RB!Contents(r) \in Bytes /\ Len(RB!Contents(r)) = r.size
       /\ Len(RB!Contents(r) \o data) = z
  <2>1. RB!Contents(r) \in Bytes /\ r.size = Len(RB!Contents(r))
    BY <1>3, ContentsAre DEF Sized
  <2>2. Len(RB!Contents(r) \o data) = Len(RB!Contents(r)) + Len(data)
    BY <2>1, Join
  <2>3. QED
    BY <1>1, <2>1, <2>2 DEF z
<1>11. CASE f.last = 0 /\ t <= f.head
  <2>1. v = [g EXCEPT !.tail = 0, !.head = 0]
    BY <1>4, <1>7, <1>9, <1>11
  <2>2. g.last = 0
    BY <1>7, <1>11
  <2>3. v \in RB!Rings /\ RB!Contents(v) = << >> /\ v.size = z /\ v.last = 0 /\ RB!IsEmpty(v)
    BY <1>7, <2>1, <2>2, Cleared
  <2>4. t = f.head
    BY <1>3, <1>4, <1>11
  <2>5. Len(RB!Contents(w)) = w.tail - w.head
    BY <1>2, <1>8, <1>11, ContentsLength
  <2>6. w.tail - w.head = 0
    BY <1>3, <1>8, <2>4
  <2>7. RB!Contents(w) = << >> /\ z = 0
    <3>1. RB!Contents(w) \in Bytes
      BY <1>2, ContentsAre
    <3>2. Len(RB!Contents(w)) = 0
      BY <2>5, <2>6
    <3>3. QED
      BY <1>2, <1>10, <3>1, <3>2 DEF Bytes
  <2>8. Len(RB!Contents(v)) = 0
    BY <2>3
  <2>9. Sized(v)
    BY <2>3, <2>7, <2>8 DEF Sized
  <2>10. Solid(v)
    BY <2>3 DEF Solid
  <2>11. QED
    BY <1>2, <1>6, <2>3, <2>7, <2>9, <2>10 DEF f
<1>12. CASE ~(f.last = 0 /\ t <= f.head)
  <2>1. v = [g EXCEPT !.tail = t]
    BY <1>4, <1>7, <1>9, <1>12
  <2>2. g \in [blocks : Blocks, head : Nat, tail : Nat, last : Nat, size : Nat]
    BY <1>7 DEF RB!Rings, Blocks, Bytes
  <2>3. /\ v.blocks = f.blocks /\ v.head = f.head /\ v.tail = t /\ v.last = f.last /\ v.size = z
        /\ v = [blocks |-> g.blocks, head |-> g.head, tail |-> t, last |-> g.last, size |-> g.size]
    BY <1>7, <2>1, <2>2
  <2>4. v = w
    BY <1>7, <2>3 DEF w, WithTail
  <2>5. v \in RB!Rings /\ RB!Contents(v) = RB!Contents(r) \o data
    BY <1>2, <2>4
  <2>6. v.size = Len(RB!Contents(v))
    BY <1>10, <2>3, <2>5
  <2>7. z # 0
    <3> SUFFICES ASSUME z = 0 PROVE FALSE
      OBVIOUS
    <3>1. r.size = 0 /\ d = 0
      BY <1>3 DEF z
    <3>2. f.last = 0 /\ f.head = 0 /\ f.tail = n
      BY <1>2, <3>1
    <3>3. t = 0
      BY <3>1, <3>2 DEF t
    <3>4. QED
      BY <1>12, <3>2, <3>3
  <2>8. Sized(v)
    BY <2>3, <2>5, <2>6, <2>7 DEF Sized
  <2>9. Solid(r) => Solid(v)
    BY <1>2, <2>3 DEF Solid
  <2>10. QED
    BY <1>6, <2>5, <2>8, <2>9 DEF f
<1>13. QED
  BY <1>11, <1>12

\* free() leaves a ring, whatever it is asked to free.
LEMMA FreeStays ==
    ASSUME NEW r \in RB!Rings, NEW n \in Nat
    PROVE  RB!Free(r, n) \in RB!Rings
<1> DEFINE z == RB!Larger(r.size - n, 0)
           w == [r EXCEPT !.size = z]
           f == RB!FreeLoop(w, n)
<1>1. z \in Nat
  BY RingFields DEF RB!Larger
<1>2. w \in RB!Rings
  <2> HIDE DEF z
  <2>1. QED
    BY <1>1, WithSize
<1>3. RB!Free(r, n) = IF RB!IsEmpty(f) THEN RB!EmptyRing ELSE f
  BY DEF RB!Free
<1> HIDE DEF w
<1>4. PICK d \in RB!Jobs :
         /\ Solid(w) => Solid(d.ring)
         /\ ~(d.left >= RB!NextDataBlockSize(d.ring) /\ d.ring.last # 0)
         /\ d.ring.size = w.size
         /\ \E p \in Bytes : /\ RB!Contents(w) = p \o RB!Contents(d.ring)
                             /\ Len(p) + d.left = n
         /\ f = IF d.left >= RB!NextDataBlockSize(d.ring)
                  THEN [RB!Resize(d.ring, 1, BlockSize) EXCEPT !.head = 0, !.tail = 0, !.last = 0]
                ELSE IF d.ring.head + d.left = d.ring.tail /\ d.ring.last = 0
                  THEN [d.ring EXCEPT !.head = 0, !.tail = 0]
                ELSE [d.ring EXCEPT !.head = @ + d.left]
  BY <1>2, Freeing
<1> HIDE DEF f
<1> DEFINE g == d.ring
           m == d.left
<1>5. /\ g \in RB!Rings /\ m \in Nat
      /\ g \in [blocks : Blocks, head : Nat, tail : Nat, last : Nat, size : Nat]
  BY JobFields DEF RB!Rings, Blocks, Bytes
<1> HIDE DEF g, m
<1>6. CASE m >= RB!NextDataBlockSize(g)
  <2>1. f = [RB!Resize(g, 1, BlockSize) EXCEPT !.head = 0, !.tail = 0, !.last = 0]
    BY <1>4, <1>6 DEF g, m
  <2>2. f.tail = 0 /\ f.last = 0
    BY <1>5, <2>1 DEF RB!Resize
  <2>3. QED
    BY <1>3, <2>2, NewRing DEF RB!IsEmpty, Sized
<1>7. CASE ~(m >= RB!NextDataBlockSize(g)) /\ g.head + m = g.tail /\ g.last = 0
  <2>1. f = [g EXCEPT !.head = 0, !.tail = 0]
    BY <1>4, <1>7 DEF g, m
  <2>2. f.tail = 0 /\ f.last = 0
    BY <1>5, <1>7, <2>1
  <2>3. QED
    BY <1>3, <2>2, NewRing DEF RB!IsEmpty, Sized
<1>8. CASE ~(m >= RB!NextDataBlockSize(g)) /\ ~(g.head + m = g.tail /\ g.last = 0)
  <2>1. f = [g EXCEPT !.head = @ + m]
    BY <1>4, <1>8 DEF g, m
  <2>2. f = WithHead(g, g.head + m)
    BY <1>5, <2>1 DEF WithHead
  <2>3. RB!NextDataBlockSize(g) \in Nat
    BY <1>5, NextBlock
  <2>4. m <= RB!NextDataBlockSize(g)
    BY <1>5, <1>8, <2>3
  <2>5. WithHead(g, g.head + m) \in RB!Rings
    BY <1>5, <2>4, HeadMoved
  <2>6. QED
    BY <1>3, <2>2, <2>5, NewRing DEF Sized
<1>9. QED
  BY <1>6, <1>7, <1>8

LEMMA FirstNotEmpty ==
    ASSUME NEW r, Sized(r), Solid(r), r.size # 0
    PROVE  RB!NextDataBlockSize(r) >= 1
<1>1. /\ r \in RB!Rings /\ r.head \in Nat /\ r.tail \in Nat
      /\ Len(r.blocks[1]) \in Nat
  BY RingFields DEF Sized
<1>2. CASE r.last = 0
  <2>1. r.head < r.tail
    BY <1>2, SizedFacts
  <2>2. RB!NextDataBlockSize(r) = r.tail - r.head
    BY <1>2 DEF RB!NextDataBlockSize
  <2>3. QED
    BY <1>1, <2>1, <2>2
<1>3. CASE r.last # 0
  <2>1. r.head < Len(r.blocks[1])
    BY <1>3 DEF Solid
  <2>2. RB!NextDataBlockSize(r) = Len(r.blocks[1]) - r.head
    BY <1>3 DEF RB!NextDataBlockSize
  <2>3. QED
    BY <1>1, <2>1, <2>2
<1>4. QED
  BY <1>2, <1>3

\* Taking k bytes of the first block: what is copied is what is freed.
LEMMA FreedPart ==
    ASSUME NEW r, Sized(r), Solid(r), NEW k \in Nat, k <= RB!NextDataBlockSize(r)
    PROVE  LET p == SubSeq(r.blocks[1], r.head + 1, r.head + k)
               f == RB!Free(r, k)
           IN  /\ k <= r.size
               /\ p \in Bytes /\ Len(p) = k
               /\ Sized(f) /\ Solid(f)
               /\ RB!Contents(r) = p \o RB!Contents(f)
<1> DEFINE p == SubSeq(r.blocks[1], r.head + 1, r.head + k)
           w == WithHead(r, r.head + k)
<1>1. r \in RB!Rings /\ r.size = Len(RB!Contents(r))
  BY DEF Sized
<1>2. w \in RB!Rings /\ p \in Bytes /\ Len(p) = k /\ RB!Contents(r) = p \o RB!Contents(w)
  BY <1>1, HeadMoved
<1> HIDE DEF p, w
<1>3. RB!Contents(w) \in Bytes
  BY <1>2, ContentsAre
<1>4. k <= r.size
  <2>1. Len(p \o RB!Contents(w)) = Len(p) + Len(RB!Contents(w))
    BY <1>2, <1>3, Join
  <2>2. PICK x \in Nat : x = Len(RB!Contents(w))
    BY <1>3 DEF Bytes
  <2>3. r.size = k + x
    BY <1>1, <1>2, <2>1, <2>2
  <2>4. QED
    BY <2>3
<1>5. /\ Sized(RB!Free(r, k)) /\ Solid(RB!Free(r, k))
      /\ \E q \in Bytes : RB!Contents(r) = q \o RB!Contents(RB!Free(r, k)) /\ Len(q) = k
  BY <1>4, Freed
<1>6. PICK q \in Bytes : RB!Contents(r) = q \o RB!Contents(RB!Free(r, k)) /\ Len(q) = k
  BY <1>5
<1>7. RB!Contents(RB!Free(r, k)) \in Bytes
  BY <1>5, ContentsAre DEF Sized
<1>8. p = q
  BY <1>2, <1>3, <1>6, <1>7, Cancel
<1>9. QED
  BY <1>2, <1>4, <1>5, <1>6, <1>8 DEF p

LEMMA ReadingFields ==
    ASSUME NEW s \in RB!Readings
    PROVE  /\ s.data \in Bytes /\ Len(s.data) \in Nat /\ s.ring \in RB!Rings
           /\ RB!NextDataBlockSize(s.ring) \in Nat
<1>1. s.data \in Bytes /\ s.ring \in RB!Rings
  BY DEF RB!Readings, Bytes
<1>2. Len(s.data) \in Nat
  BY <1>1 DEF Bytes
<1>3. QED
  BY <1>1, <1>2, NextBlock

\* How much a turn of the loop of read() takes.
Portion(s, n) == RB!Smaller(n - Len(s.data), RB!NextDataBlockSize(s.ring))

LEMMA ReadTurn ==
    ASSUME NEW n \in Nat, NEW s \in RB!Readings, Len(s.data) < n
    PROVE  LET k == Portion(s, n)
               p == SubSeq(s.ring.blocks[1], s.ring.head + 1, s.ring.head + k)
           IN  /\ k \in Nat /\ k <= RB!NextDataBlockSize(s.ring) /\ k <= n - Len(s.data)
               /\ k = n - Len(s.data) \/ k = RB!NextDataBlockSize(s.ring)
               /\ p \in Bytes /\ Len(p) = k
               /\ RB!ReadSome(s, n) \in RB!Readings
               /\ RB!ReadSome(s, n).data = s.data \o p
               /\ RB!ReadSome(s, n).ring = RB!Free(s.ring, k)
<1> DEFINE k == Portion(s, n)
           p == SubSeq(s.ring.blocks[1], s.ring.head + 1, s.ring.head + k)
<1>1. /\ s.data \in Bytes /\ Len(s.data) \in Nat /\ s.ring \in RB!Rings
      /\ RB!NextDataBlockSize(s.ring) \in Nat
  BY ReadingFields
<1>2. /\ k \in Nat /\ k <= RB!NextDataBlockSize(s.ring) /\ k <= n - Len(s.data)
      /\ k = n - Len(s.data) \/ k = RB!NextDataBlockSize(s.ring)
  BY <1>1 DEF RB!Smaller, Portion
<1>3. RB!ReadSome(s, n) = [data |-> s.data \o p, ring |-> RB!Free(s.ring, k)]
  BY DEF RB!ReadSome, Portion
<1> HIDE DEF k
<1>4. p \in Bytes /\ Len(p) = k
  BY <1>1, <1>2, HeadMoved
<1> HIDE DEF p
<1>5. s.data \o p \in Bytes
  BY <1>1, <1>4, Join
<1>6. RB!Free(s.ring, k) \in RB!Rings
  BY <1>1, <1>2, FreeStays
<1>7. RB!ReadSome(s, n) \in RB!Readings
  BY <1>3, <1>5, <1>6 DEF RB!Readings, Bytes
<1>8. RB!ReadSome(s, n).data = s.data \o p /\ RB!ReadSome(s, n).ring = RB!Free(s.ring, k)
  BY <1>3
<1>9. QED
  BY <1>2, <1>4, <1>7, <1>8, Zenon DEF k, p

\* The loop of read() takes the first n bytes out of the ring.
LEMMA Looped ==
    ASSUME NEW r, Sized(r), Solid(r), NEW n \in Nat, n <= r.size
    PROVE  LET x == RB!ReadLoop(r, n)
           IN  /\ x.data \in Bytes /\ Len(x.data) = n
               /\ Sized(x.ring) /\ Solid(x.ring)
               /\ RB!Contents(r) = x.data \o RB!Contents(x.ring)
<1> DEFINE S == RB!Readings
           M == {s \in S : Len(s.data) < n}
           t == [s \in M |-> RB!ReadSome(s, n)]
           Loop(f) == f = [s \in S |-> IF Len(s.data) < n THEN f[RB!ReadSome(s, n)] ELSE s]
           loop == CHOOSE f : Loop(f)
           c == RB!Contents(r)
           I == {s \in S : /\ Sized(s.ring) /\ Solid(s.ring) /\ Len(s.data) <= n
                           /\ c = s.data \o RB!Contents(s.ring)}
           ToGo(s) == IF Len(s.data) <= n THEN n - Len(s.data) ELSE 0
           measure == [s \in S |-> ToGo(s)]
<1>1. ASSUME NEW s \in M PROVE s \in S /\ Len(s.data) < n /\ t[s] = RB!ReadSome(s, n) /\ t[s] \in S
  BY ReadTurn
<1>2. t \in [M -> S]
  BY <1>1
<1>3. \A f : Loop(f) <=> Loops(S, M, t, f)
  BY Zenon DEF Loops
<1>4. Loop(loop)
  <2>1. M \in SUBSET S
    OBVIOUS
  <2> HIDE DEF M, t, S, Loop
  <2>2. \E f : Loops(S, M, t, f)
    BY <1>2, <2>1, LoopExists, Zenon
  <2>3. \E f : Loop(f)
    BY <1>3, <2>2
  <2>4. QED
    BY <2>3, Zenon
<1>5. c \in Bytes /\ r.size = Len(c) /\ r \in RB!Rings
  BY ContentsAre DEF Sized
<1> HIDE DEF c
<1>6. ASSUME NEW s \in I \cap M PROVE t[s] \in I /\ measure[t[s]] < measure[s]
  <2> DEFINE k == Portion(s, n)
             p == SubSeq(s.ring.blocks[1], s.ring.head + 1, s.ring.head + k)
             g == RB!Free(s.ring, k)
  <2>1. /\ s \in S /\ Len(s.data) < n /\ Sized(s.ring) /\ Solid(s.ring)
        /\ c = s.data \o RB!Contents(s.ring)
        /\ s.data \in Bytes /\ s.ring \in RB!Rings
        /\ t[s] = RB!ReadSome(s, n) /\ t[s] \in S
    BY <1>1, ReadingFields
  <2>2. /\ k \in Nat /\ k <= RB!NextDataBlockSize(s.ring) /\ k <= n - Len(s.data)
        /\ k = n - Len(s.data) \/ k = RB!NextDataBlockSize(s.ring)
        /\ p \in Bytes /\ Len(p) = k
        /\ RB!ReadSome(s, n).data = s.data \o p
        /\ RB!ReadSome(s, n).ring = g
    BY <2>1, ReadTurn
  <2> HIDE DEF k
  <2>3. Sized(g) /\ Solid(g) /\ RB!Contents(s.ring) = p \o RB!Contents(g)
    BY <2>1, <2>2, FreedPart
  <2> HIDE DEF p, g
  <2>4. RB!Contents(g) \in Bytes /\ RB!Contents(s.ring) \in Bytes
    BY <2>1, <2>3, ContentsAre DEF Sized
  <2> DEFINE u == t[s]
  <2>5. u.data = s.data \o p /\ u.ring = g /\ u \in S
    BY <2>1, <2>2
  <2> HIDE DEF u, t, S
  <2>6. c = u.data \o RB!Contents(u.ring)
    <3>1. (s.data \o p) \o RB!Contents(g) = s.data \o (p \o RB!Contents(g))
      BY <2>1, <2>2, <2>4, Joins
    <3>2. QED
      BY <2>1, <2>3, <2>5, <3>1, Zenon
  <2>7. PICK a \in Nat : a = Len(s.data)
    BY <2>1 DEF Bytes
  <2>8. Len(u.data) = a + k
    BY <2>1, <2>2, <2>5, <2>7, Join
  <2>9. a < n /\ a + k <= n
    BY <2>1, <2>2, <2>7
  <2>10. u \in I
    BY <2>3, <2>5, <2>6, <2>8, <2>9
  <2>11. k >= 1
    <3>1. n - a >= 1
      BY <2>9
    <3>2. s.ring.size # 0
      <4>1. PICK b \in Nat : b = Len(RB!Contents(s.ring))
        BY <2>4 DEF Bytes
      <4>2. Len(c) = a + b
        BY <2>1, <2>4, <2>7, <4>1, Join
      <4>3. a + b >= n
        BY <1>5, <4>2
      <4>4. b # 0
        BY <2>9, <4>3
      <4>5. QED
        BY <2>1, <4>1, <4>4 DEF Sized
    <3>3. RB!NextDataBlockSize(s.ring) >= 1
      BY <2>1, <3>2, FirstNotEmpty
    <3>4. QED
      BY <2>2, <2>7, <3>1, <3>3
  <2>12. ToGo(u) = n - (a + k) /\ ToGo(s) = n - a
    BY <2>7, <2>8, <2>9
  <2>13. measure[u] = ToGo(u) /\ measure[s] = ToGo(s)
    BY <2>1, <2>5
  <2>14. n - (a + k) < n - a
    BY <2>2, <2>11
  <2> HIDE DEF measure, ToGo, I
  <2>15. QED
    BY <2>10, <2>12, <2>13, <2>14 DEF u
<1>7. measure \in [S -> Nat]
  <2>1. \A s \in S : ToGo(s) \in Nat
    BY ReadingFields
  <2> HIDE DEF ToGo
  <2>2. QED
    BY <2>1
<1> DEFINE start == [data |-> << >>, ring |-> r]
           x == loop[start]
<1>8. start \in I
  <2>1. << >> \in Bytes /\ Len(<< >>) = 0 /\ << >> \o c = c
    BY <1>5, Join
  <2>2. start \in S
    BY <1>5, <2>1 DEF RB!Readings, Bytes
  <2>3. start.data = << >> /\ start.ring = r
    OBVIOUS
  <2> HIDE DEF start, S
  <2>4. Len(start.data) <= n /\ c = start.data \o RB!Contents(start.ring)
    BY <2>1, <2>3 DEF c
  <2>5. QED
    BY <2>2, <2>3, <2>4
<1>9. x \in I \ M
  <2>1. Loops(S, M, t, loop)
    BY <1>3, <1>4
  <2>2. M \in SUBSET S /\ I \in SUBSET S
    OBVIOUS
  <2>3. /\ \A s \in I \cap M : t[s] \in I
        /\ \A s \in I \cap M : measure[t[s]] < measure[s]
    BY <1>6
  <2> HIDE DEF loop, M, t, S, I, measure, start
  <2>4. QED
    BY <1>2, <1>7, <1>8, <2>1, <2>2, <2>3, LoopEnds
<1>10. RB!ReadLoop(r, n) = x
  BY Zenon DEF RB!ReadLoop, RB!While
<1> HIDE DEF loop, start
<1>11. /\ x \in S /\ ~(Len(x.data) < n) /\ Len(x.data) <= n /\ Sized(x.ring) /\ Solid(x.ring)
       /\ c = x.data \o RB!Contents(x.ring)
  BY <1>9
<1>12. x.data \in Bytes /\ Len(x.data) = n
  <2>1. x.data \in Bytes /\ Len(x.data) \in Nat
    BY <1>11, ReadingFields
  <2>2. QED
    BY <1>11, <2>1
<1>13. QED
  BY <1>10, <1>11, <1>12 DEF c

-----------------------------------------------------------------------------
(* Taking from the end, from the first block, and putting back.            *)

\* chop() takes the last m bytes out of the ring.
LEMMA Chopped ==
    ASSUME NEW r, Sized(r), NEW m \in Nat, m <= r.size
    PROVE  /\ RB!Contents(RB!Chop(r, m)) \in Bytes
           /\ \E q \in Bytes : /\ RB!Contents(r) = RB!Contents(RB!Chop(r, m)) \o q
                               /\ Len(q) = m
<1> DEFINE z == RB!Larger(r.size - m, 0)
           w == [r EXCEPT !.size = z]
           c == RB!Contents(r)
           v == RB!ChopLoop(w, m)
<1>1. r \in RB!Rings /\ r.size \in Nat /\ r.size = Len(c) /\ c \in Bytes
  BY RingFields, ContentsAre DEF Sized
<1>2. z \in Nat
  BY <1>1 DEF RB!Larger
<1>3. w \in RB!Rings /\ RB!Contents(w) = c
  <2> HIDE DEF z
  <2>1. QED
    BY <1>1, <1>2, WithSize
<1>4. RB!Chop(r, m) = v
  BY DEF RB!Chop
<1> HIDE DEF c, w, z
<1>5. PICK d \in RB!Jobs :
         /\ ~(d.ring.last # 0 /\ d.left > d.ring.tail)
         /\ ~(w.last # 0 /\ m > w.tail) => d = RB!Job(w, m)
         /\ \E p \in Bytes : /\ RB!Contents(w) = RB!Contents(d.ring) \o p
                             /\ Len(p) + d.left = m
         /\ RB!ChopLoop(w, m) =
               IF d.ring.last = 0 /\ d.ring.tail - d.left <= d.ring.head
                 THEN [d.ring EXCEPT !.tail = 0, !.head = 0]
                 ELSE [d.ring EXCEPT !.tail = @ - d.left]
  BY <1>3, Chopping
<1>6. PICK p \in Bytes : c = RB!Contents(d.ring) \o p /\ Len(p) + d.left = m
  BY <1>3, <1>5
<1> HIDE DEF v
<1> DEFINE g == d.ring
           l == d.left
           e == RB!Contents(g)
<1>7. /\ g \in RB!Rings /\ l \in Nat /\ e \in Bytes
      /\ g \in [blocks : Blocks, head : Nat, tail : Nat, last : Nat, size : Nat]
      /\ g.head \in Nat /\ g.tail \in Nat /\ g.size \in Nat
      /\ g.last = 0 => g.head <= g.tail
  BY JobFields, RingFields, ContentsAre DEF RB!Rings, Blocks, Bytes
<1>8. v = IF g.last = 0 /\ g.tail - l <= g.head
            THEN [g EXCEPT !.tail = 0, !.head = 0] ELSE [g EXCEPT !.tail = @ - l]
  BY <1>5 DEF v
<1>9. ~(g.last # 0 /\ l > g.tail) /\ c = e \o p /\ Len(p) + l = m
  BY <1>5, <1>6
<1> HIDE DEF g, l
<1>10. PICK a \in Nat, b \in Nat : a = Len(p) /\ b = Len(e)
  BY <1>7 DEF Bytes
<1>11. a + l = m /\ l <= b
  <2>1. Len(c) = b + a
    BY <1>7, <1>9, <1>10, Join
  <2>2. a + l = m
    BY <1>9, <1>10
  <2>3. QED
    BY <1>1, <1>7, <2>1, <2>2
<1>12. \E q \in Bytes : e = RB!Contents(v) \o q /\ Len(q) = l /\ RB!Contents(v) \in Bytes
  <2>1. CASE g.last = 0 /\ g.tail - l <= g.head
    <3>1. v = [g EXCEPT !.tail = 0, !.head = 0]
      BY <1>8, <2>1
    <3>2. RB!Contents(v) = << >>
      BY <1>7, <2>1, <3>1, Cleared
    <3>3. << >> \in Bytes /\ << >> \o e = e
      BY <1>7, Join
    <3>4. Len(e) = g.tail - g.head
      BY <1>7, <2>1, ContentsLength
    <3>5. b = l
      BY <1>7, <1>10, <1>11, <2>1, <3>4
    <3> HIDE DEF e
    <3>6. QED
      BY <1>7, <1>10, <3>2, <3>3, <3>5
  <2>2. CASE ~(g.last = 0 /\ g.tail - l <= g.head)
    <3> DEFINE t == g.tail - l
    <3>1. v = [g EXCEPT !.tail = t]
      BY <1>8, <2>2
    <3>2. v = WithTail(g, t, g.size)
      BY <1>7, <3>1 DEF WithTail
    <3>3. t \in Nat /\ t <= g.tail /\ (g.last = 0 => g.head <= t) /\ g.tail - t = l
      BY <1>7, <1>9, <2>2
    <3> HIDE DEF t
    <3> DEFINE q == SubSeq(g.blocks[g.last + 1], t + 1, g.tail)
    <3>4. /\ WithTail(g, t, g.size) \in RB!Rings /\ q \in Bytes /\ Len(q) = g.tail - t
          /\ e = RB!Contents(WithTail(g, t, g.size)) \o q
      BY <1>7, <3>3, TailCut
    <3> HIDE DEF q, e
    <3>5. RB!Contents(v) \in Bytes
      BY <3>2, <3>4, ContentsAre
    <3>6. QED
      BY <3>2, <3>3, <3>4, <3>5
  <2>3. QED
    BY <2>1, <2>2
<1>13. PICK q \in Bytes : e = RB!Contents(v) \o q /\ Len(q) = l /\ RB!Contents(v) \in Bytes
  BY <1>12
<1> HIDE DEF e
<1>14. c = RB!Contents(v) \o (q \o p)
  <2>1. (RB!Contents(v) \o q) \o p = RB!Contents(v) \o (q \o p)
    BY <1>13, Joins
  <2>2. QED
    BY <1>9, <1>13, <2>1, Zenon
<1>15. q \o p \in Bytes /\ Len(q \o p) = m
  <2>1. q \o p \in Bytes /\ Len(q \o p) = Len(q) + Len(p)
    BY Join
  <2>2. QED
    BY <1>7, <1>10, <1>11, <1>13, <2>1
<1>16. QED
  BY <1>4, <1>13, <1>14, <1>15 DEF c

\* A read of no given amount takes the first block.
LEMMA BlockRead ==
    ASSUME NEW r, Sized(r), Solid(r)
    PROVE  LET x == RB!ReadBlock(r)
           IN  /\ x.data \in Bytes /\ Sized(x.ring)
               /\ RB!Contents(r) = x.data \o RB!Contents(x.ring)
<1> DEFINE x == RB!ReadBlock(r)
           c == RB!Contents(r)
           p == FirstPart(r)
<1>1. /\ r \in RB!Rings /\ r.size \in Nat /\ r.size = Len(c) /\ c \in Bytes
      /\ r \in [blocks : Blocks, head : Nat, tail : Nat, last : Nat, size : Nat]
  BY RingFields, ContentsAre DEF Sized, RB!Rings, Blocks, Bytes
<1>2. p \in Bytes /\ Len(p) = RB!NextDataBlockSize(r) /\ Len(p) \in Nat
  BY <1>1, NextBlock
<1>3. CASE r.size = 0
  <2>1. x = [data |-> << >>, ring |-> r]
    BY <1>3 DEF RB!ReadBlock
  <2>2. << >> \in Bytes /\ << >> \o c = c
    BY <1>1, Join
  <2>3. x.data = << >> /\ x.ring = r
    BY <2>1
  <2> HIDE DEF x
  <2>4. RB!Contents(r) = x.data \o RB!Contents(x.ring)
    BY <2>2, <2>3
  <2>5. QED
    BY <2>2, <2>3, <2>4 DEF x
<1>4. CASE r.size # 0 /\ r.last = 0
  <2> DEFINE g == [[r EXCEPT !.blocks = Tail(@), !.head = 0, !.size = @ - Len(p)]
                      EXCEPT !.blocks = << << >> >>, !.tail = 0]
  <2>1. x = [data |-> p, ring |-> g]
    BY <1>4 DEF RB!ReadBlock, FirstPart
  <2>2. c = p
    BY <1>1, <1>4, NextBlock
  <2>3. r.size - Len(p) = 0
    BY <1>1, <2>2
  <2>4. g = RB!EmptyRing
    <3> DEFINE y == [blocks |-> << << >> >>, head |-> 0, tail |-> 0, last |-> 0, size |-> 0]
    <3>1. /\ g.blocks = y.blocks /\ g.head = y.head /\ g.tail = y.tail /\ g.last = y.last
          /\ g.size = y.size
      BY <1>1, <1>4, <2>3
    <3>2. g = [k \in {"blocks", "head", "tail", "last", "size"} |-> g[k]]
      BY <1>1
    <3> HIDE DEF g
    <3>3. g = y
      BY <3>1, <3>2
    <3>4. QED
      BY <3>3 DEF RB!EmptyRing
  <2>5. p \o << >> = p
    BY <1>2, Join
  <2> HIDE DEF g, p
  <2>6. x.data = p /\ x.ring = RB!EmptyRing
    BY <2>1, <2>4
  <2> HIDE DEF x
  <2>7. RB!Contents(r) = x.data \o RB!Contents(x.ring)
    BY <2>2, <2>5, <2>6, NewRing
  <2>8. QED
    BY <1>2, <2>6, <2>7, NewRing DEF x
<1>5. CASE r.size # 0 /\ r.last # 0
  <2> DEFINE w == WithoutFirst(r)
             z == r.size - Len(p)
             g == [[r EXCEPT !.blocks = Tail(@), !.head = 0, !.size = @ - Len(p)]
                      EXCEPT !.last = @ - 1]
  <2>1. x = [data |-> p, ring |-> g]
    BY <1>5 DEF RB!ReadBlock, FirstPart
  <2>2. w \in RB!Rings /\ c = p \o RB!Contents(w)
    BY <1>1, <1>5, NextBlock, FirstBlock
  <2>3. RB!Contents(w) \in Bytes
    BY <2>2, ContentsAre
  <2>4. z = Len(RB!Contents(w)) /\ z \in Nat
    <3>1. PICK a \in Nat, b \in Nat : a = Len(p) /\ b = Len(RB!Contents(w))
      BY <1>2, <2>3 DEF Bytes
    <3>2. Len(c) = a + b
      BY <1>2, <2>2, <2>3, <3>1, Join
    <3>3. z = b
      BY <1>1, <3>1, <3>2
    <3>4. QED
      BY <3>1, <3>3
  <2>5. g = [w EXCEPT !.size = z]
    <3> DEFINE y == [blocks |-> Tail(r.blocks), head |-> 0, tail |-> r.tail,
                     last |-> r.last - 1, size |-> z]
    <3>1. /\ g.blocks = y.blocks /\ g.head = y.head /\ g.tail = y.tail /\ g.last = y.last
          /\ g.size = y.size
      BY <1>1
    <3>2. g = [k \in {"blocks", "head", "tail", "last", "size"} |-> g[k]]
      BY <1>1
    <3> DEFINE v == [w EXCEPT !.size = z]
    <3>3. /\ v.blocks = y.blocks /\ v.head = y.head /\ v.tail = y.tail /\ v.last = y.last
          /\ v.size = y.size
          /\ v = [k \in {"blocks", "head", "tail", "last", "size"} |-> v[k]]
      BY DEF WithoutFirst
    <3> HIDE DEF g, v
    <3>4. g = y
      BY <3>1, <3>2
    <3>5. v = y
      BY <3>3
    <3>6. QED
      BY <3>4, <3>5 DEF v
  <2>6. Solid(w)
    BY <1>1, <1>5, SolidWithoutFirst
  <2> HIDE DEF g, w, z, p
  <2>7. /\ g \in RB!Rings /\ RB!Contents(g) = RB!Contents(w) /\ g.size = z /\ Solid(g)
    BY <2>2, <2>4, <2>5, <2>6, WithSize
  <2>8. g.size = 0 => RB!IsEmpty(g)
    <3> SUFFICES ASSUME g.size = 0 PROVE g.last = 0 /\ g.tail = 0
      BY DEF RB!IsEmpty
    <3>1. Len(RB!Contents(g)) = 0
      BY <2>4, <2>7
    <3>2. CASE g.last = 0
      <4>1. Len(RB!Contents(g)) = g.tail - g.head
        BY <2>7, <3>2, ContentsLength
      <4>2. g.head = 0 /\ g.tail \in Nat
        <5>1. w \in [blocks : Blocks, head : Nat, tail : Nat, last : Nat, size : Nat]
          BY <2>2 DEF RB!Rings, Blocks, Bytes
        <5>2. w.head = 0
          BY DEF w, WithoutFirst
        <5>3. QED
          BY <2>5, <2>7, <5>1, <5>2, RingFields
      <4>3. QED
        BY <3>1, <3>2, <4>1, <4>2
    <3>3. CASE g.last # 0
      <4>1. g.head < Len(g.blocks[1]) /\ g.head \in Nat /\ Len(g.blocks[1]) \in Nat
        BY <2>7, <3>3, RingFields DEF Solid
      <4>2. /\ RB!NextDataBlockSize(g) = Len(g.blocks[1]) - g.head
            /\ RB!Contents(g) = FirstPart(g) \o RB!Contents(WithoutFirst(g))
            /\ FirstPart(g) \in Bytes /\ Len(FirstPart(g)) = RB!NextDataBlockSize(g)
        BY <2>7, <3>3, NextBlock
      <4>3. RB!Contents(WithoutFirst(g)) \in Bytes
        BY <2>7, <3>3, FirstBlock, ContentsAre
      <4>4. PICK a \in Nat, b \in Nat :
               a = Len(FirstPart(g)) /\ b = Len(RB!Contents(WithoutFirst(g)))
        BY <4>2, <4>3 DEF Bytes
      <4>5. a > 0
        BY <4>1, <4>2, <4>4
      <4>6. Len(RB!Contents(g)) = a + b
        BY <4>2, <4>3, <4>4, Join
      <4>7. QED
        BY <3>1, <4>5, <4>6
    <3>4. QED
      BY <3>2, <3>3
  <2>9. Sized(g)
    BY <2>4, <2>7, <2>8 DEF Sized
  <2>10. QED
    BY <1>2, <2>1, <2>2, <2>7, <2>9
<1>6. QED
  BY <1>3, <1>4, <1>5

\* Two rings that differ only in what their first block has before the head.
LEMMA SameLive ==
    ASSUME NEW r \in RB!Rings, NEW s \in RB!Rings,
           r.last = s.last, r.head = s.head, r.tail = s.tail,
           \A i \in 2 .. r.last + 1 : r.blocks[i] = s.blocks[i],
           Len(r.blocks[1]) = Len(s.blocks[1]),
           \A j \in r.head + 1 .. Len(r.blocks[1]) : r.blocks[1][j] = s.blocks[1][j]
    PROVE  RB!Contents(r) = RB!Contents(s)
<1>1. PICK n \in Nat : n = r.last + 1
  BY RingFields
<1>2. /\ RB!Parts(r) \in Blocks /\ Len(RB!Parts(r)) = n
      /\ \A i \in 1 .. n : RB!Parts(r)[i] = PartOf(r, i)
  <2>1. Len(r.blocks) = n
    BY <1>1, RingFields
  <2>2. QED
    BY <2>1, PartsAre
<1>3. /\ RB!Parts(s) \in Blocks /\ Len(RB!Parts(s)) = n
      /\ \A i \in 1 .. n : RB!Parts(s)[i] = PartOf(s, i)
  <2>1. Len(s.blocks) = n
    BY <1>1, RingFields
  <2>2. QED
    BY <2>1, PartsAre
<1>4. ASSUME NEW i \in 1 .. n PROVE PartOf(r, i) = PartOf(s, i)
  <2>1. CASE i # 1
    <3>1. r.blocks[i] = s.blocks[i]
      BY <1>1, <2>1
    <3>2. QED
      BY <2>1, <3>1 DEF PartOf
  <2>2. CASE i = 1
    <3> DEFINE b == r.blocks[1]
               d == s.blocks[1]
    <3>1. PICK h \in Nat : h = r.head
      BY RingFields
    <3>2. /\ b \in Bytes /\ d \in Bytes /\ Len(b) \in Nat /\ h <= Len(b)
          /\ r.last = 0 => h <= r.tail
          /\ r.tail \in Nat
      BY <3>1, RingFields
    <3>3. PICK end \in Nat : end = IF 1 = r.last + 1 THEN r.tail ELSE Len(b)
      BY <3>2
    <3>4. h <= end /\ end <= Len(b) /\ end <= Len(d)
      <4>1. CASE 1 = r.last + 1
        <5>1. r.tail <= Len(b)
          BY <4>1, RingFields, Zenon
        <5>2. r.last = 0
          BY <4>1, RingFields
        <5>3. QED
          BY <3>2, <3>3, <4>1, <5>1, <5>2
      <4>2. CASE ~(1 = r.last + 1)
        BY <3>2, <3>3, <4>2
      <4>3. QED
        BY <4>1, <4>2
    <3>5. \A j \in h + 1 .. Len(b) : b[j] = d[j]
      BY <3>1
    <3>6. PartOf(r, i) = SubSeq(b, h + 1, end) /\ PartOf(s, i) = SubSeq(d, h + 1, end)
      <4>1. 1 + h = h + 1
        OBVIOUS
      <4>2. PartOf(r, i) = SubSeq(b, 1 + h, end)
        BY <2>2, <3>1, <3>3 DEF PartOf
      <4>3. PartOf(s, i) = SubSeq(d, 1 + h, end)
        BY <2>2, <3>1, <3>3 DEF PartOf
      <4>4. QED
        BY <4>1, <4>2, <4>3
    <3> HIDE DEF b, d
    <3>7. /\ SubSeq(b, h + 1, end) \in Bytes /\ Len(SubSeq(b, h + 1, end)) = end - h
          /\ \A j \in 1 .. end - h : SubSeq(b, h + 1, end)[j] = b[h + j]
      BY <3>2, <3>4, Slice
    <3>8. /\ SubSeq(d, h + 1, end) \in Bytes /\ Len(SubSeq(d, h + 1, end)) = end - h
          /\ \A j \in 1 .. end - h : SubSeq(d, h + 1, end)[j] = d[h + j]
      BY <3>2, <3>4, Slice
    <3>9. \A j \in 1 .. end - h : h + j \in h + 1 .. Len(b)
      BY <3>2, <3>4
    <3>10. \A j \in 1 .. end - h : SubSeq(b, h + 1, end)[j] = SubSeq(d, h + 1, end)[j]
      BY <3>5, <3>7, <3>8, <3>9
    <3>11. SubSeq(b, h + 1, end) = SubSeq(d, h + 1, end)
      <4> DEFINE x == SubSeq(b, h + 1, end)
                 y == SubSeq(d, h + 1, end)
      <4>1. x \in Bytes /\ y \in Bytes /\ Len(x) = end - h /\ Len(y) = end - h
        BY <3>7, <3>8
      <4>2. \A j \in 1 .. end - h : x[j] = y[j]
        BY <3>10
      <4> HIDE DEF x, y
      <4>3. x = y
        BY <4>1, <4>2, SeqEqual DEF Bytes
      <4>4. QED
        BY <4>3 DEF x, y
    <3>12. QED
      BY <3>6, <3>11
  <2>3. QED
    BY <2>1, <2>2
<1>5. RB!Parts(r) = RB!Parts(s)
  <2>1. \A i \in 1 .. n : RB!Parts(r)[i] = RB!Parts(s)[i]
    BY <1>2, <1>3, <1>4
  <2>2. QED
    BY <1>2, <1>3, <2>1, SeqEqual DEF Blocks
<1>6. QED
  BY <1>5, ContentsAre

\* ungetChar() puts a byte in front.
LEMMA Ungot ==
    ASSUME NEW r, Sized(r), NEW c \in Nat
    PROVE  /\ Sized(RB!UngetChar(r, c))
           /\ RB!UngetChar(r, c).size # 0
           /\ RB!Contents(RB!UngetChar(r, c)) = << c >> \o RB!Contents(r)
<1> DEFINE x == RB!UngetChar(r, c)
<1>1. /\ r \in RB!Rings /\ r.size = Len(RB!Contents(r)) /\ RB!Contents(r) \in Bytes
      /\ r \in [blocks : Blocks, head : Nat, tail : Nat, last : Nat, size : Nat]
      /\ r.blocks \in Blocks /\ r.head \in Nat /\ r.tail \in Nat /\ r.last \in Nat /\ r.size \in Nat
      /\ Len(r.blocks) = r.last + 1 /\ r.blocks[1] \in Bytes /\ Len(r.blocks[1]) \in Nat
      /\ r.head <= Len(r.blocks[1]) /\ (r.last = 0 => r.head <= r.tail)
      /\ r.tail <= Len(r.blocks[r.last + 1])
  BY RingFields, ContentsAre DEF Sized, RB!Rings, Blocks, Bytes
<1>2. << c >> \in Bytes /\ Len(<< c >>) = 1
  BY DEF Bytes
<1>3. SUFFICES /\ x \in RB!Rings /\ x.size = r.size + 1
               /\ RB!Contents(x) = << c >> \o RB!Contents(r)
  <2> HIDE DEF x
  <2>1. Len(<< c >> \o RB!Contents(r)) = Len(<< c >>) + Len(RB!Contents(r))
    BY <1>1, <1>2, Join
  <2>2. x.size = Len(RB!Contents(x)) /\ x.size # 0
    BY <1>1, <1>2, <1>3, <2>1
  <2>3. QED
    BY <1>3, <2>2 DEF Sized, x
<1>4. CASE r.head > 0
  <2> DEFINE h == r.head - 1
             b == [r.blocks[1] EXCEPT ![h + 1] = c]
             B == [r.blocks EXCEPT ![1] = b]
             y == [blocks |-> B, head |-> h, tail |-> r.tail, last |-> r.last,
                   size |-> r.size + 1]
  <2>1. h \in Nat /\ h + 1 = r.head /\ h + 1 \in 1 .. Len(r.blocks[1])
    BY <1>1, <1>4
  <2>2. x = y
    <3>1. x = [[r EXCEPT !.head = @ - 1] EXCEPT !.blocks[1][h + 1] = c, !.size = @ + 1]
      BY <1>1, <1>4 DEF RB!UngetChar
    <3>2. /\ x.blocks = y.blocks /\ x.head = y.head /\ x.tail = y.tail /\ x.last = y.last
          /\ x.size = y.size
      BY <1>1, <3>1
    <3>3. x = [k \in {"blocks", "head", "tail", "last", "size"} |-> x[k]]
      BY <1>1, <3>1
    <3> HIDE DEF x
    <3>4. QED
      BY <3>2, <3>3
  <2> HIDE DEF h
  <2>3. /\ b \in Bytes /\ Len(b) = Len(r.blocks[1]) /\ b[h + 1] = c
        /\ \A j \in 1 .. Len(b) : j # h + 1 => b[j] = r.blocks[1][j]
    BY <1>1, <2>1 DEF Bytes
  <2> HIDE DEF b
  <2>4. /\ B \in Blocks /\ Len(B) = r.last + 1 /\ B[1] = b
        /\ \A i \in 2 .. r.last + 1 : B[i] = r.blocks[i]
    BY <1>1, <2>3 DEF Blocks
  <2> HIDE DEF B
  <2>5. Len(B[r.last + 1]) = Len(r.blocks[r.last + 1])
    <3>1. CASE r.last = 0
      <4>1. r.last + 1 = 1
        BY <3>1
      <4>2. QED
        BY <2>3, <2>4, <4>1, Zenon
    <3>2. CASE r.last # 0
      <4>1. r.last + 1 \in 2 .. r.last + 1
        BY <1>1, <3>2
      <4>2. QED
        BY <2>4, <4>1
    <3>3. QED
      BY <3>1, <3>2
  <2>6. y \in RB!Rings
    <3>1. h <= Len(B[1]) /\ r.tail <= Len(B[r.last + 1]) /\ r.size + 1 \in Nat
      BY <1>1, <2>1, <2>3, <2>4, <2>5, SMTT(30)
    <3>2. r.last = 0 => h <= r.tail
      BY <1>1, <2>1
    <3>3. QED
      BY <1>1, <2>1, <2>4, <3>1, <3>2, IsRing
  <2>7. y.blocks = B /\ y.head = h /\ y.tail = r.tail /\ y.last = r.last /\ y.size = r.size + 1
    OBVIOUS
  <2> HIDE DEF y
  <2>8. PICK m \in Nat : m = 1
    OBVIOUS
  <2> DEFINE w == WithHead(y, h + m)
             p == SubSeq(B[1], h + 1, h + m)
  <2>9. m <= RB!NextDataBlockSize(y)
    <3>1. PICK len \in Nat : len = Len(r.blocks[1])
      BY <1>1
    <3>2. CASE r.last = 0
      <4>1. RB!NextDataBlockSize(y) = r.tail - h
        BY <2>7, <3>2 DEF RB!NextDataBlockSize
      <4>2. QED
        BY <1>1, <2>1, <2>8, <3>2, <4>1
    <3>3. CASE r.last # 0
      <4>1. RB!NextDataBlockSize(y) = len - h
        BY <2>3, <2>4, <2>7, <3>1, <3>3 DEF RB!NextDataBlockSize
      <4>2. QED
        BY <2>1, <2>8, <3>1, <4>1
    <3>4. QED
      BY <3>2, <3>3
  <2>10. w \in RB!Rings /\ p \in Bytes /\ Len(p) = m /\ RB!Contents(y) = p \o RB!Contents(w)
    BY <2>6, <2>7, <2>9, HeadMoved
  <2>11. p = << c >>
    <3>1. b \in Bytes /\ h <= h + m /\ h + m <= Len(b) /\ h + m \in Nat
      BY <2>1, <2>3, <2>8
    <3>2. \A i \in 1 .. h + m - h : SubSeq(b, h + 1, h + m)[i] = b[h + i]
      BY <2>1, <3>1, Slice
    <3>3. 1 \in 1 .. h + m - h
      BY <2>1, <2>8
    <3>4. p[1] = c
      BY <2>3, <2>4, <3>2, <3>3
    <3> HIDE DEF p
    <3>5. QED
      BY <2>8, <2>10, <3>4 DEF Bytes
  <2>12. RB!Contents(w) = RB!Contents(r)
    <3>1. w.blocks = B /\ w.head = r.head /\ w.tail = r.tail /\ w.last = r.last
      BY <2>1, <2>7, <2>8 DEF WithHead
    <3>2. \A j \in r.head + 1 .. Len(r.blocks[1]) : B[1][j] = r.blocks[1][j]
      <4>1. \A j \in r.head + 1 .. Len(r.blocks[1]) : j \in 1 .. Len(b) /\ j # h + 1
        BY <1>1, <2>1, <2>3
      <4>2. QED
        BY <2>3, <2>4, <4>1
    <3> HIDE DEF w
    <3>3. \A i \in 2 .. r.last + 1 : w.blocks[i] = r.blocks[i]
      BY <2>4, <3>1
    <3>4. /\ Len(w.blocks[1]) = Len(r.blocks[1])
          /\ \A j \in w.head + 1 .. Len(w.blocks[1]) : w.blocks[1][j] = r.blocks[1][j]
      BY <2>3, <2>4, <3>1, <3>2
    <3>5. w \in RB!Rings
      BY <2>10
    <3>6. \A i \in 2 .. w.last + 1 : w.blocks[i] = r.blocks[i]
      BY <3>1, <3>3
    <3>7. QED
      BY <1>1, <3>1, <3>4, <3>5, <3>6, SameLive
  <2> HIDE DEF p, w
  <2>13. QED
    BY <2>2, <2>6, <2>7, <2>10, <2>11, <2>12
<1>5. CASE ~(r.head > 0)
  <2> DEFINE J == [j \in 1 .. BlockSize |-> Junk]
             b == [J EXCEPT ![BlockSize] = c]
             B == << b >> \o r.blocks
             y == [blocks |-> B, head |-> BlockSize - 1, tail |-> r.tail, last |-> r.last + 1,
                   size |-> r.size + 1]
  <2>0. PICK h \in Nat : BlockSize = h + 1
    <3>1. BlockSize - 1 \in Nat /\ BlockSize = (BlockSize - 1) + 1
      BY BlocksHoldBytes
    <3>2. QED
      BY <3>1
  <2>1. J \in Bytes /\ Len(J) = BlockSize
    <3>1. J \in [1 .. BlockSize -> Nat]
      BY DEF Junk
    <3>2. QED
      BY <3>1, BlocksHoldBytes DEF Bytes
  <2>2. r.head = 0
    BY <1>1, <1>5
  <2> DEFINE s == [r EXCEPT !.blocks = << J >> \o @, !.head = BlockSize - 1, !.last = @ + 1]
  <2>3. x = [s EXCEPT !.blocks[1][s.head + 1] = c, !.size = @ + 1]
    BY <1>5 DEF RB!UngetChar
  <2>4. /\ s.blocks = << J >> \o r.blocks /\ s.head = h /\ s.tail = r.tail
        /\ s.last = r.last + 1 /\ s.size = r.size
        /\ DOMAIN s = {"blocks", "head", "tail", "last", "size"}
    <3> HIDE DEF J
    <3>1. BlockSize - 1 = h
      BY <2>0
    <3>2. s.blocks = << J >> \o r.blocks /\ s.tail = r.tail /\ s.size = r.size
      BY <1>1
    <3>3. s.head = h /\ s.last = r.last + 1
      BY <1>1, <3>1
    <3>4. DOMAIN s = {"blocks", "head", "tail", "last", "size"}
      BY <1>1
    <3>5. QED
      BY <3>2, <3>3, <3>4
  <2> HIDE DEF s, J
  <2>5. b \in Bytes /\ Len(b) = h + 1 /\ b[h + 1] = c
    BY <2>0, <2>1 DEF Bytes
  <2>6. /\ << J >> \o r.blocks \in Blocks /\ Len(<< J >> \o r.blocks) = r.last + 2
        /\ (<< J >> \o r.blocks)[1] = J
        /\ \A i \in 2 .. r.last + 2 : (<< J >> \o r.blocks)[i] = r.blocks[i - 1]
    <3>1. << J >> \in Blocks /\ Len(<< J >>) = 1 /\ << J >>[1] = J
      BY <2>1 DEF Blocks
    <3>2. /\ << J >> \o r.blocks \in Blocks
          /\ Len(<< J >> \o r.blocks) = 1 + Len(r.blocks)
          /\ \A i \in 1 .. 1 + Len(r.blocks) :
                (<< J >> \o r.blocks)[i] = IF i <= 1 THEN << J >>[i] ELSE r.blocks[i - 1]
      BY <1>1, <3>1, ConcatProperties DEF Blocks
    <3>3. QED
      BY <1>1, <3>1, <3>2
  <2>7. x = [blocks |-> [<< J >> \o r.blocks EXCEPT ![1] = b], head |-> h, tail |-> r.tail,
             last |-> r.last + 1, size |-> r.size + 1]
    <3> DEFINE z == [blocks |-> [<< J >> \o r.blocks EXCEPT ![1] = b], head |-> h,
                     tail |-> r.tail, last |-> r.last + 1, size |-> r.size + 1]
    <3> HIDE DEF b
    <3>1. x.blocks = [<< J >> \o r.blocks EXCEPT ![1] = b]
      <4>1. x.blocks = [s.blocks EXCEPT ![1] = [s.blocks[1] EXCEPT ![s.head + 1] = c]]
        BY <2>3, <2>4
      <4>2. [s.blocks[1] EXCEPT ![s.head + 1] = c] = b
        BY <2>0, <2>4, <2>6 DEF b
      <4>3. QED
        BY <2>4, <4>1, <4>2
    <3>2. /\ x.blocks = z.blocks /\ x.head = z.head /\ x.tail = z.tail /\ x.last = z.last
          /\ x.size = z.size
      BY <2>3, <2>4, <3>1
    <3>3. x = [k \in {"blocks", "head", "tail", "last", "size"} |-> x[k]]
      BY <2>3, <2>4
    <3> HIDE DEF x
    <3>4. QED
      BY <3>2, <3>3
  <2> DEFINE A == [<< J >> \o r.blocks EXCEPT ![1] = b]
  <2> HIDE DEF b
  <2>8. /\ A \in Blocks /\ Len(A) = r.last + 2 /\ A[1] = b
        /\ \A i \in 2 .. r.last + 2 : A[i] = r.blocks[i - 1]
    <3> DEFINE F == << J >> \o r.blocks
    <3>1. F \in Blocks /\ Len(F) = r.last + 2 /\ \A i \in 2 .. r.last + 2 : F[i] = r.blocks[i - 1]
      BY <2>6
    <3> HIDE DEF F
    <3> DEFINE G == [F EXCEPT ![1] = b]
    <3>2. G \in Blocks /\ Len(G) = r.last + 2 /\ G[1] = b
      BY <1>1, <2>5, <3>1 DEF Blocks
    <3>3. \A i \in 2 .. r.last + 2 : G[i] = F[i]
      BY <3>1 DEF Blocks
    <3>4. G = A
      BY DEF F
    <3> HIDE DEF G, A
    <3>5. QED
      BY <3>1, <3>2, <3>3, <3>4
  <2> HIDE DEF A, B, y
  <2>9. x.blocks = A /\ x.head = h /\ x.tail = r.tail /\ x.last = r.last + 1
        /\ x.size = r.size + 1
    BY <2>7 DEF A
  <2>10. x \in RB!Rings
    <3>1. PICK l \in Nat : l = r.last + 1
      BY <1>1
    <3>2. A[l + 1] = r.blocks[r.last + 1]
      <4>1. l + 1 \in 2 .. r.last + 2 /\ l + 1 - 1 = r.last + 1
        BY <1>1, <3>1
      <4>2. QED
        BY <2>8, <4>1
    <3>3. /\ h <= Len(A[1]) /\ r.tail <= Len(A[l + 1]) /\ (l = 0 => h <= r.tail)
          /\ Len(A) = l + 1 /\ r.size + 1 \in Nat
      BY <1>1, <2>5, <2>8, <3>1, <3>2, SMTT(30)
    <3>4. [blocks |-> A, head |-> h, tail |-> r.tail, last |-> l, size |-> r.size + 1] \in RB!Rings
      BY <1>1, <2>8, <3>1, <3>3, IsRing
    <3>5. QED
      BY <2>7, <3>1, <3>4 DEF A
  <2> HIDE DEF x
  <2>11. x.last # 0
    BY <1>1, <2>9
  <2> DEFINE w == WithoutFirst(x)
             p == SubSeq(x.blocks[1], x.head + 1, Len(x.blocks[1]))
  <2>12. w \in RB!Rings /\ p \in Bytes /\ RB!Contents(x) = p \o RB!Contents(w)
    BY <2>10, <2>11, FirstBlock
  <2>13. p = << c >>
    <3>1. p = SubSeq(b, h + 1, h + 1)
      BY <2>5, <2>8, <2>9
    <3>2. PICK e \in Nat : e = h + 1
      OBVIOUS
    <3>3. /\ SubSeq(b, h + 1, e) \in Bytes /\ Len(SubSeq(b, h + 1, e)) = e - h
          /\ \A i \in 1 .. e - h : SubSeq(b, h + 1, e)[i] = b[h + i]
      BY <2>5, <3>2, Slice
    <3>4. e - h = 1 /\ 1 \in 1 .. e - h
      BY <3>2
    <3>5. Len(p) = 1 /\ p[1] = c
      BY <2>5, <3>1, <3>2, <3>3, <3>4
    <3> HIDE DEF p
    <3>6. QED
      BY <2>12, <3>5 DEF Bytes
  <2>14. RB!Contents(w) = RB!Contents(r)
    <3>1. Tail(A) = r.blocks
      <4>1. A # << >>
        BY <1>1, <2>8
      <4>2. /\ Tail(A) \in Blocks /\ Len(Tail(A)) = Len(A) - 1
            /\ \A i \in 1 .. Len(A) - 1 : Tail(A)[i] = A[i + 1]
        BY <2>8, <4>1, HeadTailProperties DEF Blocks
      <4>3. PICK n \in Nat : n = r.last + 1
        BY <1>1
      <4>4. \A i \in 1 .. n : i \in 1 .. Len(A) - 1 /\ i + 1 \in 2 .. r.last + 2 /\ i + 1 - 1 = i
        BY <1>1, <2>8, <4>3
      <4>5. \A i \in 1 .. n : Tail(A)[i] = r.blocks[i]
        BY <2>8, <4>2, <4>4
      <4>6. Len(Tail(A)) = n /\ Len(r.blocks) = n
        BY <1>1, <2>8, <4>2, <4>3
      <4>7. QED
        BY <1>1, <4>2, <4>5, <4>6, SeqEqual DEF Blocks
    <3>2. w.blocks = r.blocks /\ w.head = r.head /\ w.tail = r.tail /\ w.last = r.last
      BY <1>1, <2>2, <2>9, <3>1 DEF WithoutFirst
    <3> HIDE DEF w
    <3>3. QED
      BY <3>2, ContentsSame
  <2> HIDE DEF p, w
  <2>15. QED
    BY <2>9, <2>10, <2>12, <2>13, <2>14
<1>6. QED
  BY <1>4, <1>5

-----------------------------------------------------------------------------
(* A ring is a queue of the bytes in it.                                   *)

LEMMA BlockAppended ==
    ASSUME NEW r, Sized(r), NEW data \in Bytes
    PROVE  RB!Contents(RB!AppendBlock(r, data)) = RB!Contents(r) \o data
<1>1. r \in RB!Rings /\ r.size \in Nat /\ r.tail \in Nat
  BY RingFields DEF Sized
<1> DEFINE s == RB!Resize(r, r.last + 1, r.tail)
           d == Len(data)
           z == s.size + d
<1>2. /\ s \in RB!Rings /\ s.last = r.last /\ s.tail = r.tail /\ s.size = r.size
      /\ Len(s.blocks[r.last + 1]) = r.tail
      /\ RB!Contents(s) = RB!Contents(r)
  BY <1>1, Resized
<1>3. d \in Nat /\ z \in Nat
  <2>1. d \in Nat
    BY DEF Bytes
  <2>2. QED
    BY <1>1, <1>2, <2>1
<1> DEFINE x == RB!AppendBlock(r, data)
<1>4. x = Extend(s, data, d, z)
  <2>1. x = [s EXCEPT !.blocks = Append(@, data), !.last = @ + 1, !.tail = d, !.size = @ + d]
    BY Zenon DEF RB!AppendBlock
  <2>2. s \in [blocks : Blocks, head : Nat, tail : Nat, last : Nat, size : Nat]
    BY <1>2 DEF RB!Rings, Blocks, Bytes
  <2> HIDE DEF x, s, d
  <2> DEFINE y == [blocks |-> Append(s.blocks, data), head |-> s.head, tail |-> d,
                   last |-> s.last + 1, size |-> s.size + d]
  <2>3. /\ x.blocks = y.blocks /\ x.head = y.head /\ x.tail = y.tail /\ x.last = y.last
        /\ x.size = y.size
        /\ x = [k \in {"blocks", "head", "tail", "last", "size"} |-> x[k]]
    BY <2>1, <2>2
  <2>4. x = y
    BY <2>3
  <2>5. QED
    BY <2>4 DEF Extend
<1> HIDE DEF s, z, x
<1>5. RB!Contents(Extend(s, data, d, z)) = RB!Contents(s) \o SubSeq(data, 1, d)
  <2>1. s.tail = Len(s.blocks[s.last + 1]) /\ d <= Len(data)
    BY <1>2, <1>3
  <2> HIDE DEF d
  <2>2. PICK t \in Nat, y \in Nat : t = d /\ y = z
    BY <1>3
  <2>3. t <= Len(data)
    BY <2>1, <2>2
  <2>4. RB!Contents(Extend(s, data, t, y)) = RB!Contents(s) \o SubSeq(data, 1, t)
    <3>1. s \in RB!Rings /\ s.tail = Len(s.blocks[s.last + 1])
      BY <1>2, <2>1
    <3>2. QED
      BY <2>3, <3>1, Extended
  <2>5. QED
    BY <2>2, <2>4
<1>6. SubSeq(data, 1, d) = data
  <2> DEFINE y == SubSeq(data, 0 + 1, d)
  <2>1. y \in Bytes /\ Len(y) = d - 0 /\ \A i \in 1 .. d - 0 : y[i] = data[0 + i]
    BY <1>3, Slice
  <2>2. d - 0 = d /\ \A i \in 1 .. d : 0 + i = i
    BY <1>3
  <2>3. \A i \in 1 .. d : y[i] = data[i]
    BY <2>1, <2>2
  <2>4. 0 + 1 = 1
    OBVIOUS
  <2> HIDE DEF y
  <2>5. y = data
    BY <1>3, <2>1, <2>2, <2>3, SeqEqual DEF Bytes
  <2>6. QED
    BY <2>4, <2>5, Zenon DEF y
<1>7. QED
  BY <1>2, <1>4, <1>5, <1>6 DEF x

LEMMA Least ==
    ASSUME NEW S \in SUBSET Nat, S # {}
    PROVE  \E i \in S : \A j \in S : i <= j
<1> DEFINE N == {n \in Nat : \A j \in S : n <= j}
<1>1. SUFFICES ASSUME ~ \E i \in S : \A j \in S : i <= j PROVE FALSE
  OBVIOUS
<1>2. 0 \in N
  OBVIOUS
<1>3. ASSUME NEW n \in N PROVE n + 1 \in N
  <2>1. n \notin S
    BY <1>1
  <2>2. QED
    BY <2>1
<1>4. N = Nat
  <2>1. N \subseteq Nat
    OBVIOUS
  <2> HIDE DEF N
  <2>2. QED
    BY <1>2, <1>3, <2>1, Induction
<1>5. PICK s \in S : TRUE
  OBVIOUS
<1>6. s + 1 \in N
  BY <1>4
<1>7. QED
  BY <1>6

LEMMA IndexInside ==
    ASSUME NEW r \in RB!Rings, NEW c
    PROVE  LET i == RB!IndexOf(r, c)
           IN  i # -1 => i \in Nat /\ i < Len(RB!Contents(r))
<1> DEFINE C == RB!Contents(r)
           at == {i \in 1 .. Len(C) : C[i] = c}
           e == CHOOSE i \in at : \A j \in at : i <= j
<1>1. Len(C) \in Nat
  BY ContentsAre DEF Bytes
<1>2. RB!IndexOf(r, c) = IF at = {} THEN -1 ELSE e - 1
  BY Zenon DEF RB!IndexOf
<1>3. at \in SUBSET Nat
  BY <1>1
<1>4. at # {} => e \in at
  <2> HIDE DEF at
  <2>1. at # {} => \E i \in at : \A j \in at : i <= j
    BY <1>3, Least
  <2>2. QED
    BY <2>1
<1>5. at # {} => e \in 1 .. Len(C)
  BY <1>4
<1> HIDE DEF e, at, C
<1>6. at # {} => e - 1 \in Nat /\ e - 1 < Len(C)
  BY <1>1, <1>5
<1>7. QED
  BY <1>2, <1>6 DEF C

\* The bytes somebody wrote.
Marks == Nat \ {Junk}

LEMMA MarksJoin ==
    ASSUME NEW p \in Bytes, NEW q \in Bytes
    PROVE  p \o q \in Seq(Marks) <=> p \in Seq(Marks) /\ q \in Seq(Marks)
<1>1. PICK n \in Nat, m \in Nat : n = Len(p) /\ m = Len(q)
  BY DEF Bytes
<1>2. /\ p \o q \in Seq(Nat) /\ Len(p \o q) = n + m
      /\ \A i \in 1 .. n + m : (p \o q)[i] = IF i <= n THEN p[i] ELSE q[i - n]
  BY <1>1, ConcatProperties DEF Bytes
<1>3. ASSUME p \in Seq(Marks), q \in Seq(Marks) PROVE p \o q \in Seq(Marks)
  BY <1>3, ConcatProperties
<1>4. ASSUME p \o q \in Seq(Marks) PROVE p \in Seq(Marks) /\ q \in Seq(Marks)
  <2>1. \A i \in 1 .. n + m : (p \o q)[i] \in Marks
    BY <1>2, <1>4, ElementOfSeq
  <2>2. ASSUME NEW i \in 1 .. n PROVE p[i] \in Marks
    <3>1. i \in 1 .. n + m /\ i <= n
      OBVIOUS
    <3>2. (p \o q)[i] = p[i]
      BY <1>2, <3>1
    <3>3. QED
      BY <2>1, <3>1, <3>2
  <2>3. ASSUME NEW i \in 1 .. m PROVE q[i] \in Marks
    <3>1. n + i \in 1 .. n + m /\ ~(n + i <= n) /\ n + i - n = i
      OBVIOUS
    <3>2. (p \o q)[n + i] = q[n + i - n]
      BY <1>2, <3>1
    <3>3. QED
      BY <2>1, <3>1, <3>2
  <2>4. p = [i \in 1 .. n |-> p[i]] /\ q = [i \in 1 .. m |-> q[i]]
    BY <1>1 DEF Bytes
  <2>5. p \in [1 .. n -> Marks] /\ q \in [1 .. m -> Marks]
    BY <2>2, <2>3, <2>4
  <2>6. QED
    BY <2>5
<1>5. QED
  BY <1>3, <1>4

\* What every reachable buffer is.
Whole(r) == Sized(r) /\ Solid(r) /\ RB!Contents(r) \in Seq(Marks)

LEMMA SizedWellFormed ==
    ASSUME NEW r, Sized(r), RB!Contents(r) \in Seq(Marks)
    PROVE  RB!WellFormed(r)
<1>1. RB!Fits(r) /\ r.size = Len(RB!Contents(r))
  BY DEF Sized, RB!Rings
<1>2. Junk \notin {RB!Contents(r)[i] : i \in DOMAIN RB!Contents(r)}
  BY DEF Marks
<1>3. RB!IsEmpty(r) <=> r.size = 0
  BY SizedFacts
<1>4. QED
  BY <1>1, <1>2, <1>3, Zenon DEF RB!WellFormed

\* Data taken from the beginning.
LEMMA PrefixRead ==
    ASSUME NEW r, Whole(r), NEW x, x.data \in Bytes, Sized(x.ring),
           RB!Contents(r) = x.data \o RB!Contents(x.ring)
    PROVE  /\ RB!ReadsPrefix(x, r)
           /\ x.data \in Seq(Marks) /\ RB!Contents(x.ring) \in Seq(Marks)
<1>1. RB!Contents(x.ring) \in Bytes
  BY ContentsAre DEF Sized
<1>2. x.data \in Seq(Marks) /\ RB!Contents(x.ring) \in Seq(Marks)
  BY <1>1, MarksJoin DEF Whole
<1>3. RB!WellFormed(x.ring)
  BY <1>2, SizedWellFormed
<1>4. QED
  BY <1>2, <1>3 DEF RB!ReadsPrefix

LEMMA Beginning ==
    ASSUME NEW p \in Bytes, NEW q \in Bytes
    PROVE  SubSeq(p \o q, 1, Len(p)) = p
<1> DEFINE s == p \o q
<1>1. PICK n \in Nat, m \in Nat : n = Len(p) /\ m = Len(q)
  BY DEF Bytes
<1>2. s \in Bytes /\ Len(s) = n + m
  BY <1>1, Join
<1>3. \A i \in 1 .. n : s[i] = p[i]
  <2>1. \A i \in 1 .. Len(p) + Len(q) : s[i] = IF i <= Len(p) THEN p[i] ELSE q[i - Len(p)]
    BY ConcatProperties DEF Bytes
  <2>2. \A i \in 1 .. n + m : s[i] = IF i <= n THEN p[i] ELSE q[i - n]
    BY <1>1, <2>1
  <2>3. \A i \in 1 .. n : i \in 1 .. n + m /\ i <= n
    OBVIOUS
  <2>4. QED
    BY <2>2, <2>3
<1> HIDE DEF s
<1> DEFINE x == SubSeq(s, 0 + 1, n)
<1>4. x \in Bytes /\ Len(x) = n - 0 /\ \A i \in 1 .. n - 0 : x[i] = s[0 + i]
  BY <1>2, Slice
<1>5. n - 0 = n /\ \A i \in 1 .. n : 0 + i = i
  OBVIOUS
<1>6. \A i \in 1 .. n : x[i] = p[i]
  BY <1>3, <1>4, <1>5
<1>7. 0 + 1 = 1
  OBVIOUS
<1> HIDE DEF x
<1>8. x = p
  BY <1>1, <1>4, <1>5, <1>6, SeqEqual DEF Bytes
<1>9. QED
  BY <1>1, <1>7, <1>8, Zenon DEF x, s

\* read() of up to m bytes, as read(), readLine() and getChar() use it.
LEMMA Taking ==
    ASSUME NEW r, Whole(r), NEW m \in Nat, m <= r.size
    PROVE  LET x == RB!ReadLoop(r, m)
           IN  /\ RB!ReadsPrefix(x, r) /\ Whole(x.ring)
               /\ x.data \in Seq(Marks) /\ Len(x.data) = m
               /\ RB!Contents(r) = x.data \o RB!Contents(x.ring)
               /\ SubSeq(RB!Contents(r), 1, m) = x.data
<1> DEFINE x == RB!ReadLoop(r, m)
<1>1. /\ x.data \in Bytes /\ Len(x.data) = m
      /\ Sized(x.ring) /\ Solid(x.ring)
      /\ RB!Contents(r) = x.data \o RB!Contents(x.ring)
  BY Looped DEF Whole
<1> HIDE DEF x
<1>2. RB!ReadsPrefix(x, r) /\ x.data \in Seq(Marks) /\ RB!Contents(x.ring) \in Seq(Marks)
  BY <1>1, PrefixRead
<1>3. RB!Contents(x.ring) \in Bytes
  BY <1>1, ContentsAre DEF Sized
<1>4. SubSeq(x.data \o RB!Contents(x.ring), 1, Len(x.data)) = x.data
  BY <1>1, <1>3, Beginning
<1>5. QED
  BY <1>1, <1>2, <1>4 DEF x, Whole

LEMMA WholeFacts ==
    ASSUME NEW r, Whole(r)
    PROVE  /\ r \in RB!Rings /\ r.size \in Nat /\ r.size = Len(RB!Contents(r))
           /\ RB!Contents(r) \in Bytes /\ RB!WellFormed(r)
           /\ RB!IsEmpty(r) <=> r.size = 0
<1>1. r \in RB!Rings /\ r.size = Len(RB!Contents(r)) /\ RB!Contents(r) \in Seq(Marks) /\ Sized(r)
  BY DEF Whole, Sized
<1>2. r.size \in Nat /\ RB!Contents(r) \in Bytes /\ RB!WellFormed(r) /\ (RB!IsEmpty(r) <=> r.size = 0)
  BY <1>1, RingFields, ContentsAre, SizedWellFormed, SizedFacts
<1>3. QED
  BY <1>1, <1>2

LEMMA ReadingIsQueue ==
    ASSUME NEW r, Whole(r), NEW n \in Nat, NEW c
    PROVE  /\ RB!ReadsPrefix(RB!Read(r, n), r)
           /\ Len(RB!Read(r, n).data) = RB!Smaller(n, r.size)
           /\ RB!Peek(r, n) = RB!Read(r, n).data
           /\ RB!Contents(RB!Truncate(r, n)) = RB!Peek(r, n)
           /\ n > 0 => RB!ReadsPrefix(RB!ReadLine(r, n, c), r)
<1> DEFINE C == RB!Contents(r)
           m == RB!Smaller(r.size, n)
<1>1. r \in RB!Rings /\ r.size \in Nat /\ r.size = Len(C) /\ C \in Bytes /\ RB!WellFormed(r) /\ Sized(r)
  BY WholeFacts DEF Whole
<1>2. m \in Nat /\ m <= r.size /\ m = RB!Smaller(n, r.size)
  BY <1>1 DEF RB!Smaller
<1>3. RB!Read(r, n) = RB!ReadLoop(r, m)
  BY DEF RB!Read
<1> DEFINE x == RB!ReadLoop(r, m)
<1>4. RB!Peek(r, n) = SubSeq(C, 1, m)
  BY DEF RB!Peek
<1>5. m = IF n < r.size THEN n ELSE r.size
  BY <1>1 DEF RB!Smaller
<1> HIDE DEF C, m, x
<1>6. RB!ReadsPrefix(x, r) /\ x.data \in Seq(Marks) /\ Len(x.data) = m /\ SubSeq(C, 1, m) = x.data
  BY <1>2, Taking DEF x, C
<1>7. RB!Contents(RB!Truncate(r, n)) = SubSeq(C, 1, m)
  <2>1. CASE n < r.size
    <3> DEFINE k == r.size - n
               v == RB!Chop(r, k)
    <3>1. k \in Nat /\ k <= r.size
      BY <1>1, <2>1
    <3>2. RB!Truncate(r, n) = v
      BY <2>1 DEF RB!Truncate
    <3> HIDE DEF k
    <3>3. RB!Contents(v) \in Bytes
      BY <1>1, <3>1, Chopped
    <3>4. PICK q \in Bytes : C = RB!Contents(v) \o q /\ Len(q) = k
      BY <1>1, <3>1, Chopped DEF C
    <3> HIDE DEF v
    <3>5. SubSeq(C, 1, Len(RB!Contents(v))) = RB!Contents(v)
      BY <3>3, <3>4, Beginning
    <3>6. PICK a \in Nat : a = Len(RB!Contents(v))
      BY <3>3 DEF Bytes
    <3>7. Len(C) = a + k
      BY <3>1, <3>3, <3>4, <3>6, Join
    <3>8. r.size = a + k /\ k = r.size - n
      BY <1>1, <3>7 DEF k
    <3>9. a = n
      BY <1>1, <3>1, <3>8
    <3>10. QED
      BY <1>5, <2>1, <3>2, <3>5, <3>6, <3>9
  <2>2. CASE ~(n < r.size)
    <3>1. RB!Truncate(r, n) = r
      BY <2>2 DEF RB!Truncate
    <3>2. C \o << >> = C /\ << >> \in Bytes
      BY <1>1, Join
    <3>3. SubSeq(C \o << >>, 1, Len(C)) = C
      BY <1>1, <3>2, Beginning
    <3>4. m = Len(C)
      BY <1>1, <1>5, <2>2
    <3>5. QED
      BY <3>1, <3>2, <3>3, <3>4 DEF C
  <2>3. QED
    BY <2>1, <2>2
<1>8. ASSUME n > 0 PROVE RB!ReadsPrefix(RB!ReadLine(r, n, c), r)
  <2> DEFINE i == RB!IndexOf(r, c)
             k == RB!Smaller(i + 1, n - 1)
  <2>1. i # -1 => i \in Nat /\ i < Len(C)
    BY <1>1, IndexInside DEF C
  <2>2. RB!ReadLine(r, n, c) = IF i = -1 THEN RB!Read(r, n) ELSE RB!ReadLoop(r, k)
    BY DEF RB!ReadLine
  <2> HIDE DEF i
  <2>3. i # -1 => k \in Nat /\ k <= r.size
    BY <1>1, <1>8, <2>1 DEF RB!Smaller
  <2> HIDE DEF k
  <2>4. CASE i = -1
    BY <1>3, <1>6, <2>2, <2>4 DEF x
  <2>5. CASE i # -1
    <3>1. RB!ReadsPrefix(RB!ReadLoop(r, k), r)
      BY <2>3, <2>5, Taking
    <3>2. QED
      BY <2>2, <2>5, <3>1
  <2>6. QED
    BY <2>4, <2>5
<1>9. QED
  BY <1>2, <1>3, <1>4, <1>6, <1>7, <1>8 DEF x

LEMMA CharRead ==
    ASSUME NEW r, Whole(r), r.size > 0
    PROVE  /\ RB!ReadsPrefix(RB!GetChar(r), r) /\ Whole(RB!GetChar(r).ring)
           /\ RB!GetChar(r).data \in Seq(Marks)
           /\ RB!Contents(r) = RB!GetChar(r).data \o RB!Contents(RB!GetChar(r).ring)
<1>1. /\ r \in RB!Rings /\ Sized(r) /\ Solid(r) /\ r.blocks[1] \in Bytes /\ r.head \in Nat
      /\ Len(r.blocks[1]) \in Nat /\ r.size \in Nat
  BY RingFields DEF Whole, Sized
<1>2. PICK k \in Nat : k = 1
  OBVIOUS
<1>3. k <= RB!NextDataBlockSize(r)
  BY <1>1, <1>2, FirstNotEmpty
<1> DEFINE p == SubSeq(r.blocks[1], r.head + 1, r.head + k)
           f == RB!Free(r, k)
           x == RB!GetChar(r)
<1>4. p \in Bytes /\ Len(p) = k /\ Sized(f) /\ Solid(f) /\ RB!Contents(r) = p \o RB!Contents(f)
  BY <1>1, <1>3, FreedPart
<1>5. r.head + k <= Len(r.blocks[1])
  <2>1. RB!NextDataBlockSize(r) \in Nat /\ r.head + RB!NextDataBlockSize(r) <= Len(r.blocks[1])
    BY <1>1, NextBlock
  <2>2. QED
    BY <1>1, <1>3, <2>1
<1>6. p = << r.blocks[1][r.head + 1] >>
  <2>1. p[1] = r.blocks[1][r.head + 1]
    <3>1. PICK e \in Nat : e = r.head + k
      BY <1>1
    <3>2. r.head <= e /\ e <= Len(r.blocks[1])
      BY <1>1, <1>5, <3>1
    <3>3. \A i \in 1 .. e - r.head : SubSeq(r.blocks[1], r.head + 1, e)[i] = r.blocks[1][r.head + i]
      BY <1>1, <3>2, Slice
    <3>4. p = SubSeq(r.blocks[1], r.head + 1, e)
      BY <3>1
    <3>5. 1 \in 1 .. e - r.head
      BY <1>1, <1>2, <3>1
    <3> HIDE DEF p
    <3>6. QED
      BY <3>3, <3>4, <3>5
  <2> HIDE DEF p
  <2>2. QED
    BY <1>2, <1>4, <2>1 DEF Bytes
<1>7. x.data = p /\ x.ring = f
  BY <1>2, <1>6 DEF RB!GetChar
<1> HIDE DEF p, f, x
<1>8. RB!ReadsPrefix(x, r) /\ x.data \in Seq(Marks) /\ RB!Contents(x.ring) \in Seq(Marks)
  BY <1>4, <1>7, PrefixRead
<1>9. QED
  BY <1>4, <1>7, <1>8 DEF x, Whole

LEMMA WritingIsQueue ==
    ASSUME NEW r, Whole(r), NEW c \in Marks, NEW n \in Nat
    PROVE  LET data == [i \in 1 .. n |-> c] IN
              /\ RB!WellFormed(RB!Put(r, data))
              /\ RB!Contents(RB!Put(r, data)) = RB!Contents(r) \o data
              /\ RB!Contents(RB!AppendBlock(r, data)) = RB!Contents(r) \o data
              /\ RB!Contents(RB!Put(RB!UngetChar(r, c), data)) = << c >> \o RB!Contents(r) \o data
<1> DEFINE data == [i \in 1 .. n |-> c]
           u == RB!UngetChar(r, c)
<1>1. data \in Seq(Marks) /\ data \in Bytes /\ c \in Nat
  BY DEF Bytes, Marks
<1> HIDE DEF data
<1>2. Sized(r) /\ RB!Contents(r) \in Seq(Marks) /\ RB!Contents(r) \in Bytes
  BY WholeFacts DEF Whole
<1>3. Sized(RB!Put(r, data)) /\ RB!Contents(RB!Put(r, data)) = RB!Contents(r) \o data
  BY <1>1, <1>2, Written
<1>4. RB!WellFormed(RB!Put(r, data))
  <2>1. RB!Contents(r) \o data \in Seq(Marks)
    BY <1>1, <1>2, MarksJoin
  <2>2. QED
    BY <1>3, <2>1, SizedWellFormed
<1>5. RB!Contents(RB!AppendBlock(r, data)) = RB!Contents(r) \o data
  BY <1>1, <1>2, BlockAppended
<1>6. Sized(u) /\ RB!Contents(u) = << c >> \o RB!Contents(r)
  BY <1>1, <1>2, Ungot
<1> HIDE DEF u
<1>7. RB!Contents(RB!Put(u, data)) = RB!Contents(u) \o data
  BY <1>1, <1>6, Written
<1>8. QED
  BY <1>3, <1>4, <1>5, <1>6, <1>7 DEF data, u

\* A whole ring is well formed, and every operation does to it what it does to
\* a queue.
LEMMA RingIsQueue ==
    ASSUME NEW r, Whole(r), NEW c \in Marks
    PROVE  RB!WellFormed(r) /\ RB!QueueAlgebra(r, {c}, c)
<1>1. RB!WellFormed(r) /\ r.size \in Nat /\ Sized(r) /\ Solid(r) /\ RB!Contents(r) \in Seq(Marks)
  BY WholeFacts DEF Whole
<1>2. ASSUME NEW n \in 0 .. r.size + 1
      PROVE  /\ RB!ReadsPrefix(RB!Read(r, n), r)
             /\ Len(RB!Read(r, n).data) = RB!Smaller(n, r.size)
             /\ RB!Peek(r, n) = RB!Read(r, n).data
             /\ RB!Contents(RB!Truncate(r, n)) = RB!Peek(r, n)
             /\ n > 0 => RB!ReadsPrefix(RB!ReadLine(r, n, c), r)
  <2>1. n \in Nat
    OBVIOUS
  <2>2. QED
    BY <2>1, ReadingIsQueue
<1>3. RB!ReadsPrefix(RB!ReadBlock(r), r)
  BY <1>1, BlockRead, PrefixRead
<1>4. r.size > 0 => RB!ReadsPrefix(RB!GetChar(r), r)
  BY CharRead
<1>5. /\ RB!WellFormed(RB!UngetChar(r, c))
      /\ RB!Contents(RB!UngetChar(r, c)) = << c >> \o RB!Contents(r)
  <2>1. c \in Nat /\ << c >> \in Seq(Marks) /\ << c >> \in Bytes /\ RB!Contents(r) \in Bytes
    BY WholeFacts DEF Marks, Bytes
  <2>2. << c >> \o RB!Contents(r) \in Seq(Marks)
    BY <1>1, <2>1, MarksJoin
  <2>3. QED
    BY <1>1, <2>1, <2>2, Ungot, SizedWellFormed
<1>6. ASSUME NEW n \in 1 .. 3
      PROVE  LET data == [i \in 1 .. n |-> c] IN
              /\ RB!WellFormed(RB!Put(r, data))
              /\ RB!Contents(RB!Put(r, data)) = RB!Contents(r) \o data
              /\ RB!Contents(RB!AppendBlock(r, data)) = RB!Contents(r) \o data
              /\ RB!Contents(RB!Put(RB!UngetChar(r, c), data)) = << c >> \o RB!Contents(r) \o data
  <2>1. n \in Nat
    OBVIOUS
  <2>2. QED
    BY <2>1, WritingIsQueue
<1>7. QED
  BY <1>1, <1>2, <1>3, <1>4, <1>5, <1>6, Zenon DEF RB!QueueAlgebra

-----------------------------------------------------------------------------
(* What arrives, what is written, and what became of it.                   *)

LEMMA MarksAreBytes ==
    ASSUME NEW s \in Seq(Marks)
    PROVE  s \in Bytes
<1>1. PICK n \in Nat : n = Len(s)
  OBVIOUS
<1>2. \A i \in 1 .. n : s[i] \in Nat
  BY <1>1, ElementOfSeq DEF Marks
<1>3. s = [i \in 1 .. n |-> s[i]]
  BY <1>1
<1>4. s \in [1 .. n -> Nat]
  BY <1>2, <1>3
<1>5. QED
  BY <1>4 DEF Bytes

\* The input that the program has had, the read buffer and the driver are what
\* has arrived.
InHalf(ring, input, had, n) ==
    /\ Whole(ring) /\ input \in Seq(Marks) /\ had \in Seq(Marks) /\ n \in Nat
    /\ had \o RB!Contents(ring) \o input = Upto(n)

LEMMA InFacts ==
    ASSUME NEW r, NEW x, NEW t, NEW a, InHalf(r, x, t, a)
    PROVE  /\ Whole(r) /\ x \in Bytes /\ t \in Bytes /\ RB!Contents(r) \in Bytes
           /\ RB!Contents(r) \in Seq(Marks) /\ Len(x) \in Nat
BY MarksAreBytes DEF InHalf, Whole, Bytes

\* A sequence is its first k elements and the others.
LEMMA Parted ==
    ASSUME NEW x \in Bytes, NEW k \in Nat, k <= Len(x)
    PROVE  /\ SubSeq(x, 1, k) \in Bytes /\ Len(SubSeq(x, 1, k)) = k
           /\ SubSeq(x, k + 1, Len(x)) \in Bytes
           /\ x = SubSeq(x, 1, k) \o SubSeq(x, k + 1, Len(x))
<1> DEFINE p == SubSeq(x, 1, k)
           q == SubSeq(x, k + 1, Len(x))
<1>1. Len(x) \in Nat
  BY DEF Bytes
<1>2. PICK o \in Nat, e \in Nat : o = 0 /\ e = Len(x)
  BY <1>1
<1>3. p = SubSeq(x, o + 1, k) /\ q = SubSeq(x, k + 1, e) /\ o <= k /\ k <= e
      /\ o <= e /\ e <= Len(x)
  BY <1>2
<1>4. p \in Bytes /\ Len(p) = k - o /\ q \in Bytes
  <2> HIDE DEF p, q
  <2>1. SubSeq(x, o + 1, k) \in Bytes /\ Len(SubSeq(x, o + 1, k)) = k - o
    BY <1>3, Slice
  <2>2. SubSeq(x, k + 1, e) \in Bytes
    BY <1>3, Slice
  <2>3. QED
    BY <1>3, <2>1, <2>2
<1>5. x = p \o q
  <2> HIDE DEF p, q
  <2>1. SubSeq(x, o + 1, e) = SubSeq(x, o + 1, k) \o SubSeq(x, k + 1, e)
    BY <1>3, Split
  <2>2. SubSeq(x, o + 1, e) = x
    <3>1. /\ SubSeq(x, o + 1, e) \in Bytes /\ Len(SubSeq(x, o + 1, e)) = e - o
          /\ \A i \in 1 .. e - o : SubSeq(x, o + 1, e)[i] = x[o + i]
      BY <1>3, Slice
    <3> DEFINE y == SubSeq(x, o + 1, e)
    <3>2. \A i \in 1 .. e : y[i] = x[i]
      <4>1. e - o = e /\ \A i \in 1 .. e : o + i = i
        BY <1>2
      <4>2. QED
        BY <3>1, <4>1
    <3>3. e - o = e
      BY <1>2
    <3>4. y \in Bytes /\ Len(y) = e
      BY <3>1, <3>3
    <3> HIDE DEF y
    <3>5. y = x
      BY <1>1, <1>2, <3>2, <3>4, SeqEqual DEF Bytes
    <3>6. QED
      BY <3>5 DEF y
  <2>3. QED
    BY <1>3, <2>1, <2>2
<1>6. k - o = k
  BY <1>2
<1>7. QED
  BY <1>4, <1>5, <1>6

LEMMA InStored ==
    ASSUME NEW r, NEW x, NEW t, NEW a, InHalf(r, x, t, a),
           NEW n \in Nat, NEW k \in Nat, k <= n, k <= Len(x)
    PROVE  InHalf(RB!Chop(RB!Fill(RB!Reserve(r, n), n, SubSeq(x, 1, k)), n - k),
                  SubSeq(x, k + 1, Len(x)), t, a)
<1>1. /\ Whole(r) /\ x \in Bytes /\ t \in Bytes /\ RB!Contents(r) \in Bytes /\ Len(x) \in Nat
      /\ x \in Seq(Marks)
  BY InFacts DEF InHalf
<1> DEFINE p == SubSeq(x, 1, k)
           q == SubSeq(x, k + 1, Len(x))
           v == RB!Chop(RB!Fill(RB!Reserve(r, n), n, p), n - k)
           C == RB!Contents(r)
<1>2. p \in Bytes /\ Len(p) = k /\ q \in Bytes /\ x = p \o q
  BY <1>1, Parted
<1> HIDE DEF p, q
<1>6. p \in Seq(Marks) /\ q \in Seq(Marks)
  BY <1>1, <1>2, MarksJoin
<1>7. Len(p) = k
  BY <1>2
<1>8. Sized(v) /\ Solid(v) /\ RB!Contents(v) = C \o p
  <2>1. Sized(r) /\ Solid(r)
    BY <1>1 DEF Whole
  <2>2. Len(p) <= n
    BY <1>7
  <2> DEFINE u == RB!Chop(RB!Fill(RB!Reserve(r, n), n, p), n - Len(p))
  <2>3. Sized(u) /\ (Solid(r) => Solid(u)) /\ RB!Contents(u) = RB!Contents(r) \o p
    BY <1>2, <2>1, <2>2, Stored
  <2>4. u = v
    BY <1>7
  <2> HIDE DEF u, v
  <2>5. QED
    BY <2>1, <2>3, <2>4
<1> HIDE DEF v, C
<1>9. C \in Bytes /\ C \in Seq(Marks)
  BY <1>1 DEF C, Whole
<1>10. Whole(v)
  <2>1. C \o p \in Seq(Marks)
    BY <1>2, <1>6, <1>9, MarksJoin
  <2>2. QED
    BY <1>8, <2>1 DEF Whole
<1>11. t \o (C \o p) \o q = t \o C \o x
  <2>1. t \o C \in Bytes /\ C \o p \in Bytes
    BY <1>1, <1>2, <1>9, Join
  <2>2. t \o (C \o p) = (t \o C) \o p
    BY <1>1, <1>2, <1>9, Joins, SMTT(60)
  <2>3. ((t \o C) \o p) \o q = (t \o C) \o (p \o q)
    BY <1>2, <2>1, Joins
  <2>4. QED
    BY <1>2, <2>2, <2>3, Zenon
<1>12. t \o C \o x = Upto(a) /\ t \in Seq(Marks) /\ a \in Nat
  BY DEF InHalf, C
<1>13. t \o RB!Contents(v) \o q = Upto(a)
  BY <1>8, <1>11, <1>12, Zenon
<1>14. QED
  BY <1>6, <1>10, <1>12, <1>13, Zenon DEF InHalf, v, p, q

LEMMA InTaken ==
    ASSUME NEW r, NEW x, NEW t, NEW a, InHalf(r, x, t, a),
           NEW s, Whole(s), NEW data \in Seq(Marks), RB!Contents(r) = data \o RB!Contents(s)
    PROVE  InHalf(s, x, t \o data, a)
<1> DEFINE C == RB!Contents(s)
<1>1. /\ x \in Seq(Marks) /\ t \in Seq(Marks) /\ a \in Nat /\ t \o RB!Contents(r) \o x = Upto(a)
      /\ C \in Seq(Marks)
  BY DEF InHalf, Whole
<1> HIDE DEF C
<1>2. x \in Bytes /\ t \in Bytes /\ data \in Bytes /\ C \in Bytes
  BY <1>1, MarksAreBytes
<1>3. t \o data \in Seq(Marks)
  BY <1>1, <1>2, MarksJoin
<1>4. (t \o data) \o C = t \o (data \o C)
  BY <1>2, Joins
<1>5. (t \o data) \o C \o x = Upto(a)
  BY <1>1, <1>4, Zenon DEF C
<1>6. QED
  BY <1>1, <1>3, <1>5 DEF InHalf, C

LEMMA EmptyWhole == Whole(RB!EmptyRing) /\ RB!Contents(RB!EmptyRing) = << >>
BY NewRing DEF Whole

\* An unbuffered read takes from the driver.
LEMMA InRaw ==
    ASSUME NEW x, NEW t, NEW a, InHalf(RB!EmptyRing, x, t, a), NEW k \in Nat, k <= Len(x)
    PROVE  InHalf(RB!EmptyRing, SubSeq(x, k + 1, Len(x)), t \o SubSeq(x, 1, k), a)
<1>1. /\ x \in Bytes /\ t \in Bytes /\ Len(x) \in Nat /\ x \in Seq(Marks) /\ t \in Seq(Marks)
      /\ a \in Nat /\ t \o << >> \o x = Upto(a)
  BY InFacts, EmptyWhole DEF InHalf
<1> DEFINE p == SubSeq(x, 1, k)
           q == SubSeq(x, k + 1, Len(x))
<1>2. p \in Bytes /\ q \in Bytes /\ x = p \o q
  BY <1>1, Parted
<1> HIDE DEF p, q
<1>3. p \in Seq(Marks) /\ q \in Seq(Marks) /\ t \o p \in Seq(Marks) /\ t \o p \in Bytes
  BY <1>1, <1>2, MarksJoin, Join
<1>4. (t \o p) \o << >> = t \o p /\ t \o << >> = t
  BY <1>1, <1>3, Join
<1>5. (t \o p) \o q = t \o (p \o q)
  BY <1>1, <1>2, Joins
<1>6. (t \o p) \o << >> \o q = Upto(a)
  BY <1>1, <1>2, <1>4, <1>5, Zenon
<1>7. QED
  BY <1>1, <1>3, <1>6, EmptyWhole DEF InHalf, p, q

LEMMA UptoIs ==
    ASSUME NEW n \in Nat
    PROVE  /\ Upto(n) \in Seq(Marks) /\ Upto(n) \in Bytes /\ Len(Upto(n)) = n
           /\ \A i \in 1 .. n : Upto(n)[i] = i
<1>1. Upto(n) \in [1 .. n -> Marks] /\ \A i \in 1 .. n : Upto(n)[i] = i
  BY DEF Upto, Marks, Junk
<1>2. Upto(n) \in Seq(Marks) /\ Len(Upto(n)) = n
  BY <1>1 DEF Upto
<1>3. QED
  BY <1>1, <1>2, MarksAreBytes

LEMMA UptoPrefix ==
    ASSUME NEW p \in Bytes, NEW q \in Bytes, NEW n \in Nat, p \o q = Upto(n)
    PROVE  n - Len(q) \in Nat /\ p = Upto(n - Len(q))
<1>1. PICK k \in Nat, m \in Nat : k = Len(p) /\ m = Len(q)
  BY DEF Bytes
<1>2. Len(p \o q) = k + m /\ Len(Upto(n)) = n
  BY <1>1, Join, UptoIs
<1>3. n = k + m
  BY <1>2
<1>4. \A i \in 1 .. k + m : (p \o q)[i] = IF i <= k THEN p[i] ELSE q[i - k]
  <2>1. \A i \in 1 .. Len(p) + Len(q) : (p \o q)[i] = IF i <= Len(p) THEN p[i] ELSE q[i - Len(p)]
    BY ConcatProperties DEF Bytes
  <2>2. QED
    BY <1>1, <2>1
<1>5. \A i \in 1 .. n : Upto(n)[i] = i
  BY UptoIs
<1>6. \A i \in 1 .. k : p[i] = i
  BY <1>3, <1>4, <1>5
<1>7. Upto(k) \in Bytes /\ Len(Upto(k)) = k /\ \A i \in 1 .. k : Upto(k)[i] = i
  BY UptoIs
<1>8. p = Upto(k)
  BY <1>1, <1>6, <1>7, SeqEqual DEF Bytes
<1>9. n - m = k
  BY <1>3
<1>10. QED
  BY <1>1, <1>8, <1>9

\* The next m numbers after n, as NextBytes() has them.
After(n, m) == [i \in 1 .. m |-> n + i]

LEMMA AfterIs ==
    ASSUME NEW n \in Nat, NEW m \in Nat
    PROVE  /\ After(n, m) \in Seq(Marks) /\ After(n, m) \in Bytes /\ Len(After(n, m)) = m
           /\ \A i \in 1 .. m : After(n, m)[i] = n + i
<1>1. After(n, m) \in [1 .. m -> Marks] /\ \A i \in 1 .. m : After(n, m)[i] = n + i
  BY DEF After, Marks, Junk
<1>2. After(n, m) \in Seq(Marks) /\ Len(After(n, m)) = m
  BY <1>1 DEF After
<1>3. QED
  BY <1>1, <1>2, MarksAreBytes

LEMMA UptoMore ==
    ASSUME NEW n \in Nat, NEW m \in Nat
    PROVE  Upto(n) \o After(n, m) = Upto(n + m)
<1> DEFINE p == Upto(n)
           q == After(n, m)
           u == Upto(n + m)
<1>1. p \in Bytes /\ Len(p) = n /\ \A i \in 1 .. n : p[i] = i
  BY UptoIs
<1>2. q \in Bytes /\ Len(q) = m /\ \A i \in 1 .. m : q[i] = n + i
  BY AfterIs
<1>3. u \in Bytes /\ Len(u) = n + m /\ \A i \in 1 .. n + m : u[i] = i
  <2>1. n + m \in Nat
    OBVIOUS
  <2>2. QED
    BY <2>1, UptoIs
<1> HIDE DEF p, q, u
<1>4. p \o q \in Bytes /\ Len(p \o q) = n + m
  BY <1>1, <1>2, Join
<1>5. \A i \in 1 .. n + m : (p \o q)[i] = IF i <= n THEN p[i] ELSE q[i - n]
  <2>1. \A i \in 1 .. Len(p) + Len(q) : (p \o q)[i] = IF i <= Len(p) THEN p[i] ELSE q[i - Len(p)]
    BY <1>1, <1>2, ConcatProperties DEF Bytes
  <2>2. QED
    BY <1>1, <1>2, <2>1
<1>6. ASSUME NEW i \in 1 .. n + m PROVE (p \o q)[i] = i
  <2>1. CASE i <= n
    BY <1>1, <1>5, <2>1
  <2>2. CASE ~(i <= n)
    <3>1. i - n \in 1 .. m /\ n + (i - n) = i
      BY <2>2
    <3>2. QED
      BY <1>2, <1>5, <2>2, <3>1
  <2>3. QED
    BY <2>1, <2>2
<1>7. p \o q = u
  BY <1>3, <1>4, <1>6, SeqEqual DEF Bytes
<1>8. QED
  BY <1>7 DEF p, q, u

\* reset(), close() and a crash throw the input away.
LEMMA InDropped ==
    ASSUME NEW r, NEW x, NEW t, NEW a, InHalf(r, x, t, a)
    PROVE  InHalf(RB!EmptyRing, << >>, t \o RB!Contents(r) \o x, a)
<1> DEFINE C == RB!Contents(r)
           all == t \o C \o x
<1>1. /\ x \in Seq(Marks) /\ t \in Seq(Marks) /\ C \in Seq(Marks) /\ a \in Nat
      /\ x \in Bytes /\ t \in Bytes /\ C \in Bytes /\ all = Upto(a)
  BY MarksAreBytes DEF InHalf, Whole
<1> HIDE DEF C, all
<1>2. all \in Seq(Marks) /\ all \in Bytes
  BY <1>1, UptoIs
<1>3. all \o << >> = all
  BY <1>2, Join
<1>4. all \o << >> \o << >> = Upto(a)
  BY <1>1, <1>3, Zenon
<1>5. << >> \in Seq(Marks)
  OBVIOUS
<1>6. QED
  BY <1>1, <1>2, <1>4, <1>5, EmptyWhole DEF InHalf, C, all

\* The input of the driver is lost with the device.
LEMMA InLost ==
    ASSUME NEW r, NEW x, NEW t, NEW a, InHalf(r, x, t, a)
    PROVE  InHalf(r, << >>, t, a - Len(x))
<1> DEFINE C == RB!Contents(r)
           p == t \o C
<1>1. /\ x \in Seq(Marks) /\ t \in Seq(Marks) /\ C \in Seq(Marks) /\ a \in Nat /\ Whole(r)
      /\ x \in Bytes /\ t \in Bytes /\ C \in Bytes /\ p \o x = Upto(a)
  BY MarksAreBytes DEF InHalf, Whole
<1> HIDE DEF C
<1>2. p \in Bytes
  BY <1>1, Join
<1> HIDE DEF p
<1>3. a - Len(x) \in Nat /\ p = Upto(a - Len(x)) /\ p \o << >> = p
  <2>1. a - Len(x) \in Nat /\ p = Upto(a - Len(x))
    BY <1>1, <1>2, UptoPrefix
  <2>2. p \o << >> = p
    BY <1>2, Join
  <2>3. QED
    BY <2>1, <2>2
<1>4. << >> \in Seq(Marks)
  OBVIOUS
<1>5. t \o C \o << >> = Upto(a - Len(x))
  BY <1>3, Zenon DEF p
<1>6. QED
  BY <1>1, <1>3, <1>4, <1>5 DEF InHalf, C

LEMMA InArrived ==
    ASSUME NEW r, NEW x, NEW t, NEW a, InHalf(r, x, t, a)
    PROVE  InHalf(r, Append(x, a + 1), t, a + 1)
<1> DEFINE C == RB!Contents(r)
           p == t \o C
<1>1. /\ x \in Seq(Marks) /\ t \in Seq(Marks) /\ C \in Seq(Marks) /\ a \in Nat /\ Whole(r)
      /\ x \in Bytes /\ t \in Bytes /\ C \in Bytes /\ p \o x = Upto(a)
  BY MarksAreBytes DEF InHalf, Whole
<1> HIDE DEF C
<1>2. p \in Bytes
  BY <1>1, Join
<1> HIDE DEF p
<1>3. a + 1 \in Marks /\ a + 1 \in Nat
  BY <1>1 DEF Marks, Junk
<1> DEFINE q == << a + 1 >>
<1>4. q \in Bytes /\ q \in Seq(Marks) /\ Append(x, a + 1) = x \o q
  BY <1>1, <1>3 DEF Bytes
<1>5. Append(x, a + 1) \in Seq(Marks)
  BY <1>1, <1>3
<1>6. q = After(a, 1)
  <2>1. q = [i \in 1 .. 1 |-> a + 1]
    OBVIOUS
  <2>2. \A i \in 1 .. 1 : a + i = a + 1
    OBVIOUS
  <2>3. QED
    BY <2>1, <2>2 DEF After
<1> HIDE DEF q
<1>7. p \o (x \o q) = (p \o x) \o q
  BY <1>1, <1>2, <1>4, Joins
<1>8. Upto(a) \o q = Upto(a + 1)
  <2>1. PICK m \in Nat : m = 1
    OBVIOUS
  <2>2. Upto(a) \o After(a, m) = Upto(a + m)
    BY <1>1, UptoMore
  <2>3. QED
    BY <1>6, <2>1, <2>2
<1>9. t \o C \o Append(x, a + 1) = Upto(a + 1)
  BY <1>1, <1>4, <1>7, <1>8, Zenon DEF p
<1>10. QED
  BY <1>1, <1>3, <1>5, <1>9 DEF InHalf, C

\* Increasing, up to n.
Climbs(out, n) ==
    /\ \A i \in 1 .. Len(out) : out[i] <= n
    /\ \A i \in 1 .. Len(out) - 1 : out[i] < out[i + 1]

LEMMA ClimbsPrefix ==
    ASSUME NEW p \in Bytes, NEW q \in Bytes, NEW n \in Nat, Climbs(p \o q, n)
    PROVE  Climbs(p, n)
<1>1. PICK k \in Nat, m \in Nat : k = Len(p) /\ m = Len(q)
  BY DEF Bytes
<1> DEFINE s == p \o q
<1>2. Len(s) = k + m
  BY <1>1, Join
<1>3. \A i \in 1 .. k + m : s[i] = IF i <= k THEN p[i] ELSE q[i - k]
  <2>1. \A i \in 1 .. Len(p) + Len(q) : s[i] = IF i <= Len(p) THEN p[i] ELSE q[i - Len(p)]
    BY ConcatProperties DEF Bytes
  <2>2. QED
    BY <1>1, <2>1
<1> HIDE DEF s
<1>4. /\ \A i \in 1 .. k + m : s[i] <= n
      /\ \A i \in 1 .. (k + m) - 1 : s[i] < s[i + 1]
  BY <1>2 DEF Climbs, s
<1>5. ASSUME NEW i \in 1 .. k PROVE p[i] <= n
  BY <1>3, <1>4
<1>6. ASSUME NEW i \in 1 .. k - 1 PROVE p[i] < p[i + 1]
  <2>1. i \in 1 .. k + m /\ i + 1 \in 1 .. k + m /\ i <= k /\ i + 1 <= k /\ i \in 1 .. (k + m) - 1
    OBVIOUS
  <2>2. s[i] = p[i] /\ s[i + 1] = p[i + 1]
    BY <1>3, <2>1
  <2>3. QED
    BY <1>4, <2>1, <2>2
<1>7. QED
  BY <1>1, <1>5, <1>6 DEF Climbs

LEMMA ClimbsMore ==
    ASSUME NEW p \in Bytes, NEW n \in Nat, NEW m \in Nat, Climbs(p, n)
    PROVE  Climbs(p \o After(n, m), n + m)
<1> DEFINE q == After(n, m)
           s == p \o q
<1>1. PICK k \in Nat : k = Len(p)
  BY DEF Bytes
<1>2. q \in Bytes /\ Len(q) = m /\ \A i \in 1 .. m : q[i] = n + i
  BY AfterIs
<1> HIDE DEF q
<1>3. Len(s) = k + m
  BY <1>1, <1>2, Join
<1>4. \A i \in 1 .. k + m : s[i] = IF i <= k THEN p[i] ELSE q[i - k]
  <2>1. \A i \in 1 .. Len(p) + Len(q) : s[i] = IF i <= Len(p) THEN p[i] ELSE q[i - Len(p)]
    BY <1>2, ConcatProperties DEF Bytes
  <2>2. QED
    BY <1>1, <1>2, <2>1
<1> HIDE DEF s
<1>5. /\ \A i \in 1 .. k : p[i] <= n
      /\ \A i \in 1 .. k - 1 : p[i] < p[i + 1]
  BY <1>1 DEF Climbs
<1>6. \A i \in 1 .. k : s[i] = p[i]
  BY <1>4
<1>7. ASSUME NEW i \in k + 1 .. k + m PROVE s[i] = n + (i - k)
  <2>1. i \in 1 .. k + m /\ ~(i <= k) /\ i - k \in 1 .. m
    OBVIOUS
  <2>2. s[i] = q[i - k]
    BY <1>4, <2>1
  <2>3. QED
    BY <1>2, <2>1, <2>2
<1>8. ASSUME NEW i \in 1 .. k + m PROVE s[i] <= n + m
  <2>1. CASE i <= k
    <3>1. i \in 1 .. k /\ p[i] \in Nat
      <4>1. i \in 1 .. k
        BY <2>1
      <4>2. QED
        BY <1>1, <4>1, ElementOfSeq DEF Bytes
    <3>2. s[i] = p[i] /\ p[i] <= n
      BY <1>5, <1>6, <3>1
    <3>3. QED
      BY <3>1, <3>2
  <2>2. CASE ~(i <= k)
    <3>1. i \in k + 1 .. k + m
      BY <2>2
    <3>2. s[i] = n + (i - k)
      BY <1>7, <3>1
    <3>3. QED
      BY <3>2
  <2>3. QED
    BY <2>1, <2>2
<1>9. ASSUME NEW i \in 1 .. (k + m) - 1 PROVE s[i] < s[i + 1]
  <2>1. CASE i + 1 <= k
    <3>1. i \in 1 .. k /\ i + 1 \in 1 .. k /\ i \in 1 .. k - 1
      BY <2>1
    <3>2. QED
      BY <1>5, <1>6, <3>1
  <2>2. CASE i = k
    <3>1. i \in 1 .. k /\ i + 1 \in k + 1 .. k + m
      BY <2>2
    <3>2. s[i] = p[i] /\ p[i] <= n
      BY <1>5, <1>6, <3>1
    <3>3. p[i] \in Nat
      BY <1>1, <3>1, ElementOfSeq DEF Bytes
    <3>4. s[i + 1] = n + ((i + 1) - k)
      BY <1>7, <3>1
    <3>5. s[i + 1] = n + 1
      BY <2>2, <3>4
    <3>6. QED
      BY <3>2, <3>3, <3>5
  <2>3. CASE i > k
    <3>1. i \in k + 1 .. k + m /\ i + 1 \in k + 1 .. k + m
      BY <2>3
    <3>2. s[i] = n + (i - k) /\ s[i + 1] = n + ((i + 1) - k)
      BY <1>7, <3>1
    <3>3. QED
      BY <3>2
  <2>4. QED
    BY <2>1, <2>2, <2>3
<1>10. QED
  BY <1>3, <1>8, <1>9 DEF Climbs, s, q

\* What the driver has accepted and the write buffer are what was written, in
\* order, and all of it unless something was dropped.
OutHalf(ring, gone, n, dropped) ==
    /\ Whole(ring) /\ gone \in Seq(Marks) /\ n \in Nat
    /\ Climbs(gone \o RB!Contents(ring), n)
    /\ ~dropped => gone \o RB!Contents(ring) = Upto(n)

LEMMA OutFacts ==
    ASSUME NEW r, NEW s, NEW o, NEW c, OutHalf(r, s, o, c)
    PROVE  /\ Whole(r) /\ s \in Seq(Marks) /\ s \in Bytes /\ RB!Contents(r) \in Bytes
           /\ RB!Contents(r) \in Seq(Marks) /\ o \in Nat
           /\ s \o RB!Contents(r) \in Seq(Marks) /\ s \o RB!Contents(r) \in Bytes
<1>1. /\ Whole(r) /\ s \in Seq(Marks) /\ RB!Contents(r) \in Seq(Marks) /\ o \in Nat
  BY DEF OutHalf, Whole
<1>2. s \in Bytes /\ RB!Contents(r) \in Bytes
  BY <1>1, MarksAreBytes
<1>3. s \o RB!Contents(r) \in Seq(Marks) /\ s \o RB!Contents(r) \in Bytes
  BY <1>1, <1>2, MarksJoin, Join
<1>4. QED
  BY <1>1, <1>2, <1>3

\* The driver takes k bytes of the first block.
LEMMA OutSent ==
    ASSUME NEW r, NEW s, NEW o, NEW c, OutHalf(r, s, o, c),
           NEW k \in Nat, k <= RB!NextDataBlockSize(r)
    PROVE  OutHalf(RB!Free(r, k), s \o SubSeq(RB!Contents(r), 1, k), o, c)
<1> DEFINE C == RB!Contents(r)
           f == RB!Free(r, k)
           D == RB!Contents(f)
           p == SubSeq(r.blocks[1], r.head + 1, r.head + k)
<1>1. /\ Whole(r) /\ s \in Seq(Marks) /\ s \in Bytes /\ C \in Bytes /\ C \in Seq(Marks) /\ o \in Nat
  BY OutFacts
<1>2. p \in Bytes /\ Len(p) = k /\ Sized(f) /\ Solid(f) /\ C = p \o D
  BY <1>1, FreedPart DEF Whole
<1>3. D \in Bytes
  BY <1>2, ContentsAre DEF Sized
<1> HIDE DEF C, f, D, p
<1>4. SubSeq(p \o D, 1, Len(p)) = p
  BY <1>2, <1>3, Beginning
<1>5. SubSeq(C, 1, k) = p
  BY <1>2, <1>4
<1>6. p \in Seq(Marks) /\ D \in Seq(Marks)
  BY <1>1, <1>2, <1>3, MarksJoin
<1>7. s \o p \in Seq(Marks)
  BY <1>1, <1>2, <1>6, MarksJoin
<1>8. (s \o p) \o D = s \o C
  <2>1. (s \o p) \o D = s \o (p \o D)
    BY <1>1, <1>2, <1>3, Joins
  <2>2. QED
    BY <1>2, <2>1, Zenon
<1>9. Whole(f)
  BY <1>2, <1>6 DEF Whole, D
<1>10. Climbs(s \o C, o) /\ (~c => s \o C = Upto(o))
  BY DEF OutHalf, C
<1>11. Climbs((s \o p) \o D, o) /\ (~c => (s \o p) \o D = Upto(o))
  BY <1>8, <1>10, Zenon
<1>12. OutHalf(f, s \o p, o, c)
  BY <1>1, <1>7, <1>9, <1>11, Zenon DEF OutHalf, D
<1>13. QED
  BY <1>5, <1>12, Zenon DEF C, f

\* m more bytes are written to the buffer ...
LEMMA OutPut ==
    ASSUME NEW r, NEW s, NEW o, NEW c, OutHalf(r, s, o, c), NEW m \in Nat
    PROVE  OutHalf(RB!Put(r, After(o, m)), s, o + m, c)
<1> DEFINE C == RB!Contents(r)
           w == RB!Put(r, After(o, m))
           d == After(o, m)
<1>1. /\ Whole(r) /\ s \in Seq(Marks) /\ s \in Bytes /\ C \in Bytes /\ C \in Seq(Marks) /\ o \in Nat
      /\ s \o C \in Bytes
  BY OutFacts
<1>2. d \in Bytes /\ d \in Seq(Marks)
  BY <1>1, AfterIs
<1>3. Sized(w) /\ Solid(w) /\ RB!Contents(w) = C \o d
  BY <1>1, <1>2, Written DEF Whole
<1> HIDE DEF w
<1>4. Climbs(s \o C, o) /\ (~c => s \o C = Upto(o))
  BY DEF OutHalf
<1>5. Climbs((s \o C) \o d, o + m)
  BY <1>1, <1>4, ClimbsMore
<1>6. ~c => (s \o C) \o d = Upto(o + m)
  BY <1>1, <1>4, UptoMore
<1> HIDE DEF C, d
<1>7. (s \o C) \o d = s \o (C \o d)
  BY <1>1, <1>2, Joins
<1>8. Climbs(s \o RB!Contents(w), o + m) /\ (~c => s \o RB!Contents(w) = Upto(o + m))
  BY <1>3, <1>5, <1>6, <1>7, Zenon
<1>9. C \o d \in Seq(Marks)
  BY <1>1, <1>2, MarksJoin
<1>10. Whole(w)
  BY <1>3, <1>9 DEF Whole
<1>11. o + m \in Nat
  BY <1>1
<1>12. QED
  BY <1>1, <1>8, <1>10, <1>11, Zenon DEF OutHalf, w

\* ... or to the driver, which takes k of them.
LEMMA OutRaw ==
    ASSUME NEW s, NEW o, NEW c, OutHalf(RB!EmptyRing, s, o, c),
           NEW m \in Nat, NEW k \in Nat, k <= m
    PROVE  OutHalf(RB!EmptyRing, s \o SubSeq(After(o, m), 1, k), o + k, c)
<1>1. s \in Seq(Marks) /\ s \in Bytes /\ o \in Nat
  BY OutFacts
<1>2. s \o << >> = s
  BY <1>1, Join
<1>3. Climbs(s, o) /\ (~c => s = Upto(o))
  BY <1>2, EmptyWhole, Zenon DEF OutHalf
<1> DEFINE d == After(o, k)
           p == SubSeq(After(o, m), 1, k)
<1>4. /\ d \in Bytes /\ d \in Seq(Marks) /\ Len(d) = k /\ \A i \in 1 .. k : d[i] = o + i
  BY <1>1, AfterIs
<1>5. p = d
  <2> DEFINE a == After(o, m)
  <2>1. a \in Bytes /\ Len(a) = m /\ \A i \in 1 .. m : a[i] = o + i
    BY <1>1, AfterIs
  <2> HIDE DEF a, d
  <2>2. PICK z \in Nat : z = 0
    OBVIOUS
  <2>3. z <= k /\ k <= Len(a) /\ p = SubSeq(a, z + 1, k)
    BY <2>1, <2>2 DEF a
  <2> HIDE DEF p
  <2>4. SubSeq(a, z + 1, k) \in Bytes /\ Len(SubSeq(a, z + 1, k)) = k - z
    BY <2>1, <2>3, Slice
  <2>5. \A i \in 1 .. k - z : SubSeq(a, z + 1, k)[i] = a[z + i]
    BY <2>1, <2>3, Slice
  <2>6. k - z = k /\ \A i \in 1 .. k : z + i = i /\ i \in 1 .. m
    BY <2>2
  <2>7. p \in Bytes /\ Len(p) = k
    BY <2>3, <2>4, <2>6
  <2>8. \A i \in 1 .. k : p[i] = a[i]
    BY <2>3, <2>5, <2>6
  <2>9. \A i \in 1 .. k : p[i] = d[i]
    BY <1>4, <2>1, <2>6, <2>8
  <2>10. QED
    BY <1>4, <2>7, <2>9, SeqEqual DEF Bytes
<1>6. Climbs(s \o d, o + k)
  BY <1>1, <1>3, ClimbsMore
<1>7. ~c => s \o d = Upto(o + k)
  BY <1>1, <1>3, UptoMore
<1>8. s \o d \in Seq(Marks) /\ s \o d \in Bytes /\ o + k \in Nat
  BY <1>1, <1>4, MarksJoin, Join
<1> HIDE DEF d, p
<1>9. (s \o d) \o << >> = s \o d
  BY <1>8, Join
<1>10. OutHalf(RB!EmptyRing, s \o d, o + k, c)
  BY <1>6, <1>7, <1>8, <1>9, EmptyWhole, Zenon DEF OutHalf
<1>11. QED
  BY <1>5, <1>10 DEF p

\* The write buffer is thrown away.
LEMMA OutDropped ==
    ASSUME NEW r, NEW s, NEW o, NEW c, OutHalf(r, s, o, c),
           NEW d, c => d, ~RB!IsEmpty(r) => d
    PROVE  OutHalf(RB!EmptyRing, s, o, d)
<1> DEFINE C == RB!Contents(r)
<1>1. /\ Whole(r) /\ s \in Seq(Marks) /\ s \in Bytes /\ C \in Bytes /\ o \in Nat
  BY OutFacts
<1>2. s \o << >> = s
  BY <1>1, Join
<1>3. Climbs(s \o C, o) /\ (~c => s \o C = Upto(o))
  BY DEF OutHalf
<1>4. ~d => C = << >>
  <2>1. RB!IsEmpty(r) => Len(C) = 0
    BY <1>1, WholeFacts
  <2>2. QED
    BY <1>1, <2>1 DEF Bytes
<1> HIDE DEF C
<1>5. Climbs(s, o)
  BY <1>1, <1>3, ClimbsPrefix
<1>6. ~d => s = Upto(o)
  BY <1>2, <1>3, <1>4
<1>7. QED
  BY <1>1, <1>2, <1>5, <1>6, EmptyWhole, Zenon DEF OutHalf

-----------------------------------------------------------------------------
(* The bytes that go through a port.                                       *)

\* The buffers are whole, and with what the program and the driver have had
\* they are what arrived and what was written; a port that is closed or
\* unbuffered has nothing in them.
BytesInv ==
    /\ InHalf(port.readBuf, rx, taken, arrived)
    /\ OutHalf(port.writeBuf, sent, offered, cut)
    /\ port.readMax \in Nat
    /\ ~IsOpen \/ ~port.buffered =>
          port.readBuf = RB!EmptyRing /\ port.writeBuf = RB!EmptyRing

\* The fields of a port that bytes go through.
Bears(po, max, buffered, in, out) ==
    /\ DOMAIN po = PortFields
    /\ po.readMax = max /\ po.buffered = buffered
    /\ po.readBuf = in /\ po.writeBuf = out

LEMMA Borne ==
    ASSUME NEW po, NEW max, NEW buf, NEW in, NEW out, Bears(po, max, buf, in, out)
    PROVE  /\ Bears(Left(po), max, buf, in, out)
           /\ Bears(FlushLeft(po), max, buf, in, out)
           /\ \A b : Bears(setReadNotificationEnabled(po, b), max, buf, in, out)
           /\ \A b : Bears([po EXCEPT !.called = b], max, buf, in, out)
           /\ \A b : Bears([po EXCEPT !.emitR = b], max, buf, in, out)
           /\ \A b : Bears([po EXCEPT !.emitW = b], max, buf, in, out)
           /\ \A ring : Bears([po EXCEPT !.readBuf = ring], max, buf, ring, out)
           /\ \A ring : Bears([po EXCEPT !.writeBuf = ring], max, buf, in, ring)
<1> USE DEF Bears, PortFields
<1>1. Bears(Left(po), max, buf, in, out)
  BY DEF Left
<1>2. Bears(FlushLeft(po), max, buf, in, out)
  BY DEF FlushLeft, setWriteNotificationEnabled
<1>3. \A b : Bears(setReadNotificationEnabled(po, b), max, buf, in, out)
  BY DEF setReadNotificationEnabled
<1>4. QED
  BY <1>1, <1>2, <1>3

LEMMA EnteredBears ==
    ASSUME NEW max, NEW buf, NEW in, NEW out, Bears(port, max, buf, in, out)
    PROVE  Bears(Entered, max, buf, in, out)
BY DEF Bears, PortFields, Entered

\* The bytes of a port that stays open or stays closed.
LEMMA BytesAgain ==
    ASSUME NEW in, NEW out, Bears(port', port'.readMax, port.buffered, in, out),
           InHalf(in, rx', taken', arrived'), OutHalf(out, sent', offered', cut'),
           port'.readMax \in Nat, IsOpen' = IsOpen,
           ~IsOpen \/ ~port.buffered => in = RB!EmptyRing /\ out = RB!EmptyRing
    PROVE  BytesInv'
BY DEF Bears, BytesInv

LEMMA AskedIs ==
    ASSUME BytesInv, ~Full(port)
    PROVE  Asked \in Nat
<1>1. port.readMax \in Nat /\ port.readBuf.size \in Nat /\ Len(rx) \in Nat
  BY InFacts, WholeFacts DEF BytesInv
<1>2. Wanted \in Nat
  BY <1>1 DEF Wanted
<1>3. port.readMax > 0 => port.readMax - port.readBuf.size \in Nat
  BY <1>1 DEF Full
<1>4. QED
  BY <1>2, <1>3 DEF Asked

LEMMA ReceivedIn ==
    ASSUME BytesInv, ~Full(port), NEW k \in Nat, k <= Len(rx), k <= Asked
    PROVE  InHalf(Received(k), SubSeq(rx, k + 1, Len(rx)), taken, arrived)
<1>1. PICK n \in Nat : n = Asked
  BY AskedIs
<1>2. InHalf(port.readBuf, rx, taken, arrived)
  BY DEF BytesInv
<1>3. Received(k) =
         RB!Chop(RB!Fill(RB!Reserve(port.readBuf, n), n, SubSeq(rx, 1, k)), n - k)
  BY <1>1, Zenon DEF Received
<1>4. k <= n
  BY <1>1
<1>5. InHalf(RB!Chop(RB!Fill(RB!Reserve(port.readBuf, n), n, SubSeq(rx, 1, k)), n - k),
             SubSeq(rx, k + 1, Len(rx)), taken, arrived)
  BY <1>2, <1>4, InStored
<1>6. QED
  BY <1>3, <1>5, Zenon

LEMMA NothingReceived ==
    ASSUME BytesInv, ~Full(port), rx = << >>
    PROVE  InHalf(Received(0), rx, taken, arrived)
<1>1. PICK k \in Nat : k = 0
  OBVIOUS
<1>2. Len(rx) = k
  BY <1>1
<1>3. Asked \in Nat
  BY AskedIs
<1>4. k <= Len(rx) /\ k <= Asked
  BY <1>1, <1>2, <1>3
<1>5. InHalf(Received(k), SubSeq(rx, k + 1, Len(rx)), taken, arrived)
  BY <1>4, ReceivedIn
<1>6. SubSeq(rx, k + 1, Len(rx)) = rx
  <2> DEFINE q == SubSeq(rx, k + 1, Len(rx))
  <2>1. << >> \in Bytes
    BY DEF Bytes
  <2>2. k <= k /\ k <= Len(rx)
    BY <1>2
  <2>3. Len(SubSeq(rx, k + 1, k)) = k - k /\ SubSeq(rx, k + 1, k) \in Bytes
    BY <2>1, <2>2, Slice
  <2>4. q = SubSeq(rx, k + 1, k)
    BY <1>2
  <2> HIDE DEF q
  <2>5. Len(q) = 0 /\ q \in Bytes
    BY <2>3, <2>4
  <2>6. q = << >>
    BY <2>5 DEF Bytes
  <2>7. QED
    BY <2>6 DEF q
<1>7. QED
  BY <1>1, <1>5, <1>6

LEMMA CanReadBytes ==
    ASSUME IsPort(port), BytesInv, IsOpen, NEW caller, CanReadNotification(caller)
    PROVE  BytesInv'
<1> DEFINE max == port.readMax
           buf == port.buffered
           in == port.readBuf
           out == port.writeBuf
<1>1. Bears(port, max, buf, in, out)
  BY DEF Bears, IsPort
<1>2. Bears(Entered, max, buf, in, out)
  BY <1>1, EnteredBears
<1>3. /\ InHalf(in, rx, taken, arrived) /\ OutHalf(out, sent, offered, cut) /\ max \in Nat
      /\ ~buf => in = RB!EmptyRing /\ out = RB!EmptyRing
  BY DEF BytesInv
<1>4. /\ taken' = taken /\ arrived' = arrived /\ sent' = sent /\ offered' = offered
      /\ cut' = cut /\ IsOpen' = IsOpen
  BY DEF CanReadNotification, lockVars, IsOpen
<1>5. ASSUME NEW new, Bears(port', max, buf, new, out), InHalf(new, rx', taken, arrived),
             ~buf => new = RB!EmptyRing
      PROVE  BytesInv'
  <2>1. port'.readMax = max
    BY <1>5 DEF Bears
  <2>2. InHalf(new, rx', taken', arrived') /\ OutHalf(out, sent', offered', cut')
    BY <1>3, <1>4, <1>5
  <2>3. QED
    BY <1>3, <1>4, <1>5, <2>1, <2>2, BytesAgain
<1> HIDE DEF max, buf, in, out
<1>6. CASE CanReadRefuses(caller)
  <2>1. buf /\ rx' = rx
    BY <1>6 DEF CanReadRefuses, buf
  <2>2. CASE Full(port) /\ port' = [Entered EXCEPT !.called = FALSE]
    <3>1. Bears(port', max, buf, in, out)
      BY <1>2, <2>2, Borne
    <3>2. QED
      BY <1>3, <1>5, <2>1, <3>1
  <2>3. ASSUME ~Full(port), rx = << >>,
               port' = [Entered EXCEPT !.called = FALSE,
                                       !.readBuf = IF Wanted = 0 THEN @ ELSE Received(0)]
        PROVE  BytesInv'
    <3> DEFINE left == [Entered EXCEPT !.called = FALSE]
               new == IF Wanted = 0 THEN in ELSE Received(0)
    <3>1. Bears(left, max, buf, in, out)
      BY <1>2, Borne
    <3>2. port' = [left EXCEPT !.readBuf = new]
      <4>1. left.readBuf = in
        BY <3>1 DEF Bears
      <4>2. port' = [left EXCEPT !.readBuf = IF Wanted = 0 THEN @ ELSE Received(0)]
        BY <2>3, Zenon
      <4> HIDE DEF left
      <4>3. QED
        BY <4>1, <4>2
    <3> HIDE DEF left, new
    <3>3. Bears(port', max, buf, new, out)
      BY <3>1, <3>2, Borne
    <3>4. InHalf(new, rx, taken, arrived)
      BY <1>3, <2>3, NothingReceived DEF new
    <3>5. QED
      BY <1>5, <2>1, <3>3, <3>4
  <2>4. QED
    BY <1>6, <2>2, <2>3 DEF CanReadRefuses
<1>7. ASSUME NEW k \in 1 .. Len(rx), CanReadBuffers(caller, k) PROVE BytesInv'
  <2>1. buf /\ ~Full(port) /\ k <= Asked /\ rx' = SubSeq(rx, k + 1, Len(rx))
    BY <1>7 DEF CanReadBuffers, buf, read
  <2>2. Len(rx) \in Nat
    BY <1>3, InFacts
  <2>3. k \in Nat /\ k <= Len(rx)
    BY <2>2
  <2>4. InHalf(Received(k), rx', taken, arrived)
    BY <2>1, <2>3, ReceivedIn
  <2> DEFINE filled == [Entered EXCEPT !.readBuf = Received(k)]
             b == filled.rdOn /\ ~Full(filled)
             po == setReadNotificationEnabled(filled, b)
  <2>5. port' = Left(po) \/ port' = [po EXCEPT !.emitR = TRUE]
    BY <1>7, Zenon DEF CanReadBuffers
  <2>6. Bears(filled, max, buf, Received(k), out)
    BY <1>2, Borne
  <2> HIDE DEF filled, b
  <2>7. Bears(po, max, buf, Received(k), out)
    BY <2>6, Borne
  <2> HIDE DEF po
  <2>8. Bears(port', max, buf, Received(k), out)
    <3>1. Bears(Left(po), max, buf, Received(k), out)
      BY <2>7, Borne
    <3>2. Bears([po EXCEPT !.emitR = TRUE], max, buf, Received(k), out)
      BY <2>7, Borne
    <3>3. QED
      BY <2>5, <3>1, <3>2, Zenon
  <2>9. QED
    BY <1>5, <2>1, <2>4, <2>8
<1>8. CASE CanReadUnbuffered(caller)
  <2>1. rx' = rx /\ (port' = [Entered EXCEPT !.emitR = TRUE] \/ port' = Left(Entered))
    BY <1>8 DEF CanReadUnbuffered
  <2>2. Bears(port', max, buf, in, out)
    BY <1>2, <2>1, Borne
  <2>3. QED
    BY <1>3, <1>5, <2>1, <2>2
<1>9. QED
  BY <1>6, <1>7, <1>8 DEF CanReadNotification

LEMMA FlushBytes ==
    ASSUME IsPort(port), BytesInv, IsOpen, NEW then, Flush(then)
    PROVE  BytesInv'
<1> DEFINE max == port.readMax
           buf == port.buffered
           in == port.readBuf
           out == port.writeBuf
<1>1. Bears(port, max, buf, in, out)
  BY DEF Bears, IsPort
<1>2. /\ InHalf(in, rx, taken, arrived) /\ OutHalf(out, sent, offered, cut) /\ max \in Nat
      /\ ~buf => in = RB!EmptyRing /\ out = RB!EmptyRing
  BY DEF BytesInv
<1>3. /\ taken' = taken /\ arrived' = arrived /\ rx' = rx /\ offered' = offered
      /\ IsOpen' = IsOpen
  BY DEF Flush, lockVars, IsOpen
<1>4. ASSUME NEW new, Bears(port', max, buf, in, new), OutHalf(new, sent', offered, cut'),
             ~buf => new = RB!EmptyRing
      PROVE  BytesInv'
  <2>1. port'.readMax = max
    BY <1>4 DEF Bears
  <2>2. InHalf(in, rx', taken', arrived') /\ OutHalf(new, sent', offered', cut')
    BY <1>2, <1>3, <1>4
  <2>3. QED
    BY <1>2, <1>3, <1>4, <2>1, <2>2, BytesAgain
<1> HIDE DEF max, buf, in, out
<1>5. ASSUME NEW k \in 0 .. BlockSize, FlushWrites(then, k) PROVE BytesInv'
  <2> DEFINE new == RB!Free(out, k)
             po == Took(k)
  <2>1. /\ ~RB!IsEmpty(out) /\ k \in 0 .. RB!NextDataBlockSize(out)
        /\ sent' = sent \o SubSeq(RB!Contents(out), 1, k) /\ cut' = cut
        /\ port' = [po EXCEPT !.emitW = TRUE] \/ port' = FlushLeft(po)
    BY <1>5, Zenon DEF FlushWrites, write, out
  <2>2. k \in Nat /\ k <= RB!NextDataBlockSize(out)
    <3>1. RB!NextDataBlockSize(out) \in Nat
      BY <1>2, OutFacts, WholeFacts, NextBlock
    <3>2. QED
      BY <2>1, <3>1
  <2>3. OutHalf(new, sent', offered, cut')
    BY <1>2, <2>1, <2>2, OutSent
  <2>4. po = [port EXCEPT !.writeBuf = new]
    BY DEF Took, out
  <2> HIDE DEF new, po
  <2>5. Bears(po, max, buf, in, new)
    BY <1>1, <2>4, Borne
  <2>6. Bears(port', max, buf, in, new)
    <3>1. Bears(FlushLeft(po), max, buf, in, new)
      BY <2>5, Borne
    <3>2. Bears([po EXCEPT !.emitW = TRUE], max, buf, in, new)
      BY <2>5, Borne
    <3>3. QED
      BY <2>1, <3>1, <3>2, Zenon
  <2>7. buf
    BY <1>2, <2>1 DEF RB!IsEmpty, RB!EmptyRing
  <2>8. QED
    BY <1>4, <2>3, <2>6, <2>7
<1>6. CASE FlushFails(then)
  <2> DEFINE po == [port EXCEPT !.writeBuf = RB!EmptyRing]
  <2>1. /\ sent' = sent /\ cut' = TRUE
        /\ port' = po \/ port' = FlushLeft(po)
    BY <1>6, Zenon DEF FlushFails
  <2>2. OutHalf(RB!EmptyRing, sent', offered, cut')
    BY <1>2, <2>1, OutDropped
  <2>3. Bears(po, max, buf, in, RB!EmptyRing)
    BY <1>1, Borne
  <2> HIDE DEF po
  <2>4. Bears(port', max, buf, in, RB!EmptyRing)
    BY <2>1, <2>3, Borne
  <2>5. QED
    BY <1>4, <2>2, <2>4
<1>7. CASE FlushNothing(then)
  <2>1. sent' = sent /\ cut' = cut /\ (port' = port \/ port' = FlushLeft(port))
    BY <1>7 DEF FlushNothing
  <2>2. Bears(port', max, buf, in, out)
    BY <1>1, <2>1, Borne
  <2>3. QED
    BY <1>2, <1>4, <2>1, <2>2
<1>8. QED
  BY <1>5, <1>6, <1>7 DEF Flush

LEMMA SameBytes ==
    ASSUME BytesInv, IsOpen' = IsOpen, UNCHANGED <<rx, taken, arrived, sent, offered, cut>>,
           NEW max \in Nat,
           Bears(port', max, port.buffered, port.readBuf, port.writeBuf)
    PROVE  BytesInv'
BY DEF Bears, BytesInv

LEMMA ReadDataBytes ==
    ASSUME IsPort(port), BytesInv, NEW n \in 1 .. 2, ReadData(n)
    PROVE  BytesInv'
<1> DEFINE in == port.readBuf
           out == port.writeBuf
           max == port.readMax
           buf == port.buffered
<1>1. Bears(port, max, buf, in, out)
  BY DEF Bears, IsPort
<1>2. /\ InHalf(in, rx, taken, arrived) /\ OutHalf(out, sent, offered, cut) /\ max \in Nat
      /\ ~buf => in = RB!EmptyRing /\ out = RB!EmptyRing
  BY DEF BytesInv
<1>3. /\ arrived' = arrived /\ offered' = offered /\ sent' = sent /\ cut' = cut
      /\ IsOpen' = IsOpen /\ IsOpen
  BY DEF ReadData, lockVars, IsOpen, InProgram
<1>4. ASSUME NEW new, Bears(port', max, buf, new, out), InHalf(new, rx', taken', arrived),
             ~buf => new = RB!EmptyRing
      PROVE  BytesInv'
  <2>1. port'.readMax = max
    BY <1>4 DEF Bears
  <2>2. InHalf(new, rx', taken', arrived') /\ OutHalf(out, sent', offered', cut')
    BY <1>2, <1>3, <1>4
  <2>3. QED
    BY <1>2, <1>3, <1>4, <2>1, <2>2, BytesAgain
<1>5. CASE buf
  <2> DEFINE x == IF n = 1 /\ ~RB!IsEmpty(in) THEN RB!GetChar(in) ELSE RB!Read(in, n)
  <2>1. /\ ~RB!IsEmpty(in) /\ port' = [port EXCEPT !.readBuf = x.ring]
        /\ taken' = taken \o x.data /\ rx' = rx
    BY <1>5, Zenon DEF ReadData, in, buf
  <2> HIDE DEF in, out, max, buf
  <2>2. Whole(in) /\ in.size \in Nat /\ in.size # 0
    BY <1>2, <2>1, InFacts, WholeFacts
  <2>3. /\ Whole(x.ring) /\ x.data \in Seq(Marks)
        /\ RB!Contents(in) = x.data \o RB!Contents(x.ring)
    <3>1. CASE n = 1
      <4>1. x = RB!GetChar(in) /\ in.size > 0
        BY <2>1, <2>2, <3>1
      <4> HIDE DEF x
      <4>2. /\ Whole(RB!GetChar(in).ring) /\ RB!GetChar(in).data \in Seq(Marks)
            /\ RB!Contents(in) = RB!GetChar(in).data \o RB!Contents(RB!GetChar(in).ring)
        BY <2>2, <4>1, CharRead
      <4>3. QED
        BY <4>1, <4>2
    <3>2. CASE n # 1
      <4> DEFINE m == RB!Smaller(in.size, n)
      <4>1. m \in Nat /\ m <= in.size
        BY <2>2 DEF RB!Smaller
      <4>2. x = RB!ReadLoop(in, m)
        BY <3>2 DEF RB!Read
      <4> HIDE DEF m, x
      <4>3. QED
        BY <2>2, <4>1, <4>2, Taking
    <3>3. QED
      BY <3>1, <3>2
  <2> HIDE DEF x
  <2>4. InHalf(x.ring, rx, taken \o x.data, arrived)
    BY <1>2, <2>3, InTaken
  <2>5. Bears(port', max, buf, x.ring, out)
    BY <1>1, <2>1, Borne
  <2>6. QED
    BY <1>4, <1>5, <2>1, <2>4, <2>5
<1>6. CASE ~buf
  <2> DEFINE k == IF n < Len(rx) THEN n ELSE Len(rx)
  <2>1. /\ taken' = taken \o SubSeq(rx, 1, k) /\ rx' = SubSeq(rx, k + 1, Len(rx))
        /\ port' = port
    BY <1>6, Zenon DEF ReadData, read, buf
  <2> HIDE DEF in, out, max, buf
  <2>2. Len(rx) \in Nat
    BY <1>2, InFacts
  <2>3. k \in Nat /\ k <= Len(rx)
    BY <2>2
  <2> HIDE DEF k
  <2>4. InHalf(RB!EmptyRing, rx', taken', arrived)
    BY <1>2, <1>6, <2>1, <2>3, InRaw
  <2>5. Bears(port', max, buf, in, out) /\ in = RB!EmptyRing
    BY <1>1, <1>2, <1>6, <2>1
  <2>6. QED
    BY <1>4, <2>4, <2>5
<1>7. QED
  BY <1>5, <1>6

LEMMA WriteDataBytes ==
    ASSUME IsPort(port), BytesInv, NEW n \in 1 .. 2, WriteData(n)
    PROVE  BytesInv'
<1> DEFINE in == port.readBuf
           out == port.writeBuf
           max == port.readMax
           buf == port.buffered
<1>1. Bears(port, max, buf, in, out)
  BY DEF Bears, IsPort
<1>2. /\ InHalf(in, rx, taken, arrived) /\ OutHalf(out, sent, offered, cut) /\ max \in Nat
      /\ ~buf => in = RB!EmptyRing /\ out = RB!EmptyRing
  BY DEF BytesInv
<1>3. /\ arrived' = arrived /\ rx' = rx /\ taken' = taken /\ cut' = cut
      /\ IsOpen' = IsOpen /\ IsOpen
  BY DEF WriteData, lockVars, IsOpen, InProgram
<1>4. NextBytes(n) = After(offered, n) /\ n \in Nat
  BY DEF NextBytes, After
<1>5. ASSUME NEW new, Bears(port', max, buf, in, new), OutHalf(new, sent', offered', cut),
             ~buf => new = RB!EmptyRing
      PROVE  BytesInv'
  <2>1. port'.readMax = max
    BY <1>5 DEF Bears
  <2>2. InHalf(in, rx', taken', arrived') /\ OutHalf(new, sent', offered', cut')
    BY <1>2, <1>3, <1>5
  <2>3. QED
    BY <1>2, <1>3, <1>5, <2>1, <2>2, BytesAgain
<1>6. CASE buf
  <2> DEFINE new == RB!Put(out, After(offered, n))
             po == [port EXCEPT !.writeBuf = new]
  <2>1. /\ offered' = offered + n /\ sent' = sent
        /\ port' = [port EXCEPT !.writeBuf = RB!Put(@, NextBytes(n)), !.wrOn = TRUE]
    BY <1>6 DEF WriteData, buf
  <2>2. port' = setWriteNotificationEnabled(po, TRUE)
    BY <1>4, <2>1 DEF setWriteNotificationEnabled
  <2> HIDE DEF new
  <2>3. Bears(po, max, buf, in, new)
    BY <1>1, Borne
  <2>4. Bears(port', max, buf, in, new)
    BY <2>2, <2>3 DEF Bears, PortFields, setWriteNotificationEnabled
  <2> HIDE DEF in, out, max, buf, po
  <2>5. OutHalf(RB!Put(out, After(offered, n)), sent, offered + n, cut)
    BY <1>2, <1>4, OutPut
  <2>6. QED
    BY <1>5, <1>6, <2>1, <2>4, <2>5 DEF new
<1>7. CASE ~buf
  <2>1. PICK k \in 0 .. n : /\ offered' = offered + k
                            /\ sent' = sent \o SubSeq(NextBytes(n), 1, k) /\ port' = port
    BY <1>7 DEF WriteData, write, buf
  <2> HIDE DEF in, out, max, buf
  <2>2. k \in Nat /\ k <= n
    BY <1>4
  <2>3. OutHalf(RB!EmptyRing, sent \o SubSeq(After(offered, n), 1, k), offered + k, cut)
    BY <1>2, <1>4, <1>7, <2>2, OutRaw
  <2>4. OutHalf(out, sent', offered', cut) /\ out = RB!EmptyRing
    BY <1>2, <1>4, <1>7, <2>1, <2>3
  <2>5. QED
    BY <1>1, <1>5, <2>1, <2>4
<1>8. QED
  BY <1>6, <1>7

\* clearBuffers() of a port with the buffers of this one.
LEMMA Thrown ==
    ASSUME BytesInv, NEW po, po.readBuf = port.readBuf, po.writeBuf = port.writeBuf,
           DOMAIN po = PortFields, po.readMax = port.readMax,
           ClearBuffers(po, rx), rx' = << >>,
           UNCHANGED <<arrived, offered, sent>>
    PROVE  BytesInv'
<1>1. /\ port' = [po EXCEPT !.readBuf = RB!EmptyRing, !.writeBuf = RB!EmptyRing]
      /\ taken' = taken \o RB!Contents(port.readBuf) \o rx
      /\ cut' = (cut \/ ~RB!IsEmpty(port.writeBuf))
  BY DEF ClearBuffers
<1>2. /\ port'.readBuf = RB!EmptyRing /\ port'.writeBuf = RB!EmptyRing
      /\ port'.readMax = port.readMax
  BY <1>1 DEF PortFields
<1>3. /\ InHalf(port.readBuf, rx, taken, arrived) /\ OutHalf(port.writeBuf, sent, offered, cut)
      /\ port.readMax \in Nat
  BY DEF BytesInv
<1>4. InHalf(RB!EmptyRing, << >>, taken', arrived)
  BY <1>1, <1>3, InDropped
<1>5. OutHalf(RB!EmptyRing, sent, offered, cut')
  <2>1. (cut => cut') /\ (~RB!IsEmpty(port.writeBuf) => cut')
    BY <1>1
  <2>2. QED
    BY <1>3, <2>1, OutDropped
<1>6. QED
  BY <1>2, <1>3, <1>4, <1>5 DEF BytesInv

LEMMA ProgramBytes ==
    ASSUME EngineTypeOK, IsPort(port), BytesInv, Program
    PROVE  BytesInv'
<1>1. Bears(port, port.readMax, port.buffered, port.readBuf, port.writeBuf) /\ port.readMax \in Nat
  BY DEF Bears, IsPort, BytesInv
<1>2. CASE FlushCalled
  BY <1>2, FlushBytes DEF FlushCalled, InProgram
<1>3. CASE Reset
  BY <1>3, Thrown DEF Reset, IsPort
<1>4. ASSUME NEW size \in conf.sizes, SetReadBufferSize(size) PROVE BytesInv'
  <2>1. size \in Nat
    BY SizesAreNumbers DEF EngineTypeOK
  <2>2. Bears(port', size, port.buffered, port.readBuf, port.writeBuf)
    BY <1>1, <1>4 DEF SetReadBufferSize, Bears, PortFields
  <2>3. UNCHANGED <<rx, taken, arrived, sent, offered, cut>> /\ IsOpen' = IsOpen
    BY <1>4 DEF SetReadBufferSize, lockVars, IsOpen
  <2>4. QED
    BY <2>1, <2>2, <2>3, SameBytes
<1>5. CASE WaitForReadyRead \/ WaitForBytesWritten
  <2>1. Bears(port', port.readMax, port.buffered, port.readBuf, port.writeBuf)
    <3>1. port' = setReadNotificationEnabled(port, FALSE) \/ port' = port
      BY <1>5 DEF WaitForReadyRead, WaitForBytesWritten
    <3>2. Bears(setReadNotificationEnabled(port, FALSE), port.readMax, port.buffered,
                port.readBuf, port.writeBuf)
      BY <1>1, Borne
    <3>3. QED
      BY <1>1, <3>1, <3>2, Zenon
  <2>2. UNCHANGED <<rx, taken, arrived, sent, offered, cut>> /\ IsOpen' = IsOpen
    BY <1>5 DEF WaitForReadyRead, WaitForBytesWritten, lockVars, IsOpen
  <2>3. QED
    BY <1>1, <2>1, <2>2, SameBytes
<1>6. QED
  BY <1>2, <1>3, <1>4, <1>5, ReadDataBytes, WriteDataBytes DEF Program

LEMMA WaitingBytes ==
    ASSUME NotifierInv, BytesInv, Waiting
    PROVE  BytesInv'
<1> SUFFICES ASSUME NEW wait \in {"waitR", "waitW"},
                    Select(wait) \/ SelectTimeout(wait) \/ Round(wait)
             PROVE  BytesInv'
  BY DEF Waiting
<1>1. stack # << >>
  BY DEF Select, SelectTimeout, Selecting, Round, RoundOfReading, RoundOfWriting, TopIs
<1>2. IsOpen /\ IsPort(port)
  BY <1>1 DEF NotifierInv
<1>3. CASE Select(wait) \/ SelectTimeout(wait)
  BY <1>3 DEF Select, SelectTimeout, BytesInv, lockVars, IsOpen
<1>4. CASE Round(wait)
  BY <1>2, <1>4, CanReadBytes, FlushBytes
     DEF Round, RoundOfReading, RoundOfWriting, CanWriteNotification
<1>5. QED
  BY <1>3, <1>4

LEMMA SlotReturnsBytes ==
    ASSUME IsPort(port), BytesInv, SlotReturns
    PROVE  BytesInv'
<1>1. Bears(port, port.readMax, port.buffered, port.readBuf, port.writeBuf) /\ port.readMax \in Nat
  BY DEF Bears, IsPort, BytesInv
<1>2. UNCHANGED <<rx, taken, arrived, sent, offered, cut>> /\ IsOpen' = IsOpen
  BY DEF SlotReturns, ReadyReadReturns, BytesWrittenReturns, lockVars, IsOpen
<1> DEFINE po == [port EXCEPT !.emitR = FALSE]
           qo == [port EXCEPT !.emitW = FALSE]
<1>3. port' = Left(po) \/ port' = port \/ port' = FlushLeft(qo)
  BY Zenon DEF SlotReturns, ReadyReadReturns, BytesWrittenReturns
<1>4. Bears(po, port.readMax, port.buffered, port.readBuf, port.writeBuf)
  BY <1>1, Borne
<1>5. Bears(qo, port.readMax, port.buffered, port.readBuf, port.writeBuf)
  BY <1>1, Borne
<1> HIDE DEF po, qo
<1>6. Bears(Left(po), port.readMax, port.buffered, port.readBuf, port.writeBuf)
  BY <1>4, Borne
<1>7. Bears(FlushLeft(qo), port.readMax, port.buffered, port.readBuf, port.writeBuf)
  BY <1>5, Borne
<1>8. Bears(port', port.readMax, port.buffered, port.readBuf, port.writeBuf)
  BY <1>1, <1>3, <1>6, <1>7, Zenon
<1>9. QED
  BY <1>1, <1>2, <1>8, SameBytes

LEMMA OpenCloseBytes ==
    ASSUME LockTypeOK, NotifierInv, BytesInv, Open \/ CloseFlushes \/ Close \/ MeCrashes
    PROVE  BytesInv'
<1>1. IsPort(port) /\ DOMAIN port = PortFields
  BY DEF NotifierInv, IsPort
<1>2. CASE Open
  <2>1. ~IsOpen
    BY <1>2 DEF Open, OpenSettings, OpenDone, IsOpen
  <2>2. port.readBuf = RB!EmptyRing /\ port.writeBuf = RB!EmptyRing
    BY <2>1 DEF BytesInv
  <2>3. /\ port'.readBuf = RB!EmptyRing /\ port'.writeBuf = RB!EmptyRing
        /\ port'.readMax = port.readMax
    BY <1>1, <1>2 DEF Open, PortFields
  <2>4. UNCHANGED <<rx, taken, arrived, sent, offered, cut>>
    BY <1>2 DEF Open
  <2>5. QED
    BY <2>2, <2>3, <2>4 DEF BytesInv
<1>3. CASE CloseFlushes
  BY <1>1, <1>3, FlushBytes DEF CloseFlushes
<1>4. CASE Close
  <2> DEFINE po == [port EXCEPT !.rdOn = FALSE, !.wrOn = FALSE]
  <2>1. /\ ClearBuffers(po, rx) /\ rx' = << >> /\ UNCHANGED <<arrived, offered, sent>>
    BY <1>4 DEF Close
  <2>2. /\ po.readBuf = port.readBuf /\ po.writeBuf = port.writeBuf
        /\ DOMAIN po = PortFields /\ po.readMax = port.readMax
    BY <1>1 DEF PortFields
  <2> HIDE DEF po
  <2>3. QED
    BY <2>1, <2>2, Thrown
<1>5. CASE MeCrashes
  <2>1. /\ port' = NewPort /\ rx' = << >> /\ cut' = TRUE
        /\ taken' = taken \o RB!Contents(port.readBuf) \o rx
        /\ UNCHANGED <<arrived, offered, sent>>
    BY <1>5 DEF MeCrashes
  <2>2. /\ InHalf(port.readBuf, rx, taken, arrived)
        /\ OutHalf(port.writeBuf, sent, offered, cut)
    BY DEF BytesInv
  <2>3. InHalf(RB!EmptyRing, << >>, taken', arrived)
    BY <2>1, <2>2, InDropped
  <2>4. OutHalf(RB!EmptyRing, sent, offered, cut')
    BY <2>1, <2>2, OutDropped
  <2>5. /\ port'.readBuf = RB!EmptyRing /\ port'.writeBuf = RB!EmptyRing
        /\ port'.readMax = 0
    BY <2>1 DEF NewPort
  <2>6. port'.readMax \in Nat
    BY <2>5
  <2>7. InHalf(port'.readBuf, rx', taken', arrived')
    BY <2>1, <2>3, <2>5
  <2>8. OutHalf(port'.writeBuf, sent', offered', cut')
    BY <2>1, <2>4, <2>5
  <2>9. QED
    BY <2>5, <2>6, <2>7, <2>8 DEF BytesInv
<1>6. QED
  BY <1>2, <1>3, <1>4, <1>5

LEMMA BytesStep ==
    LockTypeOK /\ EngineTypeOK /\ NotifierInv /\ BytesInv /\ [PortNext]_portVars => BytesInv'
<1> SUFFICES ASSUME LockTypeOK, EngineTypeOK, NotifierInv, BytesInv, [PortNext]_portVars
             PROVE  BytesInv'
  OBVIOUS
<1>1. IsPort(port)
  BY DEF NotifierInv
<1>2. CASE ReadEvent \/ WriteEvent
  BY <1>1, <1>2, CanReadBytes, FlushBytes DEF ReadEvent, WriteEvent, CanWriteNotification
<1>3. CASE Program \/ Waiting \/ SlotReturns
  BY <1>1, <1>3, ProgramBytes, WaitingBytes, SlotReturnsBytes
<1>4. CASE Open \/ CloseFlushes \/ Close \/ MeCrashes
  BY <1>4, OpenCloseBytes
<1>5. ASSUME NEW p \in Procs, OtherStep(p) PROVE BytesInv'
  <2>1. IsOpen' = IsOpen
    BY <1>5, OtherStepOpen
  <2>2. UNCHANGED ioVars
    BY <1>5 DEF OtherStep
  <2>3. QED
    BY <2>1, <2>2 DEF BytesInv, ioVars
<1>6. CASE Arrive
  <2>1. /\ arrived' = arrived + 1 /\ rx' = Append(rx, arrived + 1) /\ IsOpen' = IsOpen
        /\ UNCHANGED <<port, taken, offered, sent, cut>>
    BY <1>6 DEF Arrive, lockVars, IsOpen
  <2>2. InHalf(port.readBuf, Append(rx, arrived + 1), taken, arrived + 1)
    BY InArrived DEF BytesInv
  <2>3. QED
    BY <2>1, <2>2 DEF BytesInv
<1>7. CASE Unplug
  <2>1. /\ arrived' = arrived - Len(rx) /\ rx' = << >> /\ IsOpen' = IsOpen
        /\ UNCHANGED <<port, taken, offered, sent, cut>>
    BY <1>7 DEF Unplug, lockVars, IsOpen
  <2>2. InHalf(port.readBuf, << >>, taken, arrived - Len(rx))
    BY InLost DEF BytesInv
  <2>3. QED
    BY <2>1, <2>2 DEF BytesInv
<1>8. CASE UNCHANGED portVars
  BY <1>8 DEF portVars, ioVars, lockVars, BytesInv, IsOpen
<1>9. QED
  BY <1>2, <1>3, <1>4, <1>5, <1>6, <1>7, <1>8 DEF PortNext

LEMMA InitBytes == PortInit => BytesInv
<1> SUFFICES ASSUME PortInit PROVE BytesInv
  OBVIOUS
<1>1. /\ port = NewPort /\ rx = << >> /\ arrived = 0 /\ taken = << >> /\ offered = 0
      /\ sent = << >> /\ cut = FALSE
  BY DEF PortInit
<1>2. port.readBuf = RB!EmptyRing /\ port.writeBuf = RB!EmptyRing /\ port.readMax = 0
  BY <1>1 DEF NewPort
<1>3. << >> \in Seq(Marks) /\ << >> \in Bytes /\ Upto(0) = << >>
  BY DEF Bytes, Upto
<1>4. << >> \o << >> = << >>
  BY <1>3, Join
<1>5. InHalf(RB!EmptyRing, << >>, << >>, 0)
  BY <1>3, <1>4, EmptyWhole, Zenon DEF InHalf
<1>6. Climbs(<< >>, 0)
  BY DEF Climbs
<1>7. OutHalf(RB!EmptyRing, << >>, 0, FALSE)
  BY <1>3, <1>4, <1>6, EmptyWhole, Zenon DEF OutHalf
<1>8. InHalf(port.readBuf, rx, taken, arrived)
  BY <1>1, <1>2, <1>5
<1>9. OutHalf(port.writeBuf, sent, offered, cut)
  BY <1>1, <1>2, <1>7
<1>10. QED
  BY <1>2, <1>8, <1>9 DEF BytesInv

LEMMA BytesInvKeeps == BytesInv => BytesKept
<1> SUFFICES ASSUME BytesInv PROVE BytesKept
  OBVIOUS
<1>1. Whole(port.readBuf) /\ Whole(port.writeBuf)
  BY DEF BytesInv, InHalf, OutHalf
<1>2. Newline \in Marks
  BY NewlineIsByte DEF Marks, Junk
<1>3. RingsAreQueues
  BY <1>1, <1>2, RingIsQueue DEF RingsAreQueues
<1>4. InOrder
  BY DEF BytesInv, InHalf, InOrder
<1>5. OutOrder
  BY DEF BytesInv, OutHalf, OutOrder, Climbs
<1>6. QED
  BY <1>3, <1>4, <1>5 DEF BytesKept

(* No byte is lost, repeated or moved on its way through the object, in    *)
(* either direction, whatever the size of the blocks, the limit on the     *)
(* read buffer, partial reads and writes, nested notifications and         *)
(* failures; and the buffers of every reachable state are well formed and  *)
(* do what queues of the same bytes do (readFromPort, flush, readData,     *)
(* writeData, RingBuffer).                                                 *)
THEOREM PortKeepsBytes == PortSpec => []BytesKept
<1> DEFINE I == SettingsInv /\ NotifierInv /\ BytesInv
<1>1. PortInit => I
  BY InitSettings, InitNotifier, InitBytes
<1>2. I /\ [PortNext]_portVars => I'
  BY SettingsStep, NotifierStep, BytesStep DEF SettingsInv, LockInv
<1>3. I => BytesKept
  BY BytesInvKeeps
<1>4. QED
  BY <1>1, <1>2, <1>3, PTL DEF PortSpec
=============================================================================
