-------------------------- MODULE BackupScheduler ---------------------------
(***************************************************************************)
(* The backup scheduler tick with its cursor and claim files               *)
(* (src/backup-management/application/run-backup-scheduler-tick.ts and     *)
(* infrastructure/file-backup-scheduler-state.ts).  The backup a tick runs *)
(* is BackupRuns' subject; here it is refused, succeeds or fails.          *)
(*                                                                         *)
(* One process.  At every await a call may fail, a schedule may be edited, *)
(* or the process may die.  Time is counted in ticks, the code's           *)
(* milliseconds, TicksPerMinute to a minute.  The clock of the host can be *)
(* set, so each reading of it is an arbitrary instant.                     *)
(***************************************************************************)
EXTENDS Integers, Sequences, FiniteSets, SequencesExt

CONSTANTS
    Targets,          \* target ids, naturals
    Windows,          \* [Targets -> minutes in which a window starts]
    TicksPerMinute,
    Limit,            \* occurrences one tick handles (32)
    LastInstant,      \* bound on the clock
    MaxLines          \* bound on the claim file

Instants == 0..LastInstant
Minute(t) == t \div TicksPerMinute
Occurrences == Targets \X Instants

\* A line of the claim file that an append left incomplete, and the same line
\* once a later append has been glued to it.
TornLine == <<0, 0>>
BadLine == <<0, 1>>
BadLines == {TornLine, BadLine}

NoCursor == -1
NotLoaded == -2

ASSUME BackupSchedulerAssumption ==
    /\ Targets \subseteq Nat \ {0} /\ IsFiniteSet(Targets)
    /\ Windows \in [Targets -> SUBSET Nat]
    /\ TicksPerMinute \in Nat \ {0} /\ Limit \in Nat \ {0}
    /\ LastInstant \in Nat /\ MaxLines \in Nat

VARIABLES
    scheduled,    \* targets whose policy has the mode "scheduled"
    cursor,       \* scheduler cursor file
    candidate,    \* the cursor's ".candidate" file exists
    claims,       \* the lines of the claim file
    cursorSeen,   \* memory of the cursor store
    claimsLoaded, claimsSeen,   \* memory of the claim store
    tick,         \* the tick in progress
    \* History:
    executions,   \* how often each occurrence was run
    origin,       \* the instant the cursor was last initialised to
    dropped,      \* occurrences a tick passed by because of its limit
    edited,       \* targets whose schedule was changed
    loadFailed    \* a load of the claim file has failed

files == <<cursor, candidate, claims>>
memory == <<cursorSeen, claimsLoaded, claimsSeen>>
policies == <<scheduled, edited>>
ghosts == <<executions, origin, dropped, loadFailed>>
vars == <<files, memory, policies, ghosts, tick>>
-----------------------------------------------------------------------------
Resting == [pc |-> "rest", at |-> 0, due |-> {}, cut |-> {}]

Init ==
    /\ scheduled = Targets
    /\ cursor = NoCursor /\ candidate = FALSE /\ claims = <<>>
    /\ cursorSeen = NotLoaded /\ claimsLoaded = FALSE /\ claimsSeen = {}
    /\ tick = Resting
    /\ executions = [o \in Occurrences |-> 0]
    /\ origin = NoCursor /\ dropped = {} /\ edited = {} /\ loadFailed = FALSE

\* A step that ends the tick without having written anything.
TickEnds == tick' = Resting /\ UNCHANGED <<files, memory, policies, ghosts>>
-----------------------------------------------------------------------------
\* dueOccurrences looks at one instant a minute, from just after the cursor.
Samples(from, to) ==
    {p \in Instants : p > from /\ p <= to /\ (p - from - 1) % TicksPerMinute = 0}

\* The occurrences that are due; a window that starts in the minute of a sample
\* makes the sampled instant itself due.
DueOccurrences(from, to) ==
    {o \in scheduled \X Samples(from, to) : Minute(o[2]) \in Windows[o[1]]}

\* The order they are run in.
Before(o, p) == o[2] < p[2] \/ (o[2] = p[2] /\ o[1] < p[1])

\* The first of them, at most Limit.
FirstOf(all) == {o \in all : Cardinality({p \in all : Before(p, o)}) < Limit}

\* The cursor as the store's memory has it once loaded.
CursorRead == IF cursorSeen = NotLoaded THEN cursor ELSE cursorSeen

\* execute(): the clock, the cursor, then the due occurrences.  Without a
\* cursor the tick only writes one.
TickBegins(at) ==
    /\ tick.pc = "rest"
    /\ cursorSeen' = CursorRead
    /\ LET all == IF CursorRead = NoCursor THEN {} ELSE DueOccurrences(CursorRead, at) IN
       tick' = [pc |-> IF FirstOf(all) = {} THEN "write" ELSE "claim", at |-> at,
                due |-> FirstOf(all), cut |-> all \ FirstOf(all)]
    /\ UNCHANGED <<files, claimsLoaded, claimsSeen, policies, ghosts>>

\* The cursor file cannot be read: the tick rejects, and the store, marked as
\* loaded before it read, goes on with the value null.
CursorLoadFails ==
    /\ tick.pc = "rest" /\ cursorSeen = NotLoaded /\ cursor # NoCursor
    /\ cursorSeen' = NoCursor
    /\ UNCHANGED <<files, claimsLoaded, claimsSeen, policies, ghosts, tick>>
-----------------------------------------------------------------------------
\* A line that load() stops at: damaged, or a claim it has already met.
Stops(i) == claims[i] \in BadLines \/ \E j \in 1..(i - 1) : claims[j] = claims[i]

Readable == \A i \in DOMAIN claims : ~Stops(i)

\* The claims before the first line that load() stops at.
ClaimsLoadable == {claims[i] : i \in {i \in DOMAIN claims : \A j \in 1..i : ~Stops(j)}}

\* load() rejects at that line, or before the first one because the file, sound
\* or not, cannot be read or is too large; and with it the tick.  The store,
\* marked as loaded before it read, goes on with the claims it had met.
ClaimsLoadFails ==
    /\ tick.pc = "claim" /\ ~claimsLoaded
    /\ \/ ~Readable /\ claimsSeen' = ClaimsLoadable
       \/ claimsSeen' = {}
    /\ claimsLoaded' = TRUE /\ loadFailed' = TRUE
    /\ tick' = Resting
    /\ UNCHANGED <<files, cursorSeen, policies, executions, origin, dropped>>

\* claim() gets past load().
Claiming == tick.pc = "claim" /\ (claimsLoaded \/ Readable)
ClaimsRead == IF claimsLoaded THEN claimsSeen ELSE ClaimsLoadable

\* The occurrence whose turn it is.
Turn(o) == o \in tick.due /\ \A p \in tick.due : ~Before(p, o)

\* After an occurrence: the next one, or the cursor.
NextOccurrence(o) ==
    [tick EXCEPT !.pc = IF tick.due = {o} THEN "write" ELSE "claim",
                 !.due = @ \ {o}]

\* Variant: the claim is only remembered.
RememberedOnly(line) == claims

\* appendFile; a torn last line swallows what is appended to it.
Appended(line) ==
    IF claims # <<>> /\ Last(claims) = TornLine
    THEN [claims EXCEPT ![Len(claims)] = IF line = TornLine THEN TornLine ELSE BadLine]
    ELSE Append(claims, line)

ClaimDuplicate(o) ==
    /\ Claiming /\ Turn(o) /\ o \in ClaimsRead
    /\ claimsLoaded' = TRUE /\ claimsSeen' = ClaimsRead
    /\ tick' = NextOccurrence(o)
    /\ UNCHANGED <<files, cursorSeen, policies, ghosts>>

ClaimOccurrence(o) ==
    /\ Claiming /\ Turn(o) /\ o \notin ClaimsRead /\ Len(claims) < MaxLines
    /\ claimsLoaded' = TRUE /\ claimsSeen' = ClaimsRead \cup {o}
    /\ claims' = Appended(o)
    /\ tick' = [tick EXCEPT !.pc = "run"]
    /\ UNCHANGED <<cursor, candidate, cursorSeen, policies, ghosts>>

\* The append fails, having written nothing, a part of the line or all of it;
\* the tick rejects and the claim is not remembered.
ClaimFails(o) ==
    /\ Claiming /\ Turn(o) /\ o \notin ClaimsRead /\ Len(claims) < MaxLines
    /\ claimsLoaded' = TRUE /\ claimsSeen' = ClaimsRead
    /\ claims' \in {claims, Appended(TornLine), Appended(o)}
    /\ tick' = Resting
    /\ UNCHANGED <<cursor, candidate, cursorSeen, policies, ghosts>>
-----------------------------------------------------------------------------
\* RunRegisteredBackup.execute gets past its checks and starts the backup.
RunScheduled(o) ==
    /\ tick.pc = "run" /\ Turn(o) /\ o[1] \in scheduled
    /\ executions' = [executions EXCEPT ![o] = @ + 1]
    /\ tick' = [tick EXCEPT !.pc = "running"]
    /\ UNCHANGED <<files, memory, policies, origin, dropped, loadFailed>>

\* The target is no longer scheduled, another operation holds the gate, or the
\* history cannot be written: the tick ends, its claim spent.
RunRefused == tick.pc = "run" /\ TickEnds

RunSucceeds(o) ==
    /\ tick.pc = "running" /\ Turn(o)
    /\ tick' = NextOccurrence(o)
    /\ UNCHANGED <<files, memory, policies, ghosts>>

\* The tick ends incomplete.
RunFails == tick.pc = "running" /\ TickEnds
-----------------------------------------------------------------------------
\* compareAndSet: the next cursor goes to a new candidate file.
WriteCandidate ==
    /\ tick.pc = "write" /\ ~candidate
    /\ candidate' = TRUE
    /\ tick' = [tick EXCEPT !.pc = "rename"]
    /\ UNCHANGED <<cursor, claims, memory, policies, ghosts>>

\* The candidate is already there, or a call of compareAndSet fails: the tick
\* rejects and leaves the candidate as it is.
CandidateRefused == tick.pc \in {"write", "rename"} /\ TickEnds

RenameCandidate ==
    /\ tick.pc = "rename"
    /\ cursor' = tick.at /\ cursorSeen' = tick.at /\ candidate' = FALSE
    /\ origin' = IF cursorSeen = NoCursor THEN tick.at ELSE origin
    /\ dropped' = dropped \cup tick.cut
    /\ tick' = Resting
    /\ UNCHANGED <<claims, claimsLoaded, claimsSeen, policies, executions, loadFailed>>
-----------------------------------------------------------------------------
\* setBackupSchedule, removeBackupSchedule.
SetSchedule(t) ==
    /\ scheduled' \in {scheduled \cup {t}, scheduled \ {t}}
    /\ edited' = edited \cup {t}
    /\ UNCHANGED <<files, memory, ghosts, tick>>

\* The process dies and is started again; what was only in memory is gone.
Crash ==
    /\ cursorSeen' = NotLoaded /\ claimsLoaded' = FALSE /\ claimsSeen' = {}
    /\ tick' = Resting
    /\ UNCHANGED <<files, policies, ghosts>>
-----------------------------------------------------------------------------
Next ==
    \/ (\E at \in Instants : TickBegins(at)) \/ CursorLoadFails
    \/ ClaimsLoadFails \/ RunRefused \/ RunFails
    \/ \E o \in tick.due :
          \/ ClaimDuplicate(o) \/ ClaimOccurrence(o) \/ ClaimFails(o)
          \/ RunScheduled(o) \/ RunSucceeds(o)
    \/ WriteCandidate \/ CandidateRefused \/ RenameCandidate
    \/ (\E t \in Targets : SetSchedule(t)) \/ Crash

Spec == Init /\ [][Next]_vars
-----------------------------------------------------------------------------
Ticks ==
    [pc : {"rest", "claim", "run", "running", "write", "rename"}, at : Instants,
     due : SUBSET Occurrences, cut : SUBSET Occurrences]

\* Every variable keeps its type, and a tick has occurrences left exactly while
\* it claims or runs one.
TypeOK ==
    /\ scheduled \subseteq Targets /\ edited \subseteq Targets
    /\ cursor \in Instants \cup {NoCursor} /\ candidate \in BOOLEAN
    /\ claims \in Seq(Occurrences \cup BadLines) /\ dropped \subseteq Occurrences
    /\ cursorSeen \in Instants \cup {NoCursor, NotLoaded}
    /\ claimsLoaded \in BOOLEAN /\ claimsSeen \subseteq Occurrences
    /\ tick \in Ticks
    /\ tick.pc \in {"claim", "run", "running"} <=> tick.due # {}
    /\ Cardinality(tick.due) <= Limit
    /\ executions \in [Occurrences -> Nat]
    /\ origin \in Instants \cup {NoCursor} /\ loadFailed \in BOOLEAN

\* "Claims are permanent and prevent duplicate execution after restart or retry"
\* (docs/operations/atlas-manager-backup-scheduler.md): no occurrence is run
\* twice, whatever crashes, fails or is done again.
OccurrenceRunsOnce == \A o \in Occurrences : executions[o] <= 1

\* What an operator takes a schedule to mean: each window is run once.  The code
\* claims the sampled instant, and two ticks may each sample the minute of one
\* window: a cursor that a tick leaves inside the minute makes the next tick
\* sample the rest of it.
WindowRunsOnce ==
    \A o, p \in Occurrences :
        /\ executions[o] > 0 /\ executions[p] > 0
        /\ o[1] = p[1] /\ Minute(o[2]) = Minute(p[2])
        => o = p

\* One tick at least does not ask for a window twice.
TickTakesWindowOnce ==
    \A o, p \in tick.due : o[1] = p[1] /\ Minute(o[2]) = Minute(p[2]) => o = p

\* An occurrence is run again only after a load of the claims has failed.
RerunNeedsFailedLoad == loadFailed \/ OccurrenceRunsOnce

\* While the claim file has no line that load() would stop at, no occurrence has
\* been run twice, and none has been run that the file does not claim.
ReadableClaimsAreKept ==
    Readable => \A o \in Occurrences :
                    executions[o] <= 1 /\ (executions[o] = 1 => o \in ToSet(claims))

\* A window of a target that stayed scheduled is claimed before the cursor has
\* passed its minute, unless the limit of a tick cut it off.  Claims swallowed by
\* a damaged line are not counted against it.
NoWindowSkipped ==
    Readable /\ cursor # NoCursor =>
        \A t \in Targets \ edited : \A m \in Windows[t] :
            origin < m * TicksPerMinute /\ (m + 1) * TicksPerMinute <= cursor + 1
                => \E o \in ToSet(claims) \cup dropped : o[1] = t /\ Minute(o[2]) = m

\* The claims and the cursor account for the sampled instants and for the windows:
\* no instant is run twice unless a load of the claims failed, and then a line of
\* the file is damaged or repeated; no tick asks for a window twice; and no window
\* is passed by while the claim file can be read.
NoOccurrenceIsLost ==
    TypeOK /\ RerunNeedsFailedLoad /\ ReadableClaimsAreKept /\ TickTakesWindowOnce
    /\ NoWindowSkipped
-----------------------------------------------------------------------------
(* The inductive invariant of the theorems in BackupProofs. *)

\* A target that is not scheduled was edited.
ScheduledInv == Targets \ edited \subseteq scheduled

\* A tick goes by the cursor on file, or by none.
CursorInv ==
    /\ cursorSeen \in {NotLoaded, NoCursor, cursor}
    /\ tick.pc # "rest" => cursorSeen # NotLoaded

\* Between the cursor and its instant, a tick has claimed, cut off or still to
\* claim every occurrence of a target that stayed scheduled.
PassInv ==
    Readable /\ tick.pc # "rest" /\ cursorSeen # NoCursor =>
        \A t \in Targets \ edited : \A p \in Samples(cursorSeen, tick.at) :
            Minute(p) \in Windows[t] => <<t, p>> \in ToSet(claims) \cup tick.due \cup tick.cut

\* While the claim file can be read, the memory is a part of it, and what a tick
\* is about to run is claimed and was not run before.
MemoryInv ==
    Readable =>
        /\ claimsSeen \subseteq ToSet(claims)
        /\ tick.pc \in {"run", "running"} => \A o \in tick.due : Turn(o) => o \in ToSet(claims)
        /\ tick.pc = "run" => \A o \in tick.due : Turn(o) => executions[o] = 0

\* As long as no load has failed, what was run is remembered by a store that has
\* loaded, and is on file for one that has not, unless the next load fails; what a
\* tick is about to run was not run before.
RecallInv ==
    ~loadFailed =>
        /\ \A o \in Occurrences :
              executions[o] > 0 =>
                 /\ claimsLoaded => o \in claimsSeen
                 /\ Readable => o \in ToSet(claims)
        /\ tick.pc \in {"run", "running"} =>
              claimsLoaded /\ \A o \in tick.due : Turn(o) => o \in claimsSeen
        /\ tick.pc = "run" => \A o \in tick.due : Turn(o) => executions[o] = 0

\* A tick has left of its interval's samples what it has not dealt with.
SampledInv == \A o \in tick.due : o[2] \in Samples(cursorSeen, tick.at)

IInv ==
    /\ ScheduledInv /\ CursorInv /\ PassInv /\ MemoryInv /\ RecallInv /\ SampledInv
    /\ NoOccurrenceIsLost
=============================================================================
