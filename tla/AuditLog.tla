------------------------------ MODULE AuditLog ------------------------------
(***************************************************************************)
(* The audit log (audit/log.rs): callers send commands over a channel to   *)
(* one worker thread, which chains each event to the one before, appends   *)
(* it to a file, and then to the entries in memory.  The file is rotated   *)
(* when it is full and verified when a process opens it.                   *)
(*                                                                         *)
(* A hash stands for what was hashed: the chain hash of an event is the    *)
(* sequence of the payloads up to it, the zero hash the empty sequence.    *)
(* Two chains have the same hash if and only if they are the same.         *)
(***************************************************************************)
EXTENDS Naturals, Sequences, SequencesExt, FiniteSets

CONSTANTS
    Callers,
    NoCaller,       \* nobody waits for the command
    MaxEvents,      \* bound: calls of record and record_sync
    MaxQueue,       \* bound: commands in the channel, which has no limit
    U64_MAX,        \* the last timestamp
    MAX_LOG_LINES,  \* the file size that rotates, counted in lines
    MAX_ROTATED,    \* MAX_ROTATED_FILES
    MAX_ENTRIES,    \* MAX_IN_MEMORY_ENTRIES
    MayFail         \* may disk operations fail and the process crash?

ASSUME CallerAssumption == NoCaller \notin Callers
ASSUME EventAssumption == MaxEvents \in Nat \ {0}
ASSUME QueueAssumption == MaxQueue \in Nat \ {0}
ASSUME TimeAssumption == U64_MAX \in Nat \ {0}
ASSUME LinesAssumption == MAX_LOG_LINES \in Nat \ {0}
ASSUME RotatedAssumption == MAX_ROTATED \in Nat \ {0}
ASSUME EntriesAssumption == MAX_ENTRIES \in Nat \ {0}
ASSUME FailAssumption == MayFail \in BOOLEAN

VARIABLES
    queue,      \* the channel: a sequence of Command
    worker,     \* the worker thread and its locals
    entries,    \* AuditLogState.entries
    file,       \* the lines of the active file; <<>> also when there is none
    rotated,    \* [1 .. MAX_ROTATED -> lines]: path.1, path.2, ...
    tamper,     \* tamper_flag
    open,       \* does the process hold the log, sender not dropped?
    call,       \* [Callers -> Call]
    sent,       \* events sent so far; their numbers are 1 .. sent
    done,       \* events the worker is through with, or that a crash lost
    acked,      \* events for which record_sync returned Ok
    discarded,  \* events of files rotated out of the last generation
    disturbed   \* has a write failed, or a crash left a broken or a missing line?

vars == <<queue, worker, entries, file, rotated, tamper, open, call,
          sent, done, acked, discarded, disturbed>>

Numbers == 1 .. MaxEvents
Times == 0 .. U64_MAX
Generations == 1 .. MAX_ROTATED

Command == [kind : {"record", "flush"}, event : Numbers \cup {0},
            caller : Callers \cup {NoCaller}]

Payload == [event : Numbers, time : Times]
Zero == <<>>

\* What one writeln! put into a file: an event with its previous_hash, as a
\* whole line, as a line left open because its newline is missing, or cut off
\* before its end.  The next one is written directly behind it.
Shapes == {"line", "open", "cut"}
Event == [payload : Payload, previous : Seq(Payload), shape : Shapes]

\* compute_chain_hash.
ChainHash(previous, event) == Append(previous, event.payload)

Worker == [pc : {"recv", "write", "shift", "rename", "append", "sync", "commit"},
           command : Command, event : Event,
           hash : Seq(Payload), time : Times, gen : Generations \cup {0},
           draining : BOOLEAN, flusher : Callers \cup {NoCaller}]

Call == [pc : {"idle", "sync", "flush", "flushed"}, before : SUBSET Numbers]
IdleCall == [pc |-> "idle", before |-> {}]

NoCommand == [kind |-> "flush", event |-> 0, caller |-> NoCaller]
NoEvent == [payload |-> [event |-> 1, time |-> 0], previous |-> Zero,
            shape |-> "line"]

\* spawn_worker: last_timestamp starts at 0 in every process.
Spawned(hash) ==
    [pc |-> "recv", command |-> NoCommand, event |-> NoEvent, hash |-> hash,
     time |-> 0, gen |-> 0, draining |-> FALSE, flusher |-> NoCaller]

EventsOf(lines) == {lines[i].payload.event : i \in DOMAIN lines}
OnDisk == EventsOf(file) \cup UNION {EventsOf(rotated[g]) : g \in Generations}

\* The files, the active one first, then by age.
File(g) == IF g = 0 THEN file ELSE rotated[g]

TypeOK ==
    /\ queue \in Seq(Command)
    /\ worker \in Worker
    /\ entries \in Seq(Event) /\ file \in Seq(Event)
    /\ rotated \in [Generations -> Seq(Event)]
    /\ tamper \in BOOLEAN /\ open \in BOOLEAN /\ disturbed \in BOOLEAN
    /\ call \in [Callers -> Call]
    /\ sent \in 0 .. MaxEvents
    /\ done \subseteq Numbers /\ acked \subseteq Numbers /\ discarded \subseteq Numbers

Init ==
    /\ queue = <<>> /\ worker = Spawned(Zero)
    /\ entries = <<>> /\ file = <<>>
    /\ rotated = [g \in Generations |-> <<>>]
    /\ tamper = FALSE /\ open = TRUE
    /\ call = [c \in Callers |-> IdleCall]
    /\ sent = 0 /\ done = {} /\ acked = {} /\ discarded = {} /\ disturbed = FALSE

disk == <<file, rotated>>
ghosts == <<sent, done, acked, discarded, disturbed>>

-----------------------------------------------------------------------------
(* The callers. *)

Send(command) == Len(queue) < MaxQueue /\ queue' = Append(queue, command)

\* record: sent and forgotten.
record(c) ==
    /\ open /\ call[c].pc = "idle" /\ ~tamper
    /\ sent < MaxEvents
    /\ sent' = sent + 1
    /\ Send([kind |-> "record", event |-> sent + 1, caller |-> NoCaller])
    /\ UNCHANGED <<worker, entries, disk, tamper, open, call, done,
                   acked, discarded, disturbed>>

\* record_sync: blocks on a completion channel.
record_sync(c) ==
    /\ open /\ call[c].pc = "idle" /\ ~tamper
    /\ sent < MaxEvents
    /\ sent' = sent + 1
    /\ Send([kind |-> "record", event |-> sent + 1, caller |-> c])
    /\ call' = [call EXCEPT ![c] = [pc |-> "sync", before |-> {}]]
    /\ UNCHANGED <<worker, entries, disk, tamper, open, done, acked,
                   discarded, disturbed>>

\* Mutant of flush: the command overtakes the records.
flush_first(c) ==
    /\ open /\ call[c].pc = "idle"
    /\ Len(queue) < MaxQueue
    /\ queue' = <<[kind |-> "flush", event |-> 0, caller |-> c]>> \o queue
    /\ call' = [call EXCEPT ![c] = [pc |-> "flush", before |-> 1 .. sent]]
    /\ UNCHANGED <<worker, entries, disk, tamper, open, ghosts>>

flush(c) ==
    /\ open /\ call[c].pc = "idle"
    /\ Send([kind |-> "flush", event |-> 0, caller |-> c])
    /\ call' = [call EXCEPT ![c] = [pc |-> "flush", before |-> 1 .. sent]]
    /\ UNCHANGED <<worker, entries, disk, tamper, open, ghosts>>

\* recv_timeout: the caller drops its end of the command's own channel.
FlushTimesOut(c) ==
    /\ call[c].pc = "flush"
    /\ call' = [call EXCEPT ![c] = IdleCall]
    /\ queue' = [i \in DOMAIN queue |->
                    IF queue[i].caller = c THEN [queue[i] EXCEPT !.caller = NoCaller]
                    ELSE queue[i]]
    /\ worker' = [worker EXCEPT !.flusher = IF @ = c THEN NoCaller ELSE @]
    /\ UNCHANGED <<entries, disk, tamper, open, ghosts>>

FlushReturns(c) ==
    /\ call[c].pc = "flushed"
    /\ call' = [call EXCEPT ![c] = IdleCall]
    /\ UNCHANGED <<queue, worker, entries, disk, tamper, open, ghosts>>

-----------------------------------------------------------------------------
(* The worker. *)

\* Acknowledge a flush, if its caller still waits.
Acknowledge(c) ==
    call' = IF c = NoCaller THEN call ELSE [call EXCEPT ![c] = [@ EXCEPT !.pc = "flushed"]]

\* The end of process_record: the outcome goes to the caller of record_sync.
Finish(ok) ==
    /\ worker' = [worker EXCEPT !.pc = "recv", !.command = NoCommand, !.event = NoEvent]
    /\ done' = done \cup {worker.command.event}
    /\ LET c == worker.command.caller
       IN  /\ call' = IF c = NoCaller THEN call ELSE [call EXCEPT ![c] = IdleCall]
           /\ acked' = IF c # NoCaller /\ ok THEN acked \cup {worker.command.event}
                       ELSE acked

\* The timestamp: the wall clock, or one more than the last.
Timestamp(now) == IF now <= worker.time THEN worker.time + 1 ELSE now

\* recv of a Record: process_record up to the disk.  The wall clock may have been
\* set, forwards or back: it reads anything.
WorkerTakesRecord(now) ==
    /\ worker.pc = "recv" /\ queue # <<>> /\ Head(queue).kind = "record"
    /\ queue' = Tail(queue)
    /\ ~tamper /\ Timestamp(now) <= U64_MAX
    /\ LET e == [payload |-> [event |-> Head(queue).event, time |-> Timestamp(now)],
                 previous |-> worker.hash, shape |-> "line"]
       IN  worker' = [worker EXCEPT !.pc = "write", !.command = Head(queue), !.event = e,
                                    !.hash = ChainHash(worker.hash, e), !.time = Timestamp(now)]
    /\ UNCHANGED <<entries, disk, tamper, open, call, ghosts>>

\* A record behind the tamper flag, or past the last timestamp, which sets it.
WorkerRefuses(now) ==
    /\ worker.pc = "recv" /\ queue # <<>> /\ Head(queue).kind = "record"
    /\ queue' = Tail(queue)
    /\ tamper \/ Timestamp(now) > U64_MAX
    /\ tamper' = TRUE
    /\ LET m == Head(queue)
       IN  /\ done' = done \cup {m.event}
           /\ call' = IF m.caller = NoCaller THEN call
                      ELSE [call EXCEPT ![m.caller] = IdleCall]
    /\ UNCHANGED <<worker, entries, disk, open, sent, acked, discarded, disturbed>>

\* A Flush is acknowledged when the channel is empty; one that is met while
\* another waits for that, at once.
WorkerTakesFlush ==
    /\ worker.pc = "recv" /\ queue # <<>> /\ Head(queue).kind = "flush"
    /\ queue' = Tail(queue)
    /\ IF ~worker.draining
         THEN /\ worker' = [worker EXCEPT !.draining = TRUE, !.flusher = Head(queue).caller]
              /\ UNCHANGED call
         ELSE Acknowledge(Head(queue).caller) /\ UNCHANGED worker
    /\ UNCHANGED <<entries, disk, tamper, open, ghosts>>

WorkerDrained ==
    /\ worker.pc = "recv" /\ queue = <<>> /\ worker.draining
    /\ Acknowledge(worker.flusher)
    /\ worker' = [worker EXCEPT !.draining = FALSE, !.flusher = NoCaller]
    /\ UNCHANGED <<queue, entries, disk, tamper, open, ghosts>>

\* The size of a file: whole lines count, broken ones are of any size.
Sizes(lines) ==
    Cardinality({i \in DOMAIN lines : lines[i].shape = "line"}) .. Len(lines)

\* rotate_log_files goes through the generations MAX_ROTATED - 1 to 1.
Rotating(g) == [worker EXCEPT !.pc = IF g = 0 THEN "rename" ELSE "shift", !.gen = g]

\* open_audit_file and the size check.
WorkerOpensFile ==
    /\ worker.pc = "write"
    /\ \E size \in Sizes(file) :
          worker' = IF size >= MAX_LOG_LINES THEN Rotating(MAX_ROTATED - 1)
                    ELSE [worker EXCEPT !.pc = "append"]
    /\ UNCHANGED <<queue, entries, disk, tamper, open, call, ghosts>>

\* path.gen, if there is one, becomes path.gen+1; of the last generation the
\* events are overwritten.
WorkerShifts ==
    LET g == worker.gen
    IN  /\ worker.pc = "shift"
        /\ IF rotated[g] # <<>>
           THEN /\ rotated' = [rotated EXCEPT ![g + 1] = rotated[g], ![g] = <<>>]
                /\ discarded' = discarded \cup
                     IF g + 1 = MAX_ROTATED THEN EventsOf(rotated[g + 1]) ELSE {}
           ELSE UNCHANGED <<rotated, discarded>>
        /\ worker' = Rotating(g - 1)
        /\ UNCHANGED <<queue, entries, file, tamper, open, call, sent, done,
                       acked, disturbed>>

WorkerRenames ==
    /\ worker.pc = "rename"
    /\ rotated' = [rotated EXCEPT ![1] = file]
    /\ file' = <<>>
    /\ discarded' = discarded \cup
          IF MAX_ROTATED = 1 THEN EventsOf(rotated[1]) ELSE {}
    /\ worker' = [worker EXCEPT !.pc = "append"]
    /\ UNCHANGED <<queue, entries, tamper, open, call, sent, done, acked,
                   disturbed>>

WorkerAppends ==
    /\ worker.pc = "append"
    /\ file' = Append(file, worker.event)
    /\ worker' = [worker EXCEPT !.pc = "sync"]
    /\ UNCHANGED <<queue, entries, rotated, tamper, open, call, ghosts>>

WorkerSyncs ==
    /\ worker.pc = "sync"
    /\ worker' = [worker EXCEPT !.pc = "commit"]
    /\ UNCHANGED <<queue, entries, disk, tamper, open, call, ghosts>>

\* A write that fails half way leaves part of its line.
Fragment == [worker.event EXCEPT !.shape = "cut"]
OpenLine == [worker.event EXCEPT !.shape = "open"]

PartlyWritten ==
    \/ UNCHANGED file
    \/ /\ worker.pc = "append"
       /\ file' \in {Append(file, Fragment), Append(file, OpenLine)}

\* Mutant of WorkerFails: the error is logged and Ok returned.
WorkerSwallowsError ==
    /\ MayFail
    /\ worker.pc \in {"write", "shift", "rename", "append", "sync"}
    /\ disturbed' = TRUE
    /\ PartlyWritten
    /\ Finish(TRUE)
    /\ UNCHANGED <<queue, entries, rotated, tamper, open, sent, discarded>>

\* An error in any of these steps ends the record; the hash has moved on.
WorkerFails ==
    /\ MayFail
    /\ worker.pc \in {"write", "shift", "rename", "append", "sync"}
    /\ disturbed' = TRUE
    /\ PartlyWritten
    /\ Finish(FALSE)
    /\ UNCHANGED <<queue, entries, rotated, tamper, open, sent, discarded>>

\* Entries beyond the limit are drained from the front.
WorkerCommits ==
    /\ worker.pc = "commit"
    /\ entries' = LET all == Append(entries, worker.event)
                  IN  IF Len(all) > MAX_ENTRIES
                        THEN SubSeq(all, Len(all) - MAX_ENTRIES + 1, Len(all))
                        ELSE all
    /\ Finish(TRUE)
    /\ UNCHANGED <<queue, disk, tamper, open, sent, discarded, disturbed>>

-----------------------------------------------------------------------------
(* Opening, closing and crashing. *)

\* The hash after the first n lines.
PrefixHash(lines, n) == [i \in 1 .. n |-> lines[i].payload]

\* reader.lines() finds the event on a line of its own; the last line may be
\* without its newline.
Readable(lines, i) ==
    /\ lines[i].shape # "cut"
    /\ i < Len(lines) => lines[i].shape = "line"
    /\ i > 1 => lines[i - 1].shape = "line"

\* A line that verifies: readable, and chained to the lines before it.
LineVerifies(lines, i) ==
    Readable(lines, i) /\ lines[i].previous = PrefixHash(lines, i - 1)

\* recover_chain_from_file: Verified or NoFile, rather than Broken.
Recovers(lines) == \A i \in DOMAIN lines : LineVerifies(lines, i)

\* verify_chain, on the entries in memory.
verify_chain == Recovers(entries)

\* drop: the sender goes and the worker is joined when the channel is empty.
Close ==
    /\ open /\ \A c \in Callers : call[c].pc = "idle"
    /\ open' = FALSE
    /\ UNCHANGED <<queue, worker, entries, disk, tamper, call, ghosts>>

\* Mutant of Open: the chain starts again from zero.
OpenAfresh ==
    /\ ~open /\ queue = <<>> /\ worker.pc = "recv" /\ ~worker.draining
    /\ open' = TRUE
    /\ entries' = <<>>
    /\ tamper' = ~Recovers(file)
    /\ worker' = Spawned(Zero)
    /\ UNCHANGED <<queue, disk, call, ghosts>>

\* new_with_path in the next process.
Open ==
    /\ ~open /\ queue = <<>> /\ worker.pc = "recv" /\ ~worker.draining
    /\ open' = TRUE
    /\ entries' = <<>>
    /\ tamper' = ~Recovers(file)
    /\ worker' = Spawned(IF Recovers(file) THEN PrefixHash(file, Len(file)) ELSE Zero)
    /\ UNCHANGED <<queue, disk, call, ghosts>>

\* A line that was not synced may be whole, open, cut off or gone.
Crash ==
    /\ MayFail
    /\ queue' = <<>> /\ entries' = <<>> /\ open' = FALSE
    /\ worker' = Spawned(Zero)
    /\ call' = [c \in Callers |-> IdleCall]
    /\ done' = 1 .. sent
    /\ \/ /\ UNCHANGED file
          /\ disturbed' = (disturbed \/ (file = <<>> /\ OnDisk # {}))
       \/ /\ worker.pc = "sync" /\ disturbed' = TRUE
          /\ \/ file' = Front(file)
             \/ \E shape \in {"open", "cut"} :
                   file' = Append(Front(file), [Last(file) EXCEPT !.shape = shape])
    /\ UNCHANGED <<rotated, tamper, sent, acked, discarded>>

WorkerStep ==
    \/ \E now \in Times : WorkerTakesRecord(now) \/ WorkerRefuses(now)
    \/ WorkerTakesFlush \/ WorkerDrained
    \/ WorkerOpensFile \/ WorkerShifts \/ WorkerRenames \/ WorkerAppends
    \/ WorkerSyncs \/ WorkerFails \/ WorkerCommits

Next ==
    \/ \E c \in Callers :
          record(c) \/ record_sync(c) \/ flush(c) \/ FlushTimesOut(c) \/ FlushReturns(c)
    \/ WorkerStep
    \/ Close \/ Open \/ Crash

Spec == Init /\ [][Next]_vars

-----------------------------------------------------------------------------
(* Properties. *)

\* The event has a line of its own in some file.
Legible(e) ==
    \E g \in 0 .. MAX_ROTATED : \E i \in DOMAIN File(g) :
        File(g)[i].payload.event = e /\ Readable(File(g), i)

\* Its whole line was written, but directly behind what a failed write or a
\* crash left of another event: the two are one line that does not parse.
Glued(e) ==
    \E g \in 0 .. MAX_ROTATED : \E i \in DOMAIN File(g) :
        /\ File(g)[i].payload.event = e /\ File(g)[i].shape = "line"
        /\ i > 1 /\ File(g)[i - 1].shape # "line"

\* record_sync that returned Ok is durable: no crash, failure, rotation or
\* restart loses the line, until its file is the oldest generation rotated out.
\* It is a line of its own unless the write before it broke off.
SyncIsDurable == \A e \in acked \ discarded : Legible(e) \/ Glued(e)

\* What readers see in memory is on disk in the same sense: an event whose write
\* failed is not shown, whatever happened to the file since.
MemoryOnDisk == \A e \in EventsOf(entries) \ discarded : Legible(e) \/ Glued(e)

\* What a caller was told and what a reader sees is on disk.
ToldIsDurable == SyncIsDurable /\ MemoryOnDisk

\* A flush that returned Ok: the worker is through with every event sent
\* before it, whoever sent it and however many flushes were under way.
FlushDrains == \A c \in Callers : call[c].pc = "flushed" => call[c].before \subseteq done

\* The events of a process are stamped in strictly increasing order although
\* the wall clock is set back, and recorded in the order they were sent.
Ordered ==
    \A i, j \in DOMAIN entries : i < j =>
        /\ entries[i].payload.time < entries[j].payload.time
        /\ entries[i].payload.event < entries[j].payload.event

Follows(event, last) == event.previous = ChainHash(last.previous, last)

\* The files of all generations are one chain, each line after the one before it
\* in its file or at the end of the next older file that has lines: rotations,
\* restarts and crashes do not break it, until a write fails or a crash leaves a
\* line broken or unwritten.
OneChain ==
    ~disturbed =>
        /\ \A g \in 0 .. MAX_ROTATED : \A i \in 1 .. Len(File(g)) - 1 :
              Follows(File(g)[i + 1], File(g)[i])
        /\ \A g, h \in 0 .. MAX_ROTATED :
              /\ h < g /\ File(g) # <<>> /\ File(h) # <<>>
              /\ \A k \in h + 1 .. g - 1 : File(k) = <<>>
              => Follows(File(h)[1], Last(File(g)))

\* The log as a reader meets it: well-typed timestamps, in order, in one chain.
LogSound == TypeOK /\ Ordered /\ OneChain
=============================================================================
