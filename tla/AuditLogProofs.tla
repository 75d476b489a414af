--------------------------- MODULE AuditLogProofs ---------------------------
(***************************************************************************)
(* For any callers, limits, failures and crashes: what a caller of         *)
(* record_sync was told and what a reader sees is on disk, a flush that    *)
(* returned is behind every event sent before it, and the log is in order  *)
(* and one chain.                                                          *)
(***************************************************************************)
EXTENDS AuditLog, SequenceTheorems, FiniteSetTheorems, TLAPS

Busy == worker.pc # "recv"
IsRecord(i) == queue[i].kind = "record"

\* The numbers of the events in flight: behind every one that is done, in the
\* order of the channel, and none of the sent ones is missing.
NumbersInv ==
    /\ done \subseteq 1 .. sent /\ acked \subseteq done
    /\ Busy => /\ worker.command.event \in 1 .. sent
               /\ worker.event.payload.event = worker.command.event
               /\ \A d \in done : d < worker.command.event
    /\ \A i \in DOMAIN queue : IsRecord(i) =>
          /\ queue[i].event \in 1 .. sent
          /\ \A d \in done : d < queue[i].event
          /\ Busy => worker.command.event < queue[i].event
          /\ \A j \in DOMAIN queue : IsRecord(j) /\ i < j => queue[i].event < queue[j].event
    /\ \A e \in 1 .. sent :
          \/ e \in done
          \/ Busy /\ e = worker.command.event
          \/ \E i \in DOMAIN queue : IsRecord(i) /\ queue[i].event = e

\* A caller that waits has one command, in the channel or with the worker, and
\* no event a flush waits for is behind it.
CallersInv ==
    /\ \A i \in DOMAIN queue : \A c \in Callers : queue[i].caller = c =>
          /\ call[c].pc = IF IsRecord(i) THEN "sync" ELSE "flush"
          /\ worker.flusher # c
          /\ Busy => worker.command.caller # c
          /\ \A j \in DOMAIN queue : queue[j].caller = c => j = i
          /\ \A j \in DOMAIN queue : ~IsRecord(i) /\ i < j /\ IsRecord(j) =>
                queue[j].event \notin call[c].before
    /\ \A c \in Callers :
          /\ worker.flusher = c => call[c].pc = "flush"
          /\ Busy /\ worker.command.caller = c => call[c].pc = "sync"
          /\ call[c].before \subseteq 1 .. sent

\* Where the record under way is.
DiskInv ==
    /\ worker.pc \in {"shift", "rename"} => file # <<>>
    /\ worker.pc = "shift" =>
          /\ worker.gen \in 1 .. MAX_ROTATED - 1
          /\ worker.gen + 1 # MAX_ROTATED => rotated[worker.gen + 1] = <<>>
    /\ worker.pc = "rename" => MAX_ROTATED = 1 \/ rotated[1] = <<>>
    /\ worker.pc \in {"sync", "commit"} => file # <<>> /\ Last(file) = worker.event
    /\ Busy => worker.event.shape = "line"

\* The events whose whole lines were written, and are in a file.
WholeOf(lines) ==
    {lines[i].payload.event : i \in {j \in DOMAIN lines : lines[j].shape = "line"}}
Wholes == WholeOf(file) \cup UNION {WholeOf(rotated[g]) : g \in Generations}

\* What callers were told and readers see has such a line, or was rotated out.
ToldIsWhole ==
    /\ acked \subseteq Wholes \cup discarded
    /\ EventsOf(entries) \subseteq Wholes \cup discarded

\* The events in memory are done, and stamped before the next one.
OrderInv ==
    /\ \A i \in DOMAIN entries :
          /\ entries[i].payload.event \in done
          /\ entries[i].payload.time <= worker.time
          /\ Busy => entries[i].payload.time < worker.time
    /\ Busy => worker.event.payload.time = worker.time

\* The files of all generations as one function, and what is said of them.
Every == 0 .. MAX_ROTATED
Files == [g \in Every |-> File(g)]
Linked(F) == \A g \in Every : \A i \in 1 .. Len(F[g]) - 1 : Follows(F[g][i + 1], F[g][i])
Joined(F) ==
    \A g, h \in Every :
        /\ h < g /\ F[g] # <<>> /\ F[h] # <<>>
        /\ \A k \in h + 1 .. g - 1 : F[k] = <<>>
        => Follows(F[h][1], Last(F[g]))

\* The last line on disk hashes to this.
TipOf(F, hash) ==
    \A g \in Every :
        F[g] # <<>> /\ (\A k \in 0 .. g - 1 : F[k] = <<>>) =>
            hash = ChainHash(Last(F[g]).previous, Last(F[g]))
Tip(hash) == TipOf(Files, hash)

ChainInv ==
    /\ Busy => ~tamper /\ worker.hash = ChainHash(worker.event.previous, worker.event)
    /\ ~disturbed =>
         /\ file = <<>> /\ worker.pc # "append" => \A g \in Generations : rotated[g] = <<>>
         /\ worker.pc = "recv" /\ ~tamper /\ (open \/ queue # <<>>) => Tip(worker.hash)
         /\ worker.pc \in {"write", "shift", "rename", "append"} => Tip(worker.event.previous)
         /\ worker.pc \in {"sync", "commit"} => Tip(worker.hash)

LogInv ==
    /\ TypeOK /\ NumbersInv /\ CallersInv /\ DiskInv /\ OrderInv /\ ChainInv
    /\ ToldIsWhole /\ FlushDrains /\ Ordered /\ OneChain

-----------------------------------------------------------------------------
(* Sequences                                                               *)

LEMMA AppendFacts ==
    ASSUME NEW S, NEW q \in Seq(S), NEW m \in S
    PROVE  /\ Append(q, m) \in Seq(S) /\ Append(q, m) # <<>>
           /\ Len(q) \in Nat /\ DOMAIN q = 1 .. Len(q)
           /\ Len(Append(q, m)) = Len(q) + 1
           /\ DOMAIN Append(q, m) = 1 .. Len(q) + 1
           /\ \A i \in DOMAIN q : Append(q, m)[i] = q[i]
           /\ Append(q, m)[Len(q) + 1] = m
<1>1. /\ Append(q, m) \in Seq(S)
      /\ Len(q) \in Nat /\ DOMAIN q = 1 .. Len(q)
      /\ Len(Append(q, m)) = Len(q) + 1
      /\ DOMAIN Append(q, m) = 1 .. Len(q) + 1
      /\ \A i \in DOMAIN q : Append(q, m)[i] = q[i]
      /\ Append(q, m)[Len(q) + 1] = m
  OBVIOUS
<1>2. Append(q, m) # <<>>
  <2>1. Len(<<>>) = 0
    OBVIOUS
  <2>2. Append(q, m) = <<>> => Len(Append(q, m)) = Len(<<>>)
    OBVIOUS
  <2> QED
    BY <1>1, <2>1, <2>2
<1> QED
  BY <1>1, <1>2

LEMMA TailFacts ==
    ASSUME NEW S, NEW q \in Seq(S), q # <<>>
    PROVE  /\ Head(q) = q[1] /\ Head(q) \in S /\ 1 \in DOMAIN q
           /\ Tail(q) \in Seq(S)
           /\ Len(q) \in Nat \ {0} /\ DOMAIN q = 1 .. Len(q)
           /\ DOMAIN Tail(q) = 1 .. Len(q) - 1
           /\ \A i \in DOMAIN Tail(q) : i + 1 \in DOMAIN q /\ Tail(q)[i] = q[i + 1]
           /\ \A j \in DOMAIN q : j = 1 \/ (j - 1 \in DOMAIN Tail(q) /\ Tail(q)[j - 1] = q[j])
<1>1. Tail(q) \in Seq(S) /\ Len(Tail(q)) = Len(q) - 1 /\ Len(q) \in Nat /\ Len(q) > 0
  OBVIOUS
<1>2. \A i \in 1 .. Len(Tail(q)) : i + 1 \in 1 .. Len(q) /\ Tail(q)[i] = q[i + 1]
  BY <1>1
<1>3. \A j \in 1 .. Len(q) : j = 1 \/ (j - 1 \in 1 .. Len(Tail(q)) /\ Tail(q)[j - 1] = q[j])
  BY <1>1, <1>2
<1> QED
  BY <1>1, <1>2, <1>3

LEMMA LastFacts ==
    ASSUME NEW S, NEW q \in Seq(S), q # <<>>
    PROVE  /\ Len(q) \in Nat \ {0} /\ DOMAIN q = 1 .. Len(q)
           /\ Last(q) = q[Len(q)] /\ Last(q) \in S
           /\ Front(q) \in Seq(S) /\ Len(Front(q)) = Len(q) - 1
           /\ DOMAIN Front(q) = 1 .. Len(q) - 1
           /\ \A i \in 1 .. Len(q) - 1 : Front(q)[i] = q[i]
<1>1. Len(q) \in Nat /\ Len(q) > 0 /\ DOMAIN q = 1 .. Len(q)
  OBVIOUS
<1>2. Last(q) = q[Len(q)] /\ Last(q) \in S
  BY <1>1 DEF Last
<1>3. Front(q) = SubSeq(q, 1, Len(q) - 1)
  BY DEF Front
<1>4. /\ SubSeq(q, 1, Len(q) - 1) \in Seq(S) /\ Len(SubSeq(q, 1, Len(q) - 1)) = Len(q) - 1
      /\ \A i \in 1 .. Len(q) - 1 : SubSeq(q, 1, Len(q) - 1)[i] = q[i]
  BY <1>1
<1> QED
  BY <1>1, <1>2, <1>3, <1>4

\* The last n elements of a sequence.
LEMMA SuffixFacts ==
    ASSUME NEW S, NEW q \in Seq(S), NEW n \in Nat, Len(q) > n
    PROVE  LET r == SubSeq(q, Len(q) - n + 1, Len(q))
           IN  /\ r \in Seq(S) /\ DOMAIN r = 1 .. n /\ Len(r) = n
               /\ \A i \in 1 .. n : r[i] = q[Len(q) - n + i] /\ Len(q) - n + i \in DOMAIN q
<1> DEFINE a == Len(q) - n + 1
<1>0. Len(q) \in Nat
  OBVIOUS
<1>1. Len(q) \in Nat /\ a \in 1 .. Len(q) + 1 /\ Len(q) - a + 1 = n
  BY <1>0
<1>2. SubSeq(q, a, Len(q)) \in Seq(S) /\ Len(SubSeq(q, a, Len(q))) = n
  BY <1>1
<1>3. \A i \in 1 .. n : SubSeq(q, a, Len(q))[i] = q[a + i - 1]
  BY <1>1, <1>2
<1> QED
  BY <1>1, <1>2, <1>3
-----------------------------------------------------------------------------
(* Types                                                                   *)

LEMMA SpawnedType == ASSUME NEW h \in Seq(Payload) PROVE Spawned(h) \in Worker
<1>1. NoCommand \in Command
  BY DEF NoCommand, Command
<1>2. NoEvent \in Event
  BY EventAssumption, TimeAssumption DEF NoEvent, Event, Shapes, Payload, Numbers, Times, Zero
<1> QED
  BY <1>1, <1>2, TimeAssumption DEF Spawned, Worker, Times

\* The locals of the worker.
LEMMA WorkerFields ==
    ASSUME TypeOK
    PROVE  /\ worker.pc \in {"recv", "write", "shift", "rename", "append", "sync", "commit"}
           /\ worker.command \in Command /\ worker.event \in Event
           /\ worker.hash \in Seq(Payload) /\ worker.time \in Times
           /\ worker.draining \in BOOLEAN /\ worker.flusher \in Callers \cup {NoCaller}
  BY DEF TypeOK, Worker

\* What a caller sends.
LEMMA SentTypes ==
    ASSUME TypeOK, sent < MaxEvents
    PROVE  /\ sent' = sent + 1 => sent' \in 0 .. MaxEvents
           /\ \A c \in Callers \cup {NoCaller} :
                [kind |-> "record", event |-> sent + 1, caller |-> c] \in Command
  BY EventAssumption DEF TypeOK, Command, Numbers

LEMMA NothingRunning == NoCommand \in Command /\ NoEvent \in Event /\ IdleCall \in Call
  BY EventAssumption, TimeAssumption
  DEF NoCommand, Command, NoEvent, Event, Shapes, Payload, Numbers, Times, Zero, IdleCall, Call

LEMMA CallerSteps ==
    ASSUME LogInv, NEW c \in Callers,
           record(c) \/ record_sync(c) \/ flush(c) \/ FlushTimesOut(c) \/ FlushReturns(c)
    PROVE  TypeOK'
<1> USE DEF LogInv
<1>0. sent \in Nat /\ 1 .. sent \subseteq Numbers
  BY EventAssumption DEF TypeOK, Numbers
<1>1. CASE record(c)
  <2>1. queue' \in Seq(Command)
    BY <1>1, SentTypes, AppendFacts DEF record, Send, TypeOK
  <2> QED
    BY <1>1, <2>1, SentTypes DEF record, disk, TypeOK
<1>2. CASE record_sync(c)
  <2>1. queue' \in Seq(Command)
    BY <1>2, SentTypes, AppendFacts DEF record_sync, Send, TypeOK
  <2>2. call' \in [Callers -> Call]
    <3>1. [pc |-> "sync", before |-> {}] \in Call
      BY DEF Call
    <3> QED
      BY <1>2, <3>1 DEF record_sync, TypeOK
  <2> QED
    BY <1>2, <2>1, <2>2, SentTypes DEF record_sync, disk, TypeOK
<1>3. CASE flush(c)
  <2>1. queue' \in Seq(Command)
    <3>1. [kind |-> "flush", event |-> 0, caller |-> c] \in Command
      BY DEF Command
    <3> QED
      BY <1>3, <3>1, AppendFacts DEF flush, Send, TypeOK
  <2>2. call' \in [Callers -> Call]
    <3>1. [pc |-> "flush", before |-> 1 .. sent] \in Call
      BY <1>0 DEF Call
    <3> QED
      BY <1>3, <3>1 DEF flush, TypeOK
  <2> QED
    BY <1>3, <2>1, <2>2 DEF flush, disk, ghosts, TypeOK
<1>4. CASE FlushTimesOut(c)
  <2>1. queue' \in Seq(Command)
    <3> DEFINE q == queue
    <3>1. \A i \in DOMAIN queue : queue'[i] \in Command
      <4> SUFFICES ASSUME NEW i \in DOMAIN queue PROVE queue'[i] \in Command
        OBVIOUS
      <4>1. queue[i] \in Command
        BY DEF TypeOK
      <4>2. [queue[i] EXCEPT !.caller = NoCaller] \in Command
        BY <4>1 DEF Command
      <4> QED
        BY <1>4, <4>1, <4>2 DEF FlushTimesOut
    <3>2. DOMAIN queue = 1 .. Len(queue) /\ Len(queue) \in Nat
      BY DEF TypeOK
    <3>3. queue' = [i \in 1 .. Len(queue) |-> queue'[i]]
      BY <1>4, <3>2 DEF FlushTimesOut
    <3> QED
      BY <3>1, <3>2, <3>3
  <2>2. call' \in [Callers -> Call]
    BY <1>4, NothingRunning DEF FlushTimesOut, TypeOK
  <2>3. worker' \in Worker
    BY <1>4 DEF FlushTimesOut, TypeOK, Worker
  <2> QED
    BY <1>4, <2>1, <2>2, <2>3 DEF FlushTimesOut, disk, ghosts, TypeOK
<1>5. CASE FlushReturns(c)
  BY <1>5, NothingRunning DEF FlushReturns, disk, ghosts, TypeOK
<1> QED
  BY <1>1, <1>2, <1>3, <1>4, <1>5

\* The end of a record.
LEMMA FinishTypes ==
    ASSUME LogInv, Busy, NEW ok, Finish(ok)
    PROVE  worker' \in Worker /\ call' \in [Callers -> Call]
           /\ done' \subseteq Numbers /\ acked' \subseteq Numbers
<1>1. worker' \in Worker
  BY NothingRunning DEF Finish, LogInv, TypeOK, Worker
<1>2. worker.command.event \in Numbers
  BY EventAssumption DEF LogInv, NumbersInv, TypeOK, Numbers
<1>3. call' \in [Callers -> Call]
  BY NothingRunning DEF Finish, LogInv, TypeOK
<1> QED
  BY <1>1, <1>2, <1>3 DEF Finish, LogInv, TypeOK

\* A rotation sets where it is, and leaves the record under way alone.
LEMMA RotatingType ==
    ASSUME TypeOK, NEW g \in Generations \cup {0}
    PROVE  /\ Rotating(g) \in Worker /\ Rotating(g).gen = g
           /\ Rotating(g).pc = IF g = 0 THEN "rename" ELSE "shift"
           /\ Rotating(g).event = worker.event /\ Rotating(g).hash = worker.hash
           /\ Rotating(g).time = worker.time /\ Rotating(g).command = worker.command
           /\ Rotating(g).flusher = worker.flusher
  BY DEF Rotating, TypeOK, Worker

\* What a rename of one generation to the next does to the files.
LEMMA ShiftFacts ==
    ASSUME TypeOK, DiskInv, WorkerShifts
    PROVE  \E g, n \in Generations :
              /\ worker.gen = g /\ n = g + 1 /\ g < MAX_ROTATED
              /\ n # MAX_ROTATED => rotated[n] = <<>>
              /\ rotated' \in [Generations -> Seq(Event)] /\ rotated'[g] = <<>>
              /\ \A k \in Generations \ {g, n} : rotated'[k] = rotated[k]
              /\ \/ rotated' = rotated /\ discarded' = discarded
                 \/ /\ rotated'[n] = rotated[g]
                    /\ discarded' = discarded \cup
                         IF n = MAX_ROTATED THEN EventsOf(rotated[n]) ELSE {}
<1> DEFINE g == worker.gen
           n == g + 1
<1>1. /\ g \in Generations /\ n \in Generations /\ g # n /\ g < MAX_ROTATED
      /\ n # MAX_ROTATED => rotated[n] = <<>>
  BY RotatedAssumption DEF DiskInv, WorkerShifts, Generations
<1>2. rotated \in [Generations -> Seq(Event)] /\ <<>> \in Seq(Event)
  BY DEF TypeOK
<1>3. CASE rotated[g] = <<>>
  <2>1. rotated' = rotated /\ discarded' = discarded
    BY <1>3 DEF WorkerShifts
  <2> QED
    BY <1>1, <1>2, <1>3, <2>1
<1>4. CASE rotated[g] # <<>>
  <2>1. /\ rotated' = [rotated EXCEPT ![n] = rotated[g], ![g] = <<>>]
        /\ discarded' = discarded \cup
             IF n = MAX_ROTATED THEN EventsOf(rotated[n]) ELSE {}
    BY <1>4 DEF WorkerShifts
  <2> HIDE DEF n, g
  <2>2. /\ rotated' \in [Generations -> Seq(Event)] /\ rotated'[g] = <<>>
        /\ rotated'[n] = rotated[g]
        /\ \A k \in Generations \ {g, n} : rotated'[k] = rotated[k]
    BY <1>1, <1>2, <2>1
  <2> QED
    BY <1>1, <2>1, <2>2 DEF n, g
<1> QED
  BY <1>3, <1>4

\* What a failed write leaves.
LEMMA PartOfLine ==
    ASSUME TypeOK, PartlyWritten
    PROVE  file' = file \/ \E x \in Event : file' = Append(file, x)
<1>1. Fragment \in Event /\ OpenLine \in Event
  BY WorkerFields DEF Fragment, OpenLine, Event, Shapes
<1> QED
  BY <1>1 DEF PartlyWritten

LEMMA WorkerTypes ==
    ASSUME LogInv, WorkerStep
    PROVE  TypeOK'
<1> USE DEF LogInv
<1>0. \A e \in 1 .. sent : e \in Numbers
  BY EventAssumption DEF TypeOK, Numbers
<1>1. ASSUME queue # <<>>, queue' = Tail(queue)
      PROVE  queue' \in Seq(Command) /\ Head(queue) \in Command /\ Head(queue) = queue[1] /\ 1 \in DOMAIN queue
  BY <1>1, TailFacts DEF TypeOK
<1>2. ASSUME NEW m \in Command PROVE m.caller \in Callers \cup {NoCaller}
  BY DEF Command
<1>3. ASSUME NEW now \in Times, WorkerTakesRecord(now) PROVE TypeOK'
  <2> DEFINE e == [payload |-> [event |-> Head(queue).event, time |-> Timestamp(now)],
                   previous |-> worker.hash, shape |-> "line"]
  <2>1. queue' \in Seq(Command) /\ Head(queue) \in Command /\ Head(queue).event \in Numbers
    BY <1>0, <1>1, <1>3 DEF WorkerTakesRecord, NumbersInv, IsRecord
  <2>2. Timestamp(now) \in Times
    BY <1>3, TimeAssumption DEF WorkerTakesRecord, Timestamp, Times, TypeOK, Worker
  <2>3. e \in Event /\ e.payload \in Payload
    BY <2>1, <2>2 DEF Event, Shapes, Payload, TypeOK, Worker
  <2>4. ChainHash(worker.hash, e) \in Seq(Payload)
    BY <2>3, AppendFacts DEF ChainHash, TypeOK, Worker
  <2>5. worker' = [worker EXCEPT !.pc = "write", !.command = Head(queue), !.event = e,
                                 !.hash = ChainHash(worker.hash, e), !.time = Timestamp(now)]
    BY <1>3 DEF WorkerTakesRecord
  <2> HIDE DEF e
  <2>6. worker' \in Worker
    BY <2>1, <2>2, <2>3, <2>4, <2>5 DEF TypeOK, Worker
  <2> QED
    BY <1>3, <2>1, <2>6 DEF WorkerTakesRecord, disk, ghosts, TypeOK
<1>4. ASSUME NEW now \in Times, WorkerRefuses(now) PROVE TypeOK'
  <2>1. queue' \in Seq(Command) /\ Head(queue) \in Command /\ Head(queue).event \in Numbers
    BY <1>0, <1>1, <1>4 DEF WorkerRefuses, NumbersInv, IsRecord
  <2>2. call' \in [Callers -> Call]
    BY <1>4, NothingRunning DEF WorkerRefuses, TypeOK
  <2> QED
    BY <1>4, <2>1, <2>2 DEF WorkerRefuses, disk, TypeOK
<1>5. ASSUME NEW c \in Callers \cup {NoCaller}, Acknowledge(c) PROVE call' \in [Callers -> Call]
  <2>1. CASE c = NoCaller
    BY <1>5, <2>1 DEF Acknowledge, TypeOK
  <2>2. CASE c # NoCaller
    <3>1. c \in Callers /\ [call[c] EXCEPT !.pc = "flushed"] \in Call
      BY <2>2 DEF Call, TypeOK
    <3> QED
      BY <1>5, <2>2, <3>1 DEF Acknowledge, TypeOK
  <2> QED
    BY <2>1, <2>2
<1>6. CASE WorkerTakesFlush
  <2>1. queue' \in Seq(Command) /\ Head(queue).caller \in Callers \cup {NoCaller}
    BY <1>1, <1>2, <1>6 DEF WorkerTakesFlush
  <2>2. worker' \in Worker
    BY <1>6, <2>1 DEF WorkerTakesFlush, TypeOK, Worker
  <2>3. call' \in [Callers -> Call]
    BY <1>5, <1>6, <2>1 DEF WorkerTakesFlush, TypeOK
  <2> QED
    BY <1>6, <2>1, <2>2, <2>3 DEF WorkerTakesFlush, disk, ghosts, TypeOK
<1>7. CASE WorkerDrained
  <2>1. worker' \in Worker
    BY <1>7 DEF WorkerDrained, TypeOK, Worker
  <2>2. call' \in [Callers -> Call]
    BY <1>5, <1>7, WorkerFields DEF WorkerDrained
  <2> QED
    BY <1>7, <2>1, <2>2 DEF WorkerDrained, disk, ghosts, TypeOK
<1>8. CASE WorkerOpensFile \/ WorkerSyncs
  <2>1. MAX_ROTATED - 1 \in Generations \cup {0}
    BY RotatedAssumption DEF Generations
  <2>2. worker' \in Worker
    <3>1. Rotating(MAX_ROTATED - 1) \in Worker
      BY <2>1, RotatingType
    <3>2. ASSUME NEW p \in {"append", "commit"} PROVE [worker EXCEPT !.pc = p] \in Worker
      BY DEF TypeOK, Worker
    <3> QED
      BY <1>8, <3>1, <3>2 DEF WorkerOpensFile, WorkerSyncs
  <2> QED
    BY <1>8, <2>2 DEF WorkerOpensFile, WorkerSyncs, disk, ghosts, TypeOK
<1>9. ASSUME NEW lines \in Seq(Event) PROVE EventsOf(lines) \subseteq Numbers
  <2>1. \A i \in DOMAIN lines : lines[i] \in Event
    BY <1>9
  <2>2. \A e \in Event : e.payload.event \in Numbers
    BY DEF Event, Payload
  <2> QED
    BY <2>1, <2>2 DEF EventsOf
<1>10. CASE WorkerShifts
  <2>1. PICK g, n \in Generations :
           /\ worker.gen = g
           /\ rotated' \in [Generations -> Seq(Event)]
           /\ \/ discarded' = discarded
              \/ discarded' = discarded \cup IF n = MAX_ROTATED THEN EventsOf(rotated[n]) ELSE {}
    BY <1>10, ShiftFacts
  <2>2. worker' \in Worker
    <3>1. g - 1 \in Generations \cup {0} /\ worker' = Rotating(g - 1)
      BY <1>10, <2>1, RotatedAssumption DEF WorkerShifts, Generations
    <3> QED
      BY <3>1, RotatingType
  <2>3. rotated[n] \in Seq(Event)
    BY DEF TypeOK
  <2>4. discarded' \subseteq Numbers
    BY <1>9, <2>1, <2>3 DEF TypeOK
  <2> QED
    BY <1>10, <2>1, <2>2, <2>4 DEF WorkerShifts, TypeOK
<1>11. CASE WorkerRenames
  <2>1. worker' \in Worker
    BY <1>11 DEF WorkerRenames, TypeOK, Worker
  <2>2. rotated' \in [Generations -> Seq(Event)] /\ file' \in Seq(Event)
    <3>1. rotated \in [Generations -> Seq(Event)] /\ file \in Seq(Event)
      BY DEF TypeOK
    <3>2. [rotated EXCEPT ![1] = file] \in [Generations -> Seq(Event)]
      BY <3>1
    <3> QED
      BY <1>11, <3>2 DEF WorkerRenames
  <2>3. discarded' \subseteq Numbers
    <3>1. rotated[1] \in Seq(Event)
      BY RotatedAssumption DEF TypeOK, Generations
    <3> QED
      BY <1>9, <1>11, <3>1 DEF WorkerRenames, TypeOK
  <2> QED
    BY <1>11, <2>1, <2>2, <2>3 DEF WorkerRenames, TypeOK
<1>12. CASE WorkerAppends
  <2>1. worker' \in Worker
    BY <1>12 DEF WorkerAppends, TypeOK, Worker
  <2>2. file' \in Seq(Event)
    BY <1>12, WorkerFields, AppendFacts DEF WorkerAppends, TypeOK
  <2> QED
    BY <1>12, <2>1, <2>2 DEF WorkerAppends, ghosts, TypeOK
<1>13. CASE WorkerFails
  <2>1. Busy /\ Finish(FALSE)
    BY <1>13 DEF WorkerFails, Busy
  <2>2. file' \in Seq(Event)
    <3>1. file \in Seq(Event) /\ (file' = file \/ \E x \in Event : file' = Append(file, x))
      BY <1>13, PartOfLine DEF WorkerFails, TypeOK
    <3> QED
      BY <3>1
  <2> QED
    BY <1>13, <2>1, <2>2, FinishTypes DEF WorkerFails, TypeOK
<1>14. CASE WorkerCommits
  <2>1. Busy /\ Finish(TRUE)
    BY <1>14 DEF WorkerCommits, Busy
  <2>2. entries' \in Seq(Event)
    <3> DEFINE all == Append(entries, worker.event)
    <3>1. all \in Seq(Event)
      BY WorkerFields, AppendFacts DEF TypeOK
    <3>2. entries' = IF Len(all) > MAX_ENTRIES THEN SubSeq(all, Len(all) - MAX_ENTRIES + 1, Len(all)) ELSE all
      BY <1>14 DEF WorkerCommits
    <3> HIDE DEF all
    <3> QED
      BY <3>1, <3>2, SuffixFacts, EntriesAssumption
  <2> QED
    BY <1>14, <2>1, <2>2, FinishTypes DEF WorkerCommits, disk, TypeOK
<1> QED
  BY <1>3, <1>4, <1>6, <1>7, <1>8, <1>10, <1>11, <1>12, <1>13, <1>14 DEF WorkerStep

LEMMA ProcessTypes ==
    ASSUME LogInv, Close \/ Open \/ Crash
    PROVE  TypeOK'
<1> USE DEF LogInv
<1>1. CASE Close
  BY <1>1 DEF Close, disk, ghosts, TypeOK
<1>2. CASE Open
  <2>1. PrefixHash(file, Len(file)) \in Seq(Payload) /\ Zero \in Seq(Payload)
    <3>1. file \in Seq(Event) /\ Len(file) \in Nat
      BY DEF TypeOK
    <3>2. \A i \in 1 .. Len(file) : file[i] \in Event
      BY <3>1
    <3>3. \A i \in 1 .. Len(file) : file[i].payload \in Payload
      BY <3>2 DEF Event
    <3> QED
      BY <3>1, <3>3 DEF PrefixHash, Zero
  <2>2. worker' \in Worker
    BY <1>2, <2>1, SpawnedType DEF Open
  <2> QED
    BY <1>2, <2>2 DEF Open, disk, ghosts, TypeOK
<1>3. CASE Crash
  <2>1. worker' \in Worker
    <3>1. Zero \in Seq(Payload)
      BY DEF Zero
    <3> QED
      BY <1>3, <3>1, SpawnedType DEF Crash
  <2>2. call' \in [Callers -> Call]
    BY <1>3, NothingRunning DEF Crash
  <2>3. file' \in Seq(Event)
    <3>1. CASE worker.pc = "sync"
      <4>1. Last(file) \in Event /\ Front(file) \in Seq(Event)
        BY <3>1, LastFacts DEF DiskInv, TypeOK
      <4>2. ASSUME NEW shape \in {"open", "cut"}
            PROVE  [Last(file) EXCEPT !.shape = shape] \in Event
        BY <4>1 DEF Event, Shapes
      <4>3. ASSUME NEW shape \in {"open", "cut"}
            PROVE  Append(Front(file), [Last(file) EXCEPT !.shape = shape]) \in Seq(Event)
        BY <4>1, <4>2, AppendFacts
      <4> QED
        BY <1>3, <4>1, <4>3 DEF Crash, TypeOK
    <3> QED
      BY <1>3, <3>1 DEF Crash, TypeOK
  <2>4. done' \subseteq Numbers
    BY <1>3, EventAssumption DEF Crash, TypeOK, Numbers
  <2>5. disturbed' \in BOOLEAN
    BY <1>3 DEF Crash, TypeOK
  <2>6. queue' \in Seq(Command) /\ entries' \in Seq(Event)
    <3>1. queue' = <<>> /\ entries' = <<>>
      BY <1>3 DEF Crash
    <3> QED
      BY <3>1
  <2>7. open' \in BOOLEAN
    BY <1>3 DEF Crash
  <2> QED
    BY <1>3, <2>1, <2>2, <2>3, <2>4, <2>5, <2>6, <2>7 DEF Crash, TypeOK
<1> QED
  BY <1>1, <1>2, <1>3

-----------------------------------------------------------------------------
(* The numbers of the events                                               *)

\* Sending puts a command behind the others.
LEMMA SendsNumber ==
    ASSUME LogInv, NEW m \in Command, queue' = Append(queue, m),
           UNCHANGED <<worker, done, acked>>,
           \/ m.kind = "record" /\ m.event = sent + 1 /\ sent' = sent + 1
           \/ m.kind # "record" /\ sent' = sent
    PROVE  NumbersInv'
<1> USE DEF LogInv
<1> DEFINE n == Len(queue)
<1>1. /\ n \in Nat /\ DOMAIN queue = 1 .. n /\ DOMAIN queue' = 1 .. n + 1
      /\ queue'[n + 1] = m
      /\ \A i \in 1 .. n : queue'[i] = queue[i]
  BY AppendFacts DEF TypeOK
<1> HIDE DEF n
<1>2. sent \in Nat /\ sent' \in Nat /\ sent <= sent' /\ 1 .. sent \subseteq 1 .. sent'
  BY DEF TypeOK
<1>3. done' \subseteq 1 .. sent' /\ acked' \subseteq done'
  BY <1>2 DEF NumbersInv
<1>4. Busy' = Busy
  BY DEF Busy
<1>5. Busy' => /\ worker'.command.event \in 1 .. sent'
               /\ worker'.event.payload.event = worker'.command.event
               /\ \A d \in done' : d < worker'.command.event
  BY <1>2, <1>4 DEF NumbersInv
<1>6. ASSUME NEW i \in DOMAIN queue', IsRecord(i)'
      PROVE  /\ queue'[i].event \in 1 .. sent'
             /\ \A d \in done' : d < queue'[i].event
             /\ Busy' => worker'.command.event < queue'[i].event
             /\ \A j \in DOMAIN queue' : IsRecord(j)' /\ i < j => queue'[i].event < queue'[j].event
  <2>1. CASE i = n + 1
    <3>1. m.kind = "record" /\ queue'[i].event = sent + 1 /\ sent' = sent + 1
      BY <1>1, <1>6, <2>1 DEF IsRecord
    <3> QED
      BY <1>1, <1>2, <1>4, <2>1, <3>1 DEF NumbersInv
  <2>2. CASE i \in 1 .. n
    <3>1. IsRecord(i) /\ queue'[i] = queue[i] /\ i \in DOMAIN queue
      BY <1>1, <1>6, <2>2 DEF IsRecord
    <3>2. ASSUME NEW j \in DOMAIN queue', IsRecord(j)', i < j
          PROVE  queue'[i].event < queue'[j].event
      <4>1. CASE j = n + 1
        <5>1. queue'[j].event = sent + 1
          BY <1>1, <3>2, <4>1 DEF IsRecord
        <5> QED
          BY <1>2, <3>1, <5>1 DEF NumbersInv
      <4>2. CASE j \in 1 .. n
        BY <1>1, <3>1, <3>2, <4>2 DEF NumbersInv, IsRecord
      <4> QED
        BY <1>1, <4>1, <4>2
    <3> QED
      BY <1>2, <1>4, <3>1, <3>2 DEF NumbersInv
  <2> QED
    BY <1>1, <2>1, <2>2
<1>7. ASSUME NEW e \in 1 .. sent'
      PROVE  \/ e \in done'
             \/ Busy' /\ e = worker'.command.event
             \/ \E i \in DOMAIN queue' : IsRecord(i)' /\ queue'[i].event = e
  <2>1. CASE e \in 1 .. sent
    <3>1. \A i \in DOMAIN queue : i \in DOMAIN queue' /\ queue'[i] = queue[i]
      BY <1>1
    <3> QED
      BY <1>4, <2>1, <3>1 DEF NumbersInv, IsRecord
  <2>2. CASE e \notin 1 .. sent
    <3>1. e = sent + 1 /\ m.kind = "record" /\ m.event = e
      BY <1>2, <2>2
    <3>2. n + 1 \in DOMAIN queue' /\ queue'[n + 1] = m
      BY <1>1
    <3> QED
      BY <3>1, <3>2 DEF IsRecord
  <2> QED
    BY <2>1, <2>2
<1> QED
  BY <1>3, <1>5, <1>6, <1>7 DEF NumbersInv

\* Commands that keep their places, kinds and events.
LEMMA SameNumbers ==
    ASSUME LogInv, DOMAIN queue' = DOMAIN queue,
           \A i \in DOMAIN queue : queue'[i].kind = queue[i].kind /\ queue'[i].event = queue[i].event,
           UNCHANGED <<sent, done, acked>>, Busy' = Busy,
           Busy => worker'.command.event = worker.command.event /\ worker'.event = worker.event
    PROVE  NumbersInv'
<1>1. \A i \in DOMAIN queue : IsRecord(i)' = IsRecord(i)
  BY DEF IsRecord
<1>2. NumbersInv
  BY DEF LogInv
<1> QED
  BY <1>1, <1>2 DEF NumbersInv

\* The first command goes to the worker, or is done with at once.
LEMMA TakesNumber ==
    ASSUME LogInv, queue # <<>>, queue' = Tail(queue), ~Busy, UNCHANGED <<sent, acked>>,
           LET m == Head(queue)
           IN  \/ /\ m.kind = "record" /\ UNCHANGED done /\ Busy'
                  /\ worker'.command = m /\ worker'.event.payload.event = m.event
               \/ m.kind = "record" /\ done' = done \cup {m.event} /\ ~Busy'
               \/ m.kind # "record" /\ UNCHANGED done /\ ~Busy'
    PROVE  NumbersInv'
<1> USE DEF LogInv
<1> DEFINE m == Head(queue)
<1>1. /\ m = queue[1] /\ 1 \in DOMAIN queue
      /\ \A i \in DOMAIN queue' : i \in Nat /\ i + 1 \in DOMAIN queue /\ queue'[i] = queue[i + 1] /\ 1 < i + 1
      /\ \A j \in DOMAIN queue : j = 1 \/ (j - 1 \in DOMAIN queue' /\ queue'[j - 1] = queue[j])
  <2>1. /\ m = queue[1] /\ 1 \in DOMAIN queue
        /\ DOMAIN queue' = 1 .. Len(queue) - 1 /\ Len(queue) \in Nat
        /\ \A i \in DOMAIN queue' : i + 1 \in DOMAIN queue /\ queue'[i] = queue[i + 1]
        /\ \A j \in DOMAIN queue : j = 1 \/ (j - 1 \in DOMAIN queue' /\ queue'[j - 1] = queue[j])
    BY TailFacts DEF TypeOK
  <2> QED
    BY <2>1
<1>2. m.kind = "record" =>
        /\ m.event \in 1 .. sent
        /\ \A d \in done : d < m.event
        /\ \A j \in DOMAIN queue : IsRecord(j) /\ 1 < j => m.event < queue[j].event
  BY <1>1 DEF NumbersInv, IsRecord
<1>3. sent \in Nat
  BY DEF TypeOK
<1>4. done' \subseteq 1 .. sent' /\ acked' \subseteq done'
  BY <1>2 DEF NumbersInv
<1>5. Busy' => /\ worker'.command.event \in 1 .. sent'
               /\ worker'.event.payload.event = worker'.command.event
               /\ \A d \in done' : d < worker'.command.event
  BY <1>2
<1>6. ASSUME NEW i \in DOMAIN queue', IsRecord(i)'
      PROVE  /\ queue'[i].event \in 1 .. sent'
             /\ \A d \in done' : d < queue'[i].event
             /\ Busy' => worker'.command.event < queue'[i].event
             /\ \A j \in DOMAIN queue' : IsRecord(j)' /\ i < j => queue'[i].event < queue'[j].event
  <2>1. /\ i + 1 \in DOMAIN queue /\ IsRecord(i + 1) /\ queue'[i] = queue[i + 1] /\ 1 < i + 1
    BY <1>1, <1>6 DEF IsRecord
  <2>2. /\ queue[i + 1].event \in 1 .. sent
        /\ \A d \in done : d < queue[i + 1].event
        /\ \A j \in DOMAIN queue : IsRecord(j) /\ i + 1 < j => queue[i + 1].event < queue[j].event
    BY <2>1 DEF NumbersInv
  <2>3. m.kind = "record" => m.event < queue[i + 1].event
    BY <1>2, <2>1
  <2>4. \A d \in done' : d < queue'[i].event
    BY <2>1, <2>2, <2>3
  <2>5. Busy' => worker'.command.event < queue'[i].event
    BY <2>1, <2>3
  <2>6. ASSUME NEW j \in DOMAIN queue', IsRecord(j)', i < j
        PROVE  queue'[i].event < queue'[j].event
    <3>1. j + 1 \in DOMAIN queue /\ IsRecord(j + 1) /\ queue'[j] = queue[j + 1] /\ i + 1 < j + 1
      BY <1>1, <2>6 DEF IsRecord
    <3> QED
      BY <2>1, <2>2, <3>1
  <2> QED
    BY <2>1, <2>2, <2>4, <2>5, <2>6
<1>7. ASSUME NEW e \in 1 .. sent'
      PROVE  \/ e \in done'
             \/ Busy' /\ e = worker'.command.event
             \/ \E i \in DOMAIN queue' : IsRecord(i)' /\ queue'[i].event = e
  <2>1. e \in done \/ \E i \in DOMAIN queue : IsRecord(i) /\ queue[i].event = e
    BY <1>7 DEF NumbersInv
  <2>2. CASE e \in done
    BY <2>2
  <2>3. ASSUME NEW i \in DOMAIN queue, IsRecord(i), queue[i].event = e
        PROVE  \/ e \in done'
               \/ Busy' /\ e = worker'.command.event
               \/ \E k \in DOMAIN queue' : IsRecord(k)' /\ queue'[k].event = e
    <3>1. CASE i = 1
      BY <1>1, <2>3, <3>1 DEF IsRecord
    <3>2. CASE i # 1
      BY <1>1, <2>3, <3>2 DEF IsRecord
    <3> QED
      BY <3>1, <3>2
  <2> QED
    BY <2>1, <2>2, <2>3
<1> QED
  BY <1>4, <1>5, <1>6, <1>7 DEF NumbersInv

\* The worker is through with its event.
LEMMA FinishesNumber ==
    ASSUME LogInv, Busy, UNCHANGED <<queue, sent>>, NEW ok, Finish(ok)
    PROVE  NumbersInv'
<1> USE DEF LogInv
<1>1. /\ ~Busy' /\ done' = done \cup {worker.command.event}
      /\ acked' \subseteq acked \cup {worker.command.event}
  BY DEF Finish, Busy, TypeOK, Worker
<1>3. \A i \in DOMAIN queue : IsRecord(i)' = IsRecord(i)
  BY DEF IsRecord
<1>4. NumbersInv
  OBVIOUS
<1> QED
  BY <1>1, <1>3, <1>4 DEF NumbersInv

-----------------------------------------------------------------------------
(* The callers that wait                                                   *)

\* A caller that does not wait has no command.
LEMMA NoneOf ==
    ASSUME LogInv, NEW c \in Callers, call[c].pc \notin {"sync", "flush"}
    PROVE  /\ \A i \in DOMAIN queue : queue[i].caller # c
           /\ worker.flusher # c /\ (Busy => worker.command.caller # c)
  BY DEF LogInv, CallersInv, IsRecord

LEMMA SendsCaller ==
    ASSUME LogInv, NEW c0 \in Callers, call[c0].pc = "idle", NEW m \in Command,
           queue' = Append(queue, m), UNCHANGED <<worker, done>>,
           sent' \in Nat, sent <= sent', m.caller \in {c0, NoCaller},
           m.kind = "record" => m.event = sent + 1,
           \A d \in Callers \ {c0} : call'[d] = call[d],
           m.caller = c0 => call'[c0].pc = IF m.kind = "record" THEN "sync" ELSE "flush",
           call'[c0].pc # "flushed", call'[c0].before \subseteq 1 .. sent
    PROVE  CallersInv' /\ FlushDrains'
<1> USE DEF LogInv
<1> DEFINE n == Len(queue)
<1>1. /\ n \in Nat /\ DOMAIN queue = 1 .. n /\ DOMAIN queue' = 1 .. n + 1
      /\ queue'[n + 1] = m
      /\ \A i \in 1 .. n : queue'[i] = queue[i]
  BY AppendFacts DEF TypeOK
<1> HIDE DEF n
<1>2. sent \in Nat /\ 1 .. sent \subseteq 1 .. sent' /\ sent + 1 \notin 1 .. sent
  BY DEF TypeOK
<1>3. NoCaller \notin Callers
  BY CallerAssumption
<1>4. /\ \A i \in DOMAIN queue : queue[i].caller # c0
      /\ worker.flusher # c0 /\ (Busy => worker.command.caller # c0)
  BY NoneOf
<1>5. Busy' = Busy
  BY DEF Busy
<1>6. ASSUME NEW i \in DOMAIN queue', NEW c \in Callers, queue'[i].caller = c
      PROVE  /\ call'[c].pc = IF IsRecord(i)' THEN "sync" ELSE "flush"
             /\ worker'.flusher # c
             /\ Busy' => worker'.command.caller # c
             /\ \A j \in DOMAIN queue' : queue'[j].caller = c => j = i
             /\ \A j \in DOMAIN queue' : ~IsRecord(i)' /\ i < j /\ IsRecord(j)' =>
                   queue'[j].event \notin call'[c].before
  <2>1. CASE i = n + 1
    <3>1. c = c0 /\ m.caller = c0
      BY <1>1, <1>3, <1>6, <2>1
    <3>2. \A j \in DOMAIN queue' : queue'[j].caller = c => j = i
      BY <1>1, <1>4, <2>1, <3>1
    <3>3. call'[c].pc = IF IsRecord(i)' THEN "sync" ELSE "flush"
      BY <1>1, <2>1, <3>1 DEF IsRecord
    <3> QED
      BY <1>1, <1>4, <1>5, <2>1, <3>1, <3>2, <3>3
  <2>2. CASE i \in 1 .. n
    <3>1. i \in DOMAIN queue /\ queue'[i] = queue[i] /\ c # c0 /\ call'[c] = call[c]
      BY <1>1, <1>4, <1>6, <2>2
    <3>2. /\ call[c].pc = IF IsRecord(i) THEN "sync" ELSE "flush"
          /\ worker.flusher # c
          /\ Busy => worker.command.caller # c
          /\ \A j \in DOMAIN queue : queue[j].caller = c => j = i
          /\ \A j \in DOMAIN queue : ~IsRecord(i) /\ i < j /\ IsRecord(j) =>
                queue[j].event \notin call[c].before
      BY <1>6, <3>1 DEF CallersInv
    <3>3. IsRecord(i)' = IsRecord(i)
      BY <3>1 DEF IsRecord
    <3>4. \A j \in DOMAIN queue' : queue'[j].caller = c => j = i
      BY <1>1, <1>3, <3>1, <3>2
    <3>5. ASSUME NEW j \in DOMAIN queue', ~IsRecord(i)', i < j, IsRecord(j)'
          PROVE  queue'[j].event \notin call'[c].before
      <4>1. CASE j = n + 1
        <5>1. queue'[j].event = sent + 1
          BY <1>1, <3>5, <4>1 DEF IsRecord
        <5>2. call[c].before \subseteq 1 .. sent
          BY DEF CallersInv
        <5> QED
          BY <1>2, <3>1, <5>1, <5>2
      <4>2. CASE j \in 1 .. n
        BY <1>1, <3>1, <3>2, <3>3, <3>5, <4>2 DEF IsRecord
      <4> QED
        BY <1>1, <4>1, <4>2
    <3> QED
      BY <1>5, <3>1, <3>2, <3>3, <3>4, <3>5
  <2> QED
    BY <1>1, <2>1, <2>2
<1>7. ASSUME NEW c \in Callers
      PROVE  /\ worker'.flusher = c => call'[c].pc = "flush"
             /\ Busy' /\ worker'.command.caller = c => call'[c].pc = "sync"
             /\ call'[c].before \subseteq 1 .. sent'
             /\ call'[c].pc = "flushed" => call'[c].before \subseteq done'
  BY <1>2, <1>4, <1>5 DEF CallersInv, FlushDrains
<1>8. CallersInv'
  BY <1>6, <1>7 DEF CallersInv
<1> QED
  BY <1>7, <1>8 DEF FlushDrains

\* The command of one caller at most is answered or given up; the others keep
\* their places, or all move up by one.
LEMMA AnswersCaller ==
    ASSUME LogInv, NEW x, NEW k \in {0, 1},
           \A i \in DOMAIN queue' :
              /\ i \in Nat /\ i + k \in DOMAIN queue
              /\ queue'[i].kind = queue[i + k].kind /\ queue'[i].event = queue[i + k].event
              /\ queue'[i].caller \in {queue[i + k].caller, NoCaller}
              /\ x \in Callers => queue'[i].caller # x,
           UNCHANGED sent, done \subseteq done',
           worker'.flusher \in {worker.flusher, NoCaller}, x \in Callers => worker'.flusher # x,
           Busy' => Busy /\ worker'.command = worker.command,
           x \in Callers => call'[x].pc \in {"idle", "flushed"}
                            /\ call'[x].before \in {{}, call[x].before},
           x \in Callers /\ call'[x].pc = "flushed" => call'[x].before \subseteq done',
           x \in Callers => ~(Busy' /\ worker.command.caller = x),
           \A d \in Callers : d # x => call'[d] = call[d]
    PROVE  CallersInv' /\ FlushDrains'
<1> USE DEF LogInv
<1>1. NoCaller \notin Callers
  BY CallerAssumption
<1>2. \A i \in DOMAIN queue' : IsRecord(i)' = IsRecord(i + k)
  BY DEF IsRecord
<1>3. ASSUME NEW i \in DOMAIN queue', NEW c \in Callers, queue'[i].caller = c
      PROVE  /\ call'[c].pc = IF IsRecord(i)' THEN "sync" ELSE "flush"
             /\ worker'.flusher # c
             /\ Busy' => worker'.command.caller # c
             /\ \A j \in DOMAIN queue' : queue'[j].caller = c => j = i
             /\ \A j \in DOMAIN queue' : ~IsRecord(i)' /\ i < j /\ IsRecord(j)' =>
                   queue'[j].event \notin call'[c].before
  <2>1. c # x /\ call'[c] = call[c] /\ i + k \in DOMAIN queue /\ queue[i + k].caller = c /\ i \in Nat
    BY <1>1, <1>3
  <2>2. /\ call[c].pc = IF IsRecord(i + k) THEN "sync" ELSE "flush"
        /\ worker.flusher # c
        /\ Busy => worker.command.caller # c
        /\ \A j \in DOMAIN queue : queue[j].caller = c => j = i + k
        /\ \A j \in DOMAIN queue : ~IsRecord(i + k) /\ i + k < j /\ IsRecord(j) =>
              queue[j].event \notin call[c].before
    BY <2>1 DEF CallersInv
  <2>3. ASSUME NEW j \in DOMAIN queue', queue'[j].caller = c PROVE j = i
    <3>1. j + k \in DOMAIN queue /\ queue[j + k].caller = c /\ j \in Nat
      BY <1>1, <2>3
    <3>2. j + k = i + k
      BY <2>2, <3>1
    <3> QED
      BY <2>1, <3>1, <3>2
  <2>4. ASSUME NEW j \in DOMAIN queue', ~IsRecord(i)', i < j, IsRecord(j)'
        PROVE  queue'[j].event \notin call'[c].before
    <3>1. j + k \in DOMAIN queue /\ j \in Nat /\ IsRecord(j + k) /\ i + k < j + k
          /\ queue'[j].event = queue[j + k].event
      BY <1>2, <2>1, <2>4
    <3> QED
      BY <1>2, <2>1, <2>2, <2>4, <3>1
  <2>5. worker'.flusher # c
    BY <1>1, <2>2
  <2> QED
    BY <1>2, <2>1, <2>2, <2>3, <2>4, <2>5
<1>4. ASSUME NEW c \in Callers
      PROVE  /\ worker'.flusher = c => call'[c].pc = "flush"
             /\ Busy' /\ worker'.command.caller = c => call'[c].pc = "sync"
             /\ call'[c].before \subseteq 1 .. sent'
             /\ call'[c].pc = "flushed" => call'[c].before \subseteq done'
  <2>1. CASE c = x
    BY <2>1 DEF CallersInv, FlushDrains
  <2>2. CASE c # x
    BY <1>1, <2>2 DEF CallersInv, FlushDrains
  <2> QED
    BY <2>1, <2>2
<1>5. CallersInv'
  BY <1>3, <1>4 DEF CallersInv
<1> QED
  BY <1>4, <1>5 DEF FlushDrains

\* The first command passes from the channel to the worker.
LEMMA HandsCaller ==
    ASSUME LogInv, queue # <<>>, queue' = Tail(queue), ~Busy, UNCHANGED <<call, sent, done>>,
           \/ Head(queue).kind = "record" /\ worker'.command = Head(queue)
              /\ worker'.flusher = worker.flusher
           \/ Head(queue).kind # "record" /\ worker'.flusher = Head(queue).caller /\ ~Busy'
    PROVE  CallersInv' /\ FlushDrains'
<1> USE DEF LogInv
<1> DEFINE m == Head(queue)
<1>1. /\ m = queue[1] /\ 1 \in DOMAIN queue
      /\ DOMAIN queue' = 1 .. Len(queue) - 1 /\ Len(queue) \in Nat
      /\ \A i \in DOMAIN queue' : i + 1 \in DOMAIN queue /\ queue'[i] = queue[i + 1]
  BY TailFacts DEF TypeOK
<1>2. \A i \in DOMAIN queue' : i \in Nat /\ i + 1 # 1 /\ IsRecord(i)' = IsRecord(i + 1)
  BY <1>1 DEF IsRecord
<1>3. ASSUME NEW c \in Callers, m.caller = c
      PROVE  /\ call[c].pc = IF m.kind = "record" THEN "sync" ELSE "flush"
             /\ worker.flusher # c
             /\ \A j \in DOMAIN queue : queue[j].caller = c => j = 1
  BY <1>1, <1>3 DEF CallersInv, IsRecord
<1>4. ASSUME NEW i \in DOMAIN queue', NEW c \in Callers, queue'[i].caller = c
      PROVE  /\ call'[c].pc = IF IsRecord(i)' THEN "sync" ELSE "flush"
             /\ worker'.flusher # c
             /\ Busy' => worker'.command.caller # c
             /\ \A j \in DOMAIN queue' : queue'[j].caller = c => j = i
             /\ \A j \in DOMAIN queue' : ~IsRecord(i)' /\ i < j /\ IsRecord(j)' =>
                   queue'[j].event \notin call'[c].before
  <2>1. i + 1 \in DOMAIN queue /\ queue[i + 1].caller = c /\ i \in Nat
    BY <1>1, <1>2, <1>4
  <2>2. /\ call[c].pc = IF IsRecord(i + 1) THEN "sync" ELSE "flush"
        /\ worker.flusher # c
        /\ \A j \in DOMAIN queue : queue[j].caller = c => j = i + 1
        /\ \A j \in DOMAIN queue : ~IsRecord(i + 1) /\ i + 1 < j /\ IsRecord(j) =>
              queue[j].event \notin call[c].before
    BY <2>1 DEF CallersInv
  <2>3. m.caller # c
    BY <1>1, <1>2, <2>2
  <2>4. ASSUME NEW j \in DOMAIN queue', queue'[j].caller = c PROVE j = i
    <3>1. j + 1 \in DOMAIN queue /\ queue[j + 1].caller = c /\ j \in Nat
      BY <1>1, <1>2, <2>4
    <3>2. j + 1 = i + 1
      BY <2>2, <3>1
    <3> QED
      BY <2>1, <3>1, <3>2
  <2>5. ASSUME NEW j \in DOMAIN queue', ~IsRecord(i)', i < j, IsRecord(j)'
        PROVE  queue'[j].event \notin call'[c].before
    <3>1. j + 1 \in DOMAIN queue /\ j \in Nat /\ IsRecord(j + 1) /\ i + 1 < j + 1
          /\ queue'[j] = queue[j + 1]
      BY <1>1, <1>2, <2>1, <2>5
    <3> QED
      BY <1>2, <2>2, <2>5, <3>1
  <2> QED
    BY <1>2, <2>2, <2>3, <2>4, <2>5
<1>5. ASSUME NEW c \in Callers
      PROVE  /\ worker'.flusher = c => call'[c].pc = "flush"
             /\ Busy' /\ worker'.command.caller = c => call'[c].pc = "sync"
             /\ call'[c].before \subseteq 1 .. sent'
  BY <1>3 DEF CallersInv
<1>6. CallersInv'
  BY <1>4, <1>5 DEF CallersInv
<1> QED
  BY <1>6 DEF FlushDrains

\* What the callers' steps do to the numbers and to those that wait.
LEMMA CallersStep ==
    ASSUME LogInv, NEW c \in Callers,
           record(c) \/ record_sync(c) \/ flush(c) \/ FlushTimesOut(c) \/ FlushReturns(c)
    PROVE  NumbersInv' /\ CallersInv' /\ FlushDrains'
<1> USE DEF LogInv
<1>0. /\ sent \in Nat /\ call \in [Callers -> Call] /\ NoCaller \notin Callers
      /\ call[c].before \subseteq 1 .. sent
  BY CallerAssumption DEF TypeOK, CallersInv
<1>1. CASE record(c)
  <2> DEFINE m == [kind |-> "record", event |-> sent + 1, caller |-> NoCaller]
  <2>1. /\ m \in Command /\ queue' = Append(queue, m) /\ sent' = sent + 1 /\ call[c].pc = "idle"
        /\ UNCHANGED <<worker, done, acked, call>>
    BY <1>1, SentTypes DEF record, Send
  <2>2. m.kind = "record" /\ m.event = sent + 1 /\ m.caller = NoCaller
    OBVIOUS
  <2> HIDE DEF m
  <2>3. NumbersInv'
    BY <2>1, <2>2, SendsNumber
  <2>4. /\ sent' \in Nat /\ sent <= sent' /\ m.caller \in {c, NoCaller} /\ m.caller # c
        /\ \A d \in Callers \ {c} : call'[d] = call[d]
        /\ call'[c].pc # "flushed" /\ call'[c].before \subseteq 1 .. sent
    BY <1>0, <2>1, <2>2
  <2>5. CallersInv' /\ FlushDrains'
    BY <2>1, <2>2, <2>4, SendsCaller
  <2> QED
    BY <2>3, <2>5
<1>2. CASE record_sync(c)
  <2> DEFINE m == [kind |-> "record", event |-> sent + 1, caller |-> c]
  <2>1. /\ m \in Command /\ queue' = Append(queue, m) /\ sent' = sent + 1 /\ call[c].pc = "idle"
        /\ UNCHANGED <<worker, done, acked>>
        /\ call' = [call EXCEPT ![c] = [pc |-> "sync", before |-> {}]]
    BY <1>2, SentTypes DEF record_sync, Send
  <2>2. m.kind = "record" /\ m.event = sent + 1 /\ m.caller = c
    OBVIOUS
  <2> HIDE DEF m
  <2>3. NumbersInv'
    BY <2>1, <2>2, SendsNumber
  <2>4. /\ sent' \in Nat /\ sent <= sent' /\ m.caller \in {c, NoCaller}
        /\ \A d \in Callers \ {c} : call'[d] = call[d]
        /\ call'[c].pc = "sync" /\ call'[c].pc # "flushed" /\ call'[c].before \subseteq 1 .. sent
    BY <1>0, <2>1, <2>2
  <2>5. CallersInv' /\ FlushDrains'
    BY <2>1, <2>2, <2>4, SendsCaller
  <2> QED
    BY <2>3, <2>5
<1>3. CASE flush(c)
  <2> DEFINE m == [kind |-> "flush", event |-> 0, caller |-> c]
  <2>1. /\ m \in Command /\ queue' = Append(queue, m) /\ sent' = sent /\ call[c].pc = "idle"
        /\ UNCHANGED <<worker, done, acked>>
        /\ call' = [call EXCEPT ![c] = [pc |-> "flush", before |-> 1 .. sent]]
    BY <1>3 DEF flush, Send, ghosts, Command
  <2>2. m.kind # "record" /\ m.caller = c
    OBVIOUS
  <2> HIDE DEF m
  <2>3. NumbersInv'
    BY <2>1, <2>2, SendsNumber
  <2>4. /\ sent' \in Nat /\ sent <= sent' /\ m.caller \in {c, NoCaller}
        /\ \A d \in Callers \ {c} : call'[d] = call[d]
        /\ call'[c].pc = "flush" /\ call'[c].pc # "flushed" /\ call'[c].before \subseteq 1 .. sent
    BY <1>0, <2>1, <2>2
  <2>5. CallersInv' /\ FlushDrains'
    BY <2>1, <2>2, <2>4, SendsCaller
  <2> QED
    BY <2>3, <2>5
<1>4. CASE FlushTimesOut(c)
  <2>1. /\ call[c].pc = "flush" /\ call' = [call EXCEPT ![c] = IdleCall]
        /\ worker' = [worker EXCEPT !.flusher = IF @ = c THEN NoCaller ELSE @]
        /\ UNCHANGED <<sent, done, acked>>
    BY <1>4 DEF FlushTimesOut, ghosts
  <2>2. /\ worker'.flusher \in {worker.flusher, NoCaller} /\ worker'.flusher # c
        /\ Busy' = Busy /\ worker'.command = worker.command /\ worker'.event = worker.event
    BY <1>0, <2>1 DEF TypeOK, Worker, Busy
  <2>3. DOMAIN queue' = DOMAIN queue /\ DOMAIN queue \subseteq Nat
    BY <1>4 DEF FlushTimesOut, TypeOK
  <2>4. ASSUME NEW i \in DOMAIN queue
        PROVE  /\ queue'[i].kind = queue[i].kind /\ queue'[i].event = queue[i].event
               /\ queue'[i].caller \in {queue[i].caller, NoCaller} /\ queue'[i].caller # c
    <3>1. queue[i] \in Command
      BY DEF TypeOK
    <3>2. queue'[i] = IF queue[i].caller = c THEN [queue[i] EXCEPT !.caller = NoCaller] ELSE queue[i]
      BY <1>4 DEF FlushTimesOut
    <3> QED
      BY <1>0, <3>1, <3>2 DEF Command
  <2>5. NumbersInv'
    BY <2>1, <2>2, <2>3, <2>4, SameNumbers
  <2>6. Busy => worker.command.caller # c
    BY <2>1 DEF CallersInv
  <2>7. call'[c].pc = "idle" /\ call'[c].before = {} /\ \A d \in Callers : d # c => call'[d] = call[d]
    BY <1>0, <2>1 DEF IdleCall
  <2>8. \A i \in DOMAIN queue' : i \in Nat /\ i + 0 = i
    BY <2>3
  <2>9. CallersInv' /\ FlushDrains'
    BY <2>1, <2>2, <2>3, <2>4, <2>6, <2>7, <2>8, AnswersCaller
  <2> QED
    BY <2>5, <2>9
<1>5. CASE FlushReturns(c)
  <2>1. /\ call[c].pc = "flushed" /\ call' = [call EXCEPT ![c] = IdleCall]
        /\ UNCHANGED <<queue, worker, sent, done, acked>>
    BY <1>5 DEF FlushReturns, ghosts
  <2>2. Busy' = Busy
    BY <2>1 DEF Busy
  <2>3. NumbersInv'
    BY <2>1, <2>2, SameNumbers
  <2>4. /\ \A i \in DOMAIN queue : queue[i].caller # c
        /\ worker.flusher # c /\ (Busy => worker.command.caller # c)
    BY <2>1, NoneOf
  <2>5. call'[c].pc = "idle" /\ call'[c].before = {} /\ \A d \in Callers : d # c => call'[d] = call[d]
    BY <1>0, <2>1 DEF IdleCall
  <2>6. \A i \in DOMAIN queue' : i \in Nat /\ i + 0 = i /\ i \in DOMAIN queue
    BY <2>1 DEF TypeOK
  <2>7. CallersInv' /\ FlushDrains'
    BY <2>1, <2>2, <2>4, <2>5, <2>6, AnswersCaller
  <2> QED
    BY <2>3, <2>7
<1> QED
  BY <1>1, <1>2, <1>3, <1>4, <1>5

\* The outcome of a record goes to the caller that waits for it.
LEMMA FinishCaller ==
    ASSUME LogInv, Busy, NEW ok, Finish(ok), UNCHANGED <<queue, sent>>
    PROVE  NumbersInv' /\ CallersInv' /\ FlushDrains'
<1> USE DEF LogInv
<1> DEFINE x == worker.command.caller
<1>1. /\ ~Busy' /\ worker'.flusher = worker.flusher /\ done \subseteq done'
      /\ call' = IF x = NoCaller THEN call ELSE [call EXCEPT ![x] = IdleCall]
  BY DEF Finish, Busy, TypeOK, Worker
<1>2. /\ call \in [Callers -> Call] /\ NoCaller \notin Callers /\ x \in Callers \cup {NoCaller}
  BY CallerAssumption DEF TypeOK, Worker, Command
<1>3. /\ x \in Callers => call'[x].pc = "idle" /\ call'[x].before = {}
      /\ \A d \in Callers : d # x => call'[d] = call[d]
  BY <1>1, <1>2 DEF IdleCall
<1>4. x \in Callers => /\ worker.flusher # x
                       /\ \A i \in DOMAIN queue : queue[i].caller # x
  BY DEF CallersInv
<1>5. \A i \in DOMAIN queue' : i \in Nat /\ i + 0 = i /\ i \in DOMAIN queue
  BY DEF TypeOK
<1> HIDE DEF x
<1>6. CallersInv' /\ FlushDrains'
  BY <1>1, <1>3, <1>4, <1>5, AnswersCaller
<1> QED
  BY <1>6, FinishesNumber

\* The steps of a record on its way to the disk.
LEMMA UnderWay ==
    ASSUME LogInv, UNCHANGED <<queue, call, sent, done, acked>>,
           Busy' = Busy, worker'.command = worker.command, worker'.flusher = worker.flusher,
           Busy => worker'.event = worker.event
    PROVE  NumbersInv' /\ CallersInv' /\ FlushDrains'
<1>1. NumbersInv'
  BY SameNumbers
<1>2. \A i \in DOMAIN queue : IsRecord(i)' = IsRecord(i)
  BY DEF IsRecord
<1>3. CallersInv /\ FlushDrains
  BY DEF LogInv
<1>4. CallersInv'
  BY <1>2, <1>3 DEF CallersInv
<1> QED
  BY <1>1, <1>3, <1>4 DEF FlushDrains

LEMMA WorkerCallers ==
    ASSUME LogInv, WorkerStep
    PROVE  NumbersInv' /\ CallersInv' /\ FlushDrains'
<1> USE DEF LogInv
<1>0. /\ sent \in Nat /\ call \in [Callers -> Call] /\ NoCaller \notin Callers
      /\ worker.flusher \in Callers \cup {NoCaller}
  BY CallerAssumption, WorkerFields DEF TypeOK
<1>1. ASSUME queue # <<>>, queue' = Tail(queue)
      PROVE  /\ Head(queue) = queue[1] /\ 1 \in DOMAIN queue /\ Head(queue) \in Command
             /\ Head(queue).caller \in Callers \cup {NoCaller}
             /\ \A i \in DOMAIN queue' : i \in Nat /\ i + 1 \in DOMAIN queue /\ queue'[i] = queue[i + 1]
             /\ Head(queue).caller \in Callers => \A i \in DOMAIN queue' : queue'[i].caller # Head(queue).caller
  <2>1. /\ Head(queue) = queue[1] /\ 1 \in DOMAIN queue /\ Head(queue) \in Command
        /\ DOMAIN queue' = 1 .. Len(queue) - 1 /\ Len(queue) \in Nat
        /\ \A i \in DOMAIN queue' : i + 1 \in DOMAIN queue /\ queue'[i] = queue[i + 1]
    BY <1>1, TailFacts DEF TypeOK
  <2>2. \A i \in DOMAIN queue' : i \in Nat /\ i + 1 # 1
    BY <2>1
  <2>3. Head(queue).caller \in Callers \cup {NoCaller}
    BY <2>1 DEF Command
  <2>4. ASSUME Head(queue).caller \in Callers
        PROVE  \A i \in DOMAIN queue' : queue'[i].caller # Head(queue).caller
    BY <2>1, <2>2, <2>4 DEF CallersInv
  <2> QED
    BY <2>1, <2>2, <2>3, <2>4
<1>2. ASSUME NEW now \in Times, WorkerTakesRecord(now)
      PROVE  NumbersInv' /\ CallersInv' /\ FlushDrains'
  <2>1. /\ queue # <<>> /\ queue' = Tail(queue) /\ ~Busy /\ Head(queue).kind = "record"
        /\ UNCHANGED <<call, sent, done, acked>>
    BY <1>2 DEF WorkerTakesRecord, Busy, ghosts
  <2>2. /\ Busy' /\ worker'.command = Head(queue) /\ worker'.flusher = worker.flusher
        /\ worker'.event.payload.event = Head(queue).event
    BY <1>2 DEF WorkerTakesRecord, Busy, TypeOK, Worker
  <2> QED
    BY <2>1, <2>2, TakesNumber, HandsCaller
<1>3. ASSUME NEW now \in Times, WorkerRefuses(now)
      PROVE  NumbersInv' /\ CallersInv' /\ FlushDrains'
  <2> DEFINE m == Head(queue)
  <2>1. /\ queue # <<>> /\ queue' = Tail(queue) /\ ~Busy /\ ~Busy' /\ m.kind = "record"
        /\ UNCHANGED <<worker, sent, acked>> /\ done' = done \cup {m.event}
        /\ call' = IF m.caller = NoCaller THEN call ELSE [call EXCEPT ![m.caller] = IdleCall]
    BY <1>3 DEF WorkerRefuses, Busy
  <2>2. NumbersInv'
    BY <2>1, TakesNumber
  <2> DEFINE x == m.caller
  <2>3. /\ x \in Callers \cup {NoCaller}
        /\ \A i \in DOMAIN queue' : i \in Nat /\ i + 1 \in DOMAIN queue /\ queue'[i] = queue[i + 1]
        /\ x \in Callers => \A i \in DOMAIN queue' : queue'[i].caller # x
    BY <1>1, <2>1
  <2>4. /\ x \in Callers => call'[x].pc = "idle" /\ call'[x].before = {}
        /\ \A d \in Callers : d # x => call'[d] = call[d]
    BY <1>0, <2>1, <2>3 DEF IdleCall
  <2>5. x \in Callers => worker.flusher # x
    BY <1>1, <2>1 DEF CallersInv
  <2> HIDE DEF x
  <2>6. CallersInv' /\ FlushDrains'
    BY <2>1, <2>3, <2>4, <2>5, AnswersCaller
  <2> QED
    BY <2>2, <2>6
<1>4. ASSUME WorkerTakesFlush
      PROVE  NumbersInv' /\ CallersInv' /\ FlushDrains'
  <2> DEFINE m == Head(queue)
  <2>1. /\ queue # <<>> /\ queue' = Tail(queue) /\ ~Busy /\ m.kind # "record"
        /\ UNCHANGED <<sent, done, acked>>
    BY <1>4 DEF WorkerTakesFlush, Busy, ghosts
  <2>2. ~Busy' /\ worker'.command = worker.command
    BY <1>4 DEF WorkerTakesFlush, Busy, TypeOK, Worker
  <2>3. NumbersInv'
    BY <2>1, <2>2, TakesNumber
  <2>4. CASE ~worker.draining
    <3>1. worker'.flusher = m.caller /\ UNCHANGED call
      BY <1>4, <2>4 DEF WorkerTakesFlush, TypeOK, Worker
    <3> QED
      BY <2>1, <2>2, <2>3, <3>1, HandsCaller
  <2>5. CASE worker.draining
    <3> DEFINE x == m.caller
    <3>1. /\ UNCHANGED worker
          /\ call' = IF x = NoCaller THEN call ELSE [call EXCEPT ![x] = [@ EXCEPT !.pc = "flushed"]]
      BY <1>4, <2>5 DEF WorkerTakesFlush, Acknowledge
    <3>2. /\ x \in Callers \cup {NoCaller} /\ m = queue[1] /\ 1 \in DOMAIN queue
          /\ \A i \in DOMAIN queue' : i \in Nat /\ i + 1 \in DOMAIN queue /\ queue'[i] = queue[i + 1]
          /\ x \in Callers => \A i \in DOMAIN queue' : queue'[i].caller # x
      BY <1>1, <2>1
    <3>3. /\ x \in Callers => call'[x].pc = "flushed" /\ call'[x].before = call[x].before
          /\ \A d \in Callers : d # x => call'[d] = call[d]
      BY <1>0, <3>1, <3>2 DEF Call
    <3>4. ASSUME x \in Callers
          PROVE  worker.flusher # x /\ call[x].before \subseteq done
      <4>1. /\ worker.flusher # x
            /\ \A j \in DOMAIN queue : 1 < j /\ IsRecord(j) => queue[j].event \notin call[x].before
            /\ call[x].before \subseteq 1 .. sent
        BY <2>1, <3>2, <3>4 DEF CallersInv, IsRecord
      <4>2. \A e \in 1 .. sent : e \in done \/ \E i \in DOMAIN queue : IsRecord(i) /\ queue[i].event = e
        BY <2>1 DEF NumbersInv
      <4>3. \A i \in DOMAIN queue : IsRecord(i) => 1 < i
        BY <2>1, <3>2 DEF IsRecord, TypeOK
      <4> QED
        BY <4>1, <4>2, <4>3
    <3> HIDE DEF x
    <3>5. CallersInv' /\ FlushDrains'
      BY <2>1, <2>2, <3>1, <3>2, <3>3, <3>4, AnswersCaller
    <3> QED
      BY <2>3, <3>5
  <2> QED
    BY <2>4, <2>5
<1>5. ASSUME WorkerDrained
      PROVE  NumbersInv' /\ CallersInv' /\ FlushDrains'
  <2> DEFINE x == worker.flusher
  <2>1. /\ queue = <<>> /\ ~Busy /\ UNCHANGED <<queue, sent, done, acked>>
        /\ call' = IF x = NoCaller THEN call ELSE [call EXCEPT ![x] = [@ EXCEPT !.pc = "flushed"]]
    BY <1>5 DEF WorkerDrained, Busy, Acknowledge, ghosts
  <2>2. ~Busy' /\ Busy' = Busy /\ worker'.flusher = NoCaller
    BY <1>5 DEF WorkerDrained, Busy, TypeOK, Worker
  <2>3. NumbersInv'
    BY <2>1, <2>2, SameNumbers
  <2>4. DOMAIN queue = {} /\ DOMAIN queue' = {}
    BY <2>1
  <2>5. /\ x \in Callers => call'[x].pc = "flushed" /\ call'[x].before = call[x].before
        /\ \A d \in Callers : d # x => call'[d] = call[d]
    BY <1>0, <2>1 DEF Call
  <2>6. x \in Callers => call[x].before \subseteq done
    <3>1. \A e \in 1 .. sent : e \in done
      BY <2>1, <2>4 DEF NumbersInv
    <3>2. x \in Callers => call[x].before \subseteq 1 .. sent
      BY DEF CallersInv
    <3> QED
      BY <3>1, <3>2
  <2> HIDE DEF x
  <2>7. CallersInv' /\ FlushDrains'
    BY <1>0, <2>1, <2>2, <2>4, <2>5, <2>6, AnswersCaller
  <2> QED
    BY <2>3, <2>7
<1>6. CASE WorkerOpensFile \/ WorkerSyncs
  <2>1. /\ UNCHANGED <<queue, call, sent, done, acked>> /\ Busy' = Busy
        /\ worker'.command = worker.command /\ worker'.flusher = worker.flusher
        /\ worker'.event = worker.event
    BY <1>6 DEF WorkerOpensFile, Rotating, WorkerSyncs, Busy, ghosts, TypeOK, Worker
  <2> QED
    BY <2>1, UnderWay
<1>7. CASE WorkerShifts \/ WorkerRenames \/ WorkerAppends
  <2>1. /\ UNCHANGED <<queue, call, sent, done, acked>> /\ Busy' = Busy
        /\ worker'.command = worker.command /\ worker'.flusher = worker.flusher
        /\ worker'.event = worker.event
    BY <1>7 DEF WorkerShifts, Rotating, WorkerRenames, WorkerAppends, Busy, ghosts, TypeOK, Worker
  <2> QED
    BY <2>1, UnderWay
<1>8. CASE WorkerFails
  BY <1>8, FinishCaller DEF WorkerFails, Busy
<1>9. CASE WorkerCommits
  BY <1>9, FinishCaller DEF WorkerCommits, Busy
<1> QED
  BY <1>2, <1>3, <1>4, <1>5, <1>6, <1>7, <1>8, <1>9 DEF WorkerStep

LEMMA ProcessCallers ==
    ASSUME LogInv, Close \/ Open \/ Crash
    PROVE  NumbersInv' /\ CallersInv' /\ FlushDrains'
<1> USE DEF LogInv
<1>1. CASE Close
  BY <1>1, UnderWay DEF Close, Busy, ghosts
<1>2. CASE Open
  <2>1. /\ UNCHANGED <<queue, call, sent, done, acked>> /\ queue = <<>> /\ ~Busy
    BY <1>2 DEF Open, Busy, ghosts
  <2>2. ~Busy' /\ Busy' = Busy /\ worker'.flusher = NoCaller
    BY <1>2 DEF Open, Spawned, Busy
  <2>3. NumbersInv'
    BY <2>1, <2>2, SameNumbers
  <2>4. CallersInv'
    BY <2>1, <2>2, CallerAssumption DEF CallersInv
  <2> QED
    BY <2>1, <2>3, <2>4 DEF FlushDrains
<1>3. CASE Crash
  <2>1. /\ DOMAIN queue' = {} /\ ~Busy' /\ worker'.flusher = NoCaller
        /\ UNCHANGED <<sent, acked>> /\ done' = 1 .. sent /\ call' = [c \in Callers |-> IdleCall]
    BY <1>3 DEF Crash, Spawned, Busy
  <2>2. NumbersInv'
    BY <2>1 DEF NumbersInv
  <2>3. \A c \in Callers : call'[c].pc = "idle" /\ call'[c].before = {}
    BY <2>1 DEF IdleCall
  <2>4. CallersInv'
    BY <2>1, <2>3, CallerAssumption DEF CallersInv
  <2> QED
    BY <2>2, <2>3, <2>4 DEF FlushDrains
<1> QED
  BY <1>1, <1>2, <1>3

-----------------------------------------------------------------------------
(* Memory                                                                  *)

LEMMA FinishMemory ==
    ASSUME LogInv, Busy, NEW ok, Finish(ok)
    PROVE  /\ ~Busy' /\ worker'.time = worker.time /\ done' = done \cup {worker.command.event}
           /\ acked' \subseteq IF ok THEN acked \cup {worker.command.event} ELSE acked
  BY DEF Finish, Busy, LogInv, TypeOK, Worker

\* Entries that stay as they are, while time does not go back.
LEMMA MemorySame ==
    ASSUME LogInv, UNCHANGED entries, done \subseteq done', worker'.time = worker.time,
           Busy' => Busy /\ worker'.event = worker.event
    PROVE  OrderInv' /\ Ordered'
  BY DEF LogInv, OrderInv, Ordered

LEMMA MemoryEmpty ==
    ASSUME entries' = <<>>, ~Busy'
    PROVE  OrderInv' /\ Ordered'
<1>1. DOMAIN entries' = {}
  OBVIOUS
<1> QED
  BY <1>1 DEF OrderInv, Ordered

\* The next event is stamped after the entries.
LEMMA MemoryNext ==
    ASSUME LogInv, NEW now \in Times, WorkerTakesRecord(now)
    PROVE  OrderInv' /\ Ordered'
<1> USE DEF LogInv
<1>1. ~Busy /\ UNCHANGED <<entries, done>>
  BY DEF WorkerTakesRecord, Busy, ghosts
<1>2. worker'.time = Timestamp(now) /\ worker'.event.payload.time = Timestamp(now)
  BY DEF WorkerTakesRecord, TypeOK, Worker
<1>3. worker.time \in Nat /\ now \in Nat
  BY TimeAssumption, WorkerFields DEF Times
<1>4. Timestamp(now) \in Nat /\ worker.time < Timestamp(now)
  BY <1>3 DEF Timestamp
<1>5. ASSUME NEW i \in DOMAIN entries
      PROVE  /\ entries[i].payload.event \in done
             /\ entries[i].payload.time < Timestamp(now)
             /\ entries[i].payload.time <= Timestamp(now)
  <2>1. entries[i] \in Event
    BY DEF TypeOK
  <2>2. entries[i].payload.time \in Nat
    BY <2>1, TimeAssumption DEF Event, Payload, Times
  <2>3. entries[i].payload.event \in done /\ entries[i].payload.time <= worker.time
    BY DEF OrderInv
  <2> QED
    BY <1>3, <1>4, <2>2, <2>3
<1>6. OrderInv'
  BY <1>1, <1>2, <1>5 DEF OrderInv
<1> QED
  BY <1>1, <1>6 DEF Ordered

\* The entry that is added is the youngest; the oldest ones go.
LEMMA MemoryCommits ==
    ASSUME LogInv, WorkerCommits
    PROVE  /\ OrderInv' /\ Ordered'
           /\ EventsOf(entries') \subseteq EventsOf(entries) \cup {worker.command.event}
<1> USE DEF LogInv
<1> DEFINE all == Append(entries, worker.event)
           n == Len(entries)
<1>1. /\ entries' = IF Len(all) > MAX_ENTRIES THEN SubSeq(all, Len(all) - MAX_ENTRIES + 1, Len(all)) ELSE all
      /\ Busy /\ Finish(TRUE)
  BY DEF WorkerCommits, Busy
<1>2. ~Busy' /\ worker'.time = worker.time /\ done' = done \cup {worker.command.event}
  BY <1>1, FinishMemory
<1>3. /\ all \in Seq(Event) /\ n \in Nat /\ DOMAIN entries = 1 .. n
      /\ Len(all) = n + 1 /\ DOMAIN all = 1 .. n + 1
      /\ \A i \in 1 .. n : all[i] = entries[i]
      /\ all[n + 1] = worker.event
  BY AppendFacts, WorkerFields DEF TypeOK
<1>4. /\ worker.event.payload.event = worker.command.event
      /\ worker.event.payload.time = worker.time /\ worker.time \in Nat
      /\ \A d \in done : d < worker.command.event
  BY <1>1, WorkerFields, TimeAssumption DEF NumbersInv, OrderInv, Times
<1> HIDE DEF all, n
<1>5. ASSUME NEW i \in DOMAIN all
      PROVE  /\ all[i].payload.event \in done' /\ all[i].payload.time <= worker.time
             /\ \A j \in DOMAIN all : i < j =>
                  all[i].payload.time < all[j].payload.time /\ all[i].payload.event < all[j].payload.event
             /\ all[i].payload.event \in EventsOf(entries) \cup {worker.command.event}
  <2>1. CASE i = n + 1
    BY <1>2, <1>3, <1>4, <2>1
  <2>2. CASE i \in 1 .. n
    <3>1. /\ all[i] = entries[i] /\ i \in DOMAIN entries /\ entries[i].payload.event \in done
          /\ entries[i].payload.time <= worker.time /\ entries[i].payload.time < worker.time
      BY <1>1, <1>3, <2>2 DEF OrderInv
    <3>2. ASSUME NEW j \in DOMAIN all, i < j
          PROVE  all[i].payload.time < all[j].payload.time /\ all[i].payload.event < all[j].payload.event
      <4>1. CASE j = n + 1
        BY <1>3, <1>4, <3>1, <4>1
      <4>2. CASE j \in 1 .. n
        BY <1>3, <3>1, <3>2, <4>2 DEF Ordered
      <4> QED
        BY <1>3, <4>1, <4>2
    <3> QED
      BY <1>2, <3>1, <3>2 DEF EventsOf
  <2> QED
    BY <1>3, <2>1, <2>2
<1>6. \E k \in Nat :
        \A i \in DOMAIN entries' : i \in Nat /\ i + k \in DOMAIN all /\ entries'[i] = all[i + k]
  <2>1. CASE Len(all) > MAX_ENTRIES
    <3> DEFINE k == Len(all) - MAX_ENTRIES
               r == SubSeq(all, Len(all) - MAX_ENTRIES + 1, Len(all))
    <3>1. k \in Nat /\ MAX_ENTRIES \in Nat
      BY <1>3, <2>1, EntriesAssumption
    <3>2. DOMAIN r = 1 .. MAX_ENTRIES /\ \A i \in 1 .. MAX_ENTRIES : r[i] = all[k + i] /\ k + i \in DOMAIN all
      BY <1>3, <2>1, <3>1, SuffixFacts
    <3>3. entries' = r
      BY <1>1, <2>1
    <3> HIDE DEF k, r
    <3>4. \A i \in DOMAIN entries' : i \in Nat /\ i + k \in DOMAIN all /\ entries'[i] = all[i + k]
      <4>1. \A i \in 1 .. MAX_ENTRIES : i \in Nat /\ i + k = k + i
        BY <3>1
      <4> QED
        BY <3>2, <3>3, <4>1
    <3> QED
      BY <3>1, <3>4
  <2>2. CASE ~(Len(all) > MAX_ENTRIES)
    <3>1. entries' = all
      BY <1>1, <2>2
    <3>2. \A i \in DOMAIN entries' : i \in Nat /\ i + 0 \in DOMAIN all /\ entries'[i] = all[i + 0]
      BY <1>3, <3>1
    <3> QED
      BY <3>2
  <2> QED
    BY <2>1, <2>2
<1>7. PICK k \in Nat :
        \A i \in DOMAIN entries' : i \in Nat /\ i + k \in DOMAIN all /\ entries'[i] = all[i + k]
  BY <1>6
<1>8. OrderInv'
  BY <1>2, <1>5, <1>7 DEF OrderInv
<1>9. Ordered'
  <2> SUFFICES ASSUME NEW i \in DOMAIN entries', NEW j \in DOMAIN entries', i < j
               PROVE  /\ entries'[i].payload.time < entries'[j].payload.time
                      /\ entries'[i].payload.event < entries'[j].payload.event
    BY DEF Ordered
  <2>1. i + k < j + k
    BY <1>7
  <2> QED
    BY <1>5, <1>7, <2>1
<1>10. EventsOf(entries') \subseteq EventsOf(entries) \cup {worker.command.event}
  BY <1>5, <1>7 DEF EventsOf
<1> QED
  BY <1>8, <1>9, <1>10

LEMMA MemoryKept ==
    ASSUME LogInv, Next
    PROVE  OrderInv' /\ Ordered'
<1> USE DEF LogInv
<1>1. ASSUME NEW c \in Callers,
             record(c) \/ record_sync(c) \/ flush(c) \/ FlushTimesOut(c) \/ FlushReturns(c)
      PROVE  OrderInv' /\ Ordered'
  <2>1. /\ UNCHANGED <<entries, done>> /\ worker'.time = worker.time /\ worker'.pc = worker.pc
        /\ worker'.event = worker.event
    BY <1>1 DEF record, record_sync, flush, FlushTimesOut, FlushReturns, ghosts, TypeOK, Worker
  <2> QED
    BY <2>1, MemorySame DEF Busy
<1>2. ASSUME NEW now \in Times, WorkerRefuses(now) PROVE OrderInv' /\ Ordered'
  BY <1>2, MemorySame DEF WorkerRefuses, Busy
<1>3. CASE WorkerTakesFlush \/ WorkerDrained \/ WorkerOpensFile \/ WorkerSyncs
  <2>1. /\ UNCHANGED <<entries, done>> /\ worker'.time = worker.time /\ worker'.event = worker.event
        /\ Busy' => Busy
    BY <1>3 DEF WorkerTakesFlush, WorkerDrained, WorkerOpensFile, Rotating, WorkerSyncs, ghosts, TypeOK, Worker, Busy
  <2> QED
    BY <2>1, MemorySame
<1>4. CASE WorkerShifts \/ WorkerRenames \/ WorkerAppends
  <2>1. /\ UNCHANGED <<entries, done>> /\ worker'.time = worker.time /\ worker'.event = worker.event
        /\ Busy' => Busy
    BY <1>4 DEF WorkerShifts, Rotating, WorkerRenames, WorkerAppends, ghosts, TypeOK, Worker, Busy
  <2> QED
    BY <2>1, MemorySame
<1>5. CASE WorkerFails
  <2>1. Busy /\ Finish(FALSE) /\ UNCHANGED entries
    BY <1>5 DEF WorkerFails, Busy
  <2> QED
    BY <2>1, FinishMemory, MemorySame
<1>6. CASE Close
  BY <1>6, MemorySame DEF Close, Busy, ghosts
<1>7. CASE Open \/ Crash
  <2>1. entries' = <<>> /\ ~Busy'
    BY <1>7 DEF Open, Crash, Spawned, Busy
  <2> QED
    BY <2>1, MemoryEmpty
<1> QED
  BY <1>1, <1>2, <1>3, <1>4, <1>5, <1>6, <1>7, MemoryNext, MemoryCommits DEF Next, WorkerStep

-----------------------------------------------------------------------------
(* The disk                                                                *)

\* Nothing is lost, and no more is promised.
LEMMA DurableSame ==
    ASSUME LogInv, acked' \subseteq acked, EventsOf(entries') \subseteq EventsOf(entries),
           Wholes \cup discarded \subseteq Wholes' \cup discarded'
    PROVE  ToldIsWhole'
  BY DEF LogInv, ToldIsWhole

\* Where the files stay, and the record under way is not where it matters.
LEMMA DiskSame ==
    ASSUME LogInv, UNCHANGED <<file, rotated, discarded>>, acked' \subseteq acked,
           EventsOf(entries') \subseteq EventsOf(entries),
           \/ worker'.pc = "recv"
           \/ worker'.pc = worker.pc /\ worker'.event = worker.event /\ worker'.gen = worker.gen
    PROVE  DiskInv' /\ ToldIsWhole'
<1>1. Wholes' = Wholes
  BY DEF Wholes
<1>2. DiskInv'
  BY DEF DiskInv, LogInv, Busy
<1> QED
  BY <1>1, <1>2, DurableSame

LEMMA WholeEvents ==
    ASSUME NEW lines PROVE WholeOf(lines) \subseteq EventsOf(lines)
  BY DEF WholeOf, EventsOf

LEMMA WholeNone == WholeOf(<<>>) = {}
  BY DEF WholeOf

\* What is written behind a line leaves it whole.
LEMMA WholeGrows ==
    ASSUME NEW q \in Seq(Event), NEW x \in Event
    PROVE  WholeOf(q) \subseteq WholeOf(Append(q, x))
<1>1. \A i \in DOMAIN q : i \in DOMAIN Append(q, x) /\ Append(q, x)[i] = q[i]
  <2>1. /\ Len(q) \in Nat /\ DOMAIN q = 1 .. Len(q) /\ DOMAIN Append(q, x) = 1 .. Len(q) + 1
        /\ \A i \in DOMAIN q : Append(q, x)[i] = q[i]
    BY AppendFacts
  <2> QED
    BY <2>1
<1> QED
  BY <1>1 DEF WholeOf

LEMMA ShiftsFiles ==
    ASSUME LogInv, WorkerShifts
    PROVE  DiskInv' /\ ToldIsWhole'
<1> USE DEF LogInv
<1>1. PICK g, n \in Generations :
         /\ worker.gen = g /\ n = g + 1 /\ g < MAX_ROTATED
         /\ n # MAX_ROTATED => rotated[n] = <<>>
         /\ rotated'[g] = <<>>
         /\ \A k \in Generations \ {g, n} : rotated'[k] = rotated[k]
         /\ \/ rotated' = rotated /\ discarded' = discarded
            \/ /\ rotated'[n] = rotated[g]
               /\ discarded' = discarded \cup
                    IF n = MAX_ROTATED THEN EventsOf(rotated[n]) ELSE {}
  BY ShiftFacts
<1>2. UNCHANGED <<file, entries, acked>> /\ worker.pc = "shift"
  BY DEF WorkerShifts
<1>3. g - 1 \in Generations \cup {0} /\ worker' = Rotating(g - 1)
  BY <1>1, RotatedAssumption DEF WorkerShifts, Generations
<1>4. /\ worker'.gen = g - 1 /\ worker'.event = worker.event
      /\ worker'.pc = IF g - 1 = 0 THEN "rename" ELSE "shift"
  BY <1>3, RotatingType
<1>5. DiskInv'
  <2>1. file' # <<>> /\ worker'.event.shape = "line"
    BY <1>2, <1>4 DEF DiskInv, Busy
  <2>2. CASE g = 1
    <3>1. worker'.pc = "rename"
      BY <1>4, <2>2
    <3> QED
      BY <1>1, <2>1, <2>2, <3>1 DEF DiskInv
  <2>3. CASE g # 1
    <3>1. /\ worker'.pc = "shift" /\ worker'.gen \in 1 .. MAX_ROTATED - 1
          /\ worker'.gen + 1 = g
      BY <1>1, <1>4, <2>3, RotatedAssumption DEF Generations
    <3> QED
      BY <1>1, <2>1, <3>1 DEF DiskInv
  <2> QED
    BY <2>2, <2>3
<1>6. ASSUME NEW k \in Generations
      PROVE  WholeOf(rotated[k]) \subseteq Wholes' \cup discarded'
  <2>1. CASE rotated' = rotated
    BY <2>1 DEF Wholes
  <2>2. CASE rotated' # rotated
    <3>1. CASE k = g
      BY <1>1, <2>2, <3>1 DEF Wholes
    <3>2. CASE k = n
      BY <1>1, <2>2, <3>2, WholeEvents, WholeNone
    <3>3. CASE k # g /\ k # n
      BY <1>1, <3>3 DEF Wholes
    <3> QED
      BY <3>1, <3>2, <3>3
  <2> QED
    BY <2>1, <2>2
<1>7. discarded \subseteq discarded'
  BY <1>1
<1>8. Wholes \cup discarded \subseteq Wholes' \cup discarded'
  BY <1>2, <1>6, <1>7 DEF Wholes
<1> QED
  BY <1>2, <1>5, <1>8, DurableSame

LEMMA RenamesFile ==
    ASSUME LogInv, WorkerRenames
    PROVE  DiskInv' /\ ToldIsWhole'
<1> USE DEF LogInv
<1>1. /\ rotated' = [rotated EXCEPT ![1] = file] /\ file' = <<>>
      /\ UNCHANGED <<entries, acked>>
      /\ discarded' = discarded \cup IF MAX_ROTATED = 1 THEN EventsOf(rotated[1]) ELSE {}
  BY DEF WorkerRenames
<1>2. worker'.pc = "append" /\ worker.pc = "rename" /\ worker'.event = worker.event
  BY DEF WorkerRenames, TypeOK, Worker
<1>3. 1 \in Generations /\ rotated'[1] = file /\ \A g \in Generations \ {1} : rotated'[g] = rotated[g]
  BY <1>1, RotatedAssumption DEF Generations, TypeOK
<1>4. DiskInv'
  BY <1>2 DEF DiskInv, Busy
<1>5. WholeOf(rotated[1]) \subseteq discarded'
  BY <1>1, <1>2, WholeEvents, WholeNone DEF DiskInv
<1>6. Wholes \cup discarded \subseteq Wholes' \cup discarded'
  BY <1>1, <1>3, <1>5 DEF Wholes
<1> QED
  BY <1>1, <1>4, <1>6, DurableSame

LEMMA AppendsLine ==
    ASSUME LogInv, WorkerAppends
    PROVE  DiskInv' /\ ToldIsWhole'
<1> USE DEF LogInv
<1>1. /\ file' = Append(file, worker.event)
      /\ UNCHANGED <<rotated, entries, acked, discarded>>
  BY DEF WorkerAppends, ghosts
<1>2. worker'.pc = "sync" /\ worker'.event = worker.event
  BY DEF WorkerAppends, TypeOK, Worker
<1>3. /\ file' \in Seq(Event) /\ file' # <<>> /\ DOMAIN file = 1 .. Len(file) /\ Len(file) \in Nat
      /\ DOMAIN file' = 1 .. Len(file) + 1 /\ Len(file') = Len(file) + 1
      /\ \A i \in DOMAIN file : file'[i] = file[i]
      /\ file'[Len(file) + 1] = worker.event
  <2> DEFINE e == worker.event
  <2>1. e \in Event /\ file \in Seq(Event) /\ file' = Append(file, e)
    BY <1>1, WorkerFields DEF TypeOK
  <2> HIDE DEF e
  <2>2. /\ Append(file, e) \in Seq(Event) /\ Append(file, e) # <<>>
        /\ Len(file) \in Nat /\ DOMAIN file = 1 .. Len(file)
        /\ Len(Append(file, e)) = Len(file) + 1
        /\ DOMAIN Append(file, e) = 1 .. Len(file) + 1
        /\ \A i \in DOMAIN file : Append(file, e)[i] = file[i]
        /\ Append(file, e)[Len(file) + 1] = e
    BY <2>1, AppendFacts
  <2> QED
    BY <2>1, <2>2 DEF e
<1>4. Last(file') = worker.event
  BY <1>3 DEF Last
<1>5. DiskInv'
  BY <1>2, <1>3, <1>4 DEF DiskInv, Busy, WorkerAppends
<1>6. WholeOf(file) \subseteq WholeOf(file')
  BY <1>1, WorkerFields, WholeGrows DEF TypeOK
<1>7. Wholes \cup discarded \subseteq Wholes' \cup discarded'
  BY <1>1, <1>6 DEF Wholes
<1> QED
  BY <1>1, <1>5, <1>7, DurableSame

\* What is answered is the last line of the file.
LEMMA CommitsLine ==
    ASSUME LogInv, WorkerCommits
    PROVE  DiskInv' /\ ToldIsWhole'
<1> USE DEF LogInv
<1>1. /\ worker.pc = "commit" /\ Busy /\ Finish(TRUE) /\ UNCHANGED <<file, rotated, discarded>>
  BY DEF WorkerCommits, Busy, disk
<1>2. worker'.pc = "recv"
  BY <1>1 DEF Finish, TypeOK, Worker
<1>3. acked' \subseteq acked \cup {worker.command.event}
  BY <1>1, FinishMemory
<1>4. worker.command.event \in WholeOf(file)
  <2>1. /\ file # <<>> /\ Last(file) = worker.event
        /\ worker.event.payload.event = worker.command.event /\ worker.event.shape = "line"
    BY <1>1 DEF DiskInv, NumbersInv
  <2>2. Last(file) = file[Len(file)] /\ Len(file) \in DOMAIN file
    <3>1. Last(file) = file[Len(file)] /\ DOMAIN file = 1 .. Len(file) /\ Len(file) \in Nat \ {0}
      BY <2>1, LastFacts DEF TypeOK
    <3> QED
      BY <3>1
  <2> QED
    BY <2>1, <2>2 DEF WholeOf
<1>5. Wholes' = Wholes
  BY <1>1 DEF Wholes
<1>6. worker.command.event \in Wholes
  BY <1>4 DEF Wholes
<1>7. EventsOf(entries') \subseteq EventsOf(entries) \cup {worker.command.event}
  BY MemoryCommits
<1>8. ToldIsWhole'
  BY <1>1, <1>3, <1>5, <1>6, <1>7 DEF ToldIsWhole
<1>9. DiskInv'
  BY <1>2 DEF DiskInv, Busy
<1> QED
  BY <1>8, <1>9

\* A crash takes the line that was not synced, and nobody was told of it.
LEMMA CrashLoses ==
    ASSUME LogInv, Crash
    PROVE  DiskInv' /\ ToldIsWhole'
<1> USE DEF LogInv
<1>1. worker'.pc = "recv" /\ entries' = <<>> /\ UNCHANGED <<rotated, acked, discarded>>
  BY DEF Crash, Spawned
<1>2. DiskInv'
  BY <1>1 DEF DiskInv, Busy
<1>3. EventsOf(entries') = {}
  BY <1>1 DEF EventsOf
<1>4. CASE UNCHANGED file
  <2>1. Wholes' = Wholes
    BY <1>1, <1>4 DEF Wholes
  <2> QED
    BY <1>1, <1>2, <1>3, <2>1, DurableSame
<1>5. ASSUME worker.pc = "sync",
             \/ file' = Front(file)
             \/ \E shape \in {"open", "cut"} :
                   file' = Append(Front(file), [Last(file) EXCEPT !.shape = shape])
      PROVE  ToldIsWhole'
  <2>1. /\ file # <<>> /\ Last(file) = worker.event
        /\ worker.event.payload.event = worker.command.event
        /\ \A d \in acked : d < worker.command.event /\ d \in Nat
    BY <1>5, EventAssumption DEF DiskInv, NumbersInv, Busy, TypeOK, Numbers
  <2>2. /\ Len(file) \in Nat \ {0} /\ DOMAIN file = 1 .. Len(file)
        /\ Last(file) = file[Len(file)] /\ Last(file) \in Event
        /\ Front(file) \in Seq(Event) /\ Len(Front(file)) = Len(file) - 1
        /\ DOMAIN Front(file) = 1 .. Len(file) - 1
        /\ \A i \in 1 .. Len(file) - 1 : Front(file)[i] = file[i]
    BY <2>1, LastFacts DEF TypeOK
  <2>3. \A i \in 1 .. Len(file) - 1 : i \in DOMAIN file' /\ file'[i] = file[i]
    <3>1. CASE file' = Front(file)
      BY <2>2, <3>1
    <3>2. ASSUME NEW shape \in {"open", "cut"},
                 file' = Append(Front(file), [Last(file) EXCEPT !.shape = shape])
          PROVE  \A i \in 1 .. Len(file) - 1 : i \in DOMAIN file' /\ file'[i] = file[i]
      <4> DEFINE t == [Last(file) EXCEPT !.shape = shape]
                 f == Front(file)
      <4>1. t \in Event /\ f \in Seq(Event) /\ file' = Append(f, t)
        BY <2>2, <3>2 DEF Event, Shapes
      <4> HIDE DEF t, f
      <4>3. /\ DOMAIN Append(f, t) = 1 .. Len(f) + 1
            /\ \A i \in DOMAIN f : Append(f, t)[i] = f[i]
        BY <4>1, AppendFacts
      <4>2. /\ DOMAIN file' = 1 .. Len(Front(file)) + 1
            /\ \A i \in DOMAIN Front(file) : file'[i] = Front(file)[i]
        BY <4>1, <4>3 DEF f
      <4> QED
        BY <2>2, <4>2
    <3> QED
      BY <1>5, <3>1, <3>2
  <2>4. ASSUME NEW e \in WholeOf(file), e # worker.command.event PROVE e \in WholeOf(file')
    <3>1. PICK i \in DOMAIN file : file[i].payload.event = e /\ file[i].shape = "line"
      BY <2>4 DEF WholeOf
    <3>2. i \in 1 .. Len(file) - 1
      BY <2>1, <2>2, <2>4, <3>1
    <3> QED
      BY <2>3, <3>1, <3>2 DEF WholeOf
  <2>5. worker.command.event \notin acked
    BY <2>1
  <2>6. ASSUME NEW e \in acked PROVE e \in Wholes' \cup discarded'
    BY <1>1, <2>4, <2>5 DEF ToldIsWhole, Wholes
  <2> QED
    BY <1>1, <1>3, <2>6 DEF ToldIsWhole
<1> QED
  BY <1>2, <1>4, <1>5 DEF Crash

\* A file of any size has lines.
LEMMA SizeIsLines ==
    ASSUME NEW q \in Seq(Event), NEW size \in Sizes(q), size >= MAX_LOG_LINES
    PROVE  q # <<>>
<1> DEFINE whole == {i \in DOMAIN q : q[i].shape = "line"}
<1>1. Len(q) \in Nat /\ DOMAIN q = 1 .. Len(q)
  OBVIOUS
<1>2. Cardinality(whole) \in Nat
  <2>1. IsFiniteSet(1 .. Len(q))
    BY <1>1, FS_Interval
  <2>2. whole \subseteq 1 .. Len(q)
    BY <1>1
  <2> QED
    BY <2>1, <2>2, FS_Subset, FS_CardinalityType
<1>3. size \in Cardinality(whole) .. Len(q)
  BY DEF Sizes
<1> HIDE DEF whole
<1>4. Len(q) >= 1
  BY <1>1, <1>2, <1>3, LinesAssumption
<1>5. Len(<<>>) = 0
  OBVIOUS
<1>6. q = <<>> => Len(q) = Len(<<>>)
  OBVIOUS
<1> QED
  BY <1>4, <1>5, <1>6

LEMMA DiskKept ==
    ASSUME LogInv, Next
    PROVE  DiskInv' /\ ToldIsWhole'
<1> USE DEF LogInv
<1>1. ASSUME NEW c \in Callers,
             record(c) \/ record_sync(c) \/ flush(c) \/ FlushTimesOut(c) \/ FlushReturns(c)
      PROVE  DiskInv' /\ ToldIsWhole'
  <2>1. /\ UNCHANGED <<file, rotated, discarded, acked, entries>> /\ worker'.pc = worker.pc
        /\ worker'.event = worker.event /\ worker'.gen = worker.gen
    BY <1>1 DEF record, record_sync, flush, FlushTimesOut, FlushReturns, disk, ghosts, TypeOK, Worker
  <2> QED
    BY <2>1, DiskSame
<1>2. ASSUME NEW now \in Times, WorkerRefuses(now) PROVE DiskInv' /\ ToldIsWhole'
  BY <1>2, DiskSame DEF WorkerRefuses, disk
<1>3. ASSUME NEW now \in Times, WorkerTakesRecord(now) PROVE DiskInv' /\ ToldIsWhole'
  <2>1. /\ UNCHANGED <<file, rotated, discarded, acked, entries>> /\ worker'.pc = "write"
        /\ worker'.event.shape = "line"
    BY <1>3 DEF WorkerTakesRecord, disk, ghosts, TypeOK, Worker
  <2>2. Wholes' = Wholes
    BY <2>1 DEF Wholes
  <2>3. DiskInv'
    BY <2>1 DEF DiskInv
  <2> QED
    BY <2>1, <2>2, <2>3, DurableSame
<1>4. CASE WorkerTakesFlush \/ WorkerDrained
  <2>1. /\ UNCHANGED <<file, rotated, discarded, acked, entries>> /\ worker'.pc = "recv"
    BY <1>4 DEF WorkerTakesFlush, WorkerDrained, disk, ghosts, TypeOK, Worker
  <2> QED
    BY <2>1, DiskSame
<1>5. CASE WorkerOpensFile
  <2>1. /\ UNCHANGED <<file, rotated, discarded, acked, entries>> /\ worker.pc = "write"
        /\ \E size \in Sizes(file) :
              worker' = IF size >= MAX_LOG_LINES THEN Rotating(MAX_ROTATED - 1)
                        ELSE [worker EXCEPT !.pc = "append"]
    BY <1>5 DEF WorkerOpensFile, disk, ghosts
  <2>2. Wholes' = Wholes
    BY <2>1 DEF Wholes
  <2>3. DiskInv'
    <3>1. worker.event.shape = "line"
      BY <2>1 DEF DiskInv, Busy
    <3>2. CASE worker' = [worker EXCEPT !.pc = "append"]
      <4>1. worker'.pc = "append" /\ worker'.event = worker.event
        BY <3>2 DEF TypeOK, Worker
      <4> QED
        BY <3>1, <4>1 DEF DiskInv
    <3>3. ASSUME NEW size \in Sizes(file), size >= MAX_LOG_LINES,
                 worker' = Rotating(MAX_ROTATED - 1)
          PROVE  DiskInv'
      <4>1. file # <<>>
        BY <3>3, SizeIsLines DEF TypeOK
      <4>2. /\ MAX_ROTATED - 1 \in Generations \cup {0} /\ MAX_ROTATED - 1 + 1 = MAX_ROTATED
            /\ MAX_ROTATED - 1 = 0 => MAX_ROTATED = 1
            /\ MAX_ROTATED - 1 # 0 => MAX_ROTATED - 1 \in 1 .. MAX_ROTATED - 1
        BY RotatedAssumption DEF Generations
      <4>3. /\ worker'.gen = MAX_ROTATED - 1 /\ worker'.event = worker.event
            /\ worker'.pc = IF MAX_ROTATED - 1 = 0 THEN "rename" ELSE "shift"
        BY <3>3, <4>2, RotatingType
      <4> QED
        BY <2>1, <3>1, <4>1, <4>2, <4>3 DEF DiskInv
    <3> QED
      BY <2>1, <3>2, <3>3
  <2> QED
    BY <2>1, <2>2, <2>3, DurableSame
<1>6. CASE WorkerSyncs
  <2>1. /\ UNCHANGED <<file, rotated, discarded, acked, entries>>
        /\ worker'.pc = "commit" /\ worker.pc = "sync" /\ worker'.event = worker.event
    BY <1>6 DEF WorkerSyncs, disk, ghosts, TypeOK, Worker
  <2>2. DiskInv'
    BY <2>1 DEF DiskInv, Busy
  <2>3. Wholes' = Wholes
    BY <2>1 DEF Wholes
  <2> QED
    BY <2>1, <2>2, <2>3, DurableSame
<1>7. CASE WorkerFails
  <2>1. Busy /\ Finish(FALSE) /\ PartlyWritten /\ UNCHANGED <<rotated, discarded, entries>>
    BY <1>7 DEF WorkerFails, Busy
  <2>2. worker'.pc = "recv" /\ acked' \subseteq acked
    BY <2>1 DEF Finish, TypeOK, Worker
  <2>3. WholeOf(file) \subseteq WholeOf(file')
    BY <2>1, PartOfLine, WholeGrows DEF TypeOK
  <2>4. Wholes \cup discarded \subseteq Wholes' \cup discarded'
    BY <2>1, <2>3 DEF Wholes
  <2>5. DiskInv'
    BY <2>2 DEF DiskInv, Busy
  <2> QED
    BY <2>1, <2>2, <2>4, <2>5, DurableSame
<1>8. CASE Close
  BY <1>8, DiskSame DEF Close, disk, ghosts
<1>9. CASE Open
  <2>1. /\ UNCHANGED <<file, rotated, discarded, acked>> /\ entries' = <<>> /\ worker'.pc = "recv"
    BY <1>9 DEF Open, Spawned, disk, ghosts
  <2>2. EventsOf(entries') = {}
    BY <2>1 DEF EventsOf
  <2> QED
    BY <2>1, <2>2, DiskSame
<1> QED
  BY <1>1, <1>2, <1>3, <1>4, <1>5, <1>6, <1>7, <1>8, <1>9,
     ShiftsFiles, RenamesFile, AppendsLine, CommitsLine, CrashLoses DEF Next, WorkerStep

-----------------------------------------------------------------------------
(* The chain                                                               *)

LEMMA ChainOfFiles ==
    /\ OneChain <=> (~disturbed => Linked(Files) /\ Joined(Files))
    /\ 0 \in Every /\ Files[0] = file
    /\ \A g \in Generations : g \in Every /\ Files[g] = rotated[g]
<1>1. /\ 0 \in Every /\ File(0) = file
      /\ \A g \in Generations : g \in Every /\ File(g) = rotated[g]
  BY RotatedAssumption DEF Every, File, Generations
<1>2. \A g \in Every : Files[g] = File(g)
  BY DEF Files
<1>3. Linked(Files) <=> \A g \in Every : \A i \in 1 .. Len(File(g)) - 1 : Follows(File(g)[i + 1], File(g)[i])
  BY <1>2 DEF Linked
<1>4. ASSUME NEW g \in Every, NEW h \in Every
      PROVE  \A k \in h + 1 .. g - 1 : k \in Every
  BY RotatedAssumption DEF Every
<1>5. Joined(Files) <=>
        \A g, h \in Every :
            /\ h < g /\ File(g) # <<>> /\ File(h) # <<>>
            /\ \A k \in h + 1 .. g - 1 : File(k) = <<>>
            => Follows(File(h)[1], Last(File(g)))
  BY <1>2, <1>4 DEF Joined
<1> QED
  BY <1>1, <1>2, <1>3, <1>5 DEF OneChain, Every

LEMMA ChainOfFilesNext ==
    OneChain' <=> (~disturbed' => Linked(Files') /\ Joined(Files'))
<1>1. OneChain <=> (~disturbed => Linked(Files) /\ Joined(Files))
  BY ChainOfFiles
<1>2. OneChain' <=> (~disturbed => Linked(Files) /\ Joined(Files))'
  BY <1>1, PTL
<1> QED
  BY <1>2

\* rotate_log_files: a generation takes the next one's place, which is empty
\* or the last.
LEMMA ChainShifts ==
    ASSUME NEW F, NEW G, NEW g \in Every, NEW n \in Every, n = g + 1, g # 0,
           n # MAX_ROTATED => F[n] = <<>>, G[g] = <<>>, G[n] = F[g],
           \A k \in Every : k # g /\ k # n => G[k] = F[k], Linked(F), Joined(F)
    PROVE  Linked(G) /\ Joined(G)
<1>1. MAX_ROTATED \in Nat /\ \A k \in Every : k \in Nat /\ k <= MAX_ROTATED
  BY RotatedAssumption DEF Every
<1>2. Linked(G)
  <2> SUFFICES ASSUME NEW a \in Every, NEW i \in 1 .. Len(G[a]) - 1
               PROVE  Follows(G[a][i + 1], G[a][i])
    BY DEF Linked
  <2>1. CASE a = g
    <3>1. Len(G[a]) = 0
      BY <2>1
    <3> QED
      BY <3>1
  <2>2. CASE a = n
    BY <2>2 DEF Linked
  <2>3. CASE a # g /\ a # n
    BY <2>3 DEF Linked
  <2> QED
    BY <2>1, <2>2, <2>3
<1>3. Joined(G)
  <2> SUFFICES ASSUME NEW a \in Every, NEW b \in Every, b < a, G[a] # <<>>, G[b] # <<>>,
                      \A k \in b + 1 .. a - 1 : G[k] = <<>>
               PROVE  Follows(G[b][1], Last(G[a]))
    BY DEF Joined
  <2>1. a # g /\ b # g
    OBVIOUS
  <2>2. \A k \in b + 1 .. a - 1 : k \in Every /\ k # MAX_ROTATED /\ k \in Nat
    BY <1>1 DEF Every
  <2>3. CASE a = n
    <3>1. b < g /\ b # n
      BY <1>1, <2>1, <2>3
    <3>2. ASSUME NEW k \in b + 1 .. g - 1 PROVE F[k] = <<>>
      <4>1. k \in b + 1 .. a - 1 /\ k # g /\ k # n
        BY <1>1, <2>3
      <4> QED
        BY <2>2, <4>1
    <3>3. G[b] = F[b] /\ G[a] = F[g]
      BY <2>1, <2>3, <3>1
    <3> QED
      BY <3>1, <3>2, <3>3 DEF Joined
  <2>4. CASE b = n
    <3>1. g < a /\ a # n /\ F[n] = <<>>
      BY <1>1, <2>4
    <3>2. ASSUME NEW k \in g + 1 .. a - 1 PROVE F[k] = <<>>
      <4>1. CASE k = n
        BY <3>1, <4>1
      <4>2. CASE k # n
        <5>1. k \in b + 1 .. a - 1 /\ k # g
          BY <1>1, <2>4, <4>2
        <5> QED
          BY <2>2, <4>2, <5>1
      <4> QED
        BY <4>1, <4>2
    <3>3. G[a] = F[a] /\ G[b] = F[g]
      BY <2>1, <2>4, <3>1
    <3> QED
      BY <3>1, <3>2, <3>3 DEF Joined
  <2>5. CASE a # n /\ b # n
    <3>1. G[a] = F[a] /\ G[b] = F[b]
      BY <2>1, <2>5
    <3>2. ASSUME NEW k \in b + 1 .. a - 1 PROVE F[k] = <<>>
      <4>1. CASE k = n
        BY <2>2, <4>1
      <4>2. CASE k = g
        <5>1. n \in b + 1 .. a - 1
          BY <1>1, <2>5, <4>2
        <5> QED
          BY <4>2, <5>1
      <4>3. CASE k # g /\ k # n
        BY <2>2, <4>3
      <4> QED
        BY <4>1, <4>2, <4>3
    <3> QED
      BY <3>1, <3>2 DEF Joined
  <2> QED
    BY <2>3, <2>4, <2>5
<1> QED
  BY <1>2, <1>3

\* The active file becomes the first generation.
LEMMA ChainRenames ==
    ASSUME NEW F, NEW G, NEW hash, F[0] # <<>>, MAX_ROTATED = 1 \/ F[1] = <<>>,
           G[0] = <<>>, G[1] = F[0],
           \A g \in Every : g > 1 => G[g] = F[g], Linked(F), Joined(F), TipOf(F, hash)
    PROVE  Linked(G) /\ Joined(G) /\ TipOf(G, hash)
<1>1. 0 \in Every /\ 1 \in Every /\ \A g \in Every : g \in Nat /\ g <= MAX_ROTATED /\ MAX_ROTATED \in Nat
  BY RotatedAssumption DEF Every
<1>2. Linked(G)
  <2> SUFFICES ASSUME NEW g \in Every, NEW i \in 1 .. Len(G[g]) - 1
               PROVE  Follows(G[g][i + 1], G[g][i])
    BY DEF Linked
  <2>1. CASE g = 0
    BY <2>1
  <2>2. CASE g = 1
    BY <1>1, <2>2 DEF Linked
  <2>3. CASE g > 1
    BY <2>3 DEF Linked
  <2> QED
    BY <1>1, <2>1, <2>2, <2>3
<1>3. Joined(G)
  <2> SUFFICES ASSUME NEW g \in Every, NEW h \in Every, h < g, G[g] # <<>>, G[h] # <<>>,
                      \A k \in h + 1 .. g - 1 : G[k] = <<>>
               PROVE  Follows(G[h][1], Last(G[g]))
    BY DEF Joined
  <2>1. g > 1 /\ h # 0 /\ G[g] = F[g] /\ F[1] = <<>>
    BY <1>1
  <2>2. CASE h = 1
    <3>1. ASSUME NEW k \in 0 + 1 .. g - 1 PROVE F[k] = <<>>
      <4>1. CASE k = 1
        BY <2>1, <4>1
      <4>2. CASE k > 1
        <5>1. k \in h + 1 .. g - 1 /\ k \in Every
          BY <1>1, <2>2, <4>2 DEF Every
        <5> QED
          BY <4>2, <5>1
      <4> QED
        BY <1>1, <4>1, <4>2
    <3>2. 0 < g
      BY <1>1, <2>1
    <3> QED
      BY <1>1, <2>1, <2>2, <3>1, <3>2 DEF Joined
  <2>3. CASE h > 1
    <3>1. ASSUME NEW k \in h + 1 .. g - 1 PROVE F[k] = <<>>
      <4>1. k > 1 /\ k \in Every
        BY <1>1, <2>3 DEF Every
      <4> QED
        BY <4>1
    <3> QED
      BY <2>1, <2>3, <3>1 DEF Joined
  <2> QED
    BY <1>1, <2>1, <2>2, <2>3
<1>4. TipOf(G, hash)
  <2> SUFFICES ASSUME NEW g \in Every, G[g] # <<>>, \A k \in 0 .. g - 1 : G[k] = <<>>
               PROVE  hash = ChainHash(Last(G[g]).previous, Last(G[g]))
    BY DEF TipOf
  <2>1. g = 1
    <3>1. g > 1 => 1 \in 0 .. g - 1
      BY <1>1
    <3> QED
      BY <1>1, <3>1
  <2>2. \A k \in 0 .. 0 - 1 : F[k] = <<>>
    OBVIOUS
  <2>3. hash = ChainHash(Last(F[0]).previous, Last(F[0]))
    BY <1>1, <2>2 DEF TipOf
  <2> QED
    BY <2>1, <2>3
<1> QED
  BY <1>2, <1>3, <1>4

\* A line is appended that is chained to the last one on disk.
LEMMA ChainGrows ==
    ASSUME NEW F, NEW G, NEW e \in Event, F[0] \in Seq(Event), G[0] = Append(F[0], e),
           \A g \in Every : g > 0 => G[g] = F[g], Linked(F), Joined(F), TipOf(F, e.previous)
    PROVE  Linked(G) /\ Joined(G) /\ TipOf(G, ChainHash(e.previous, e))
<1> DEFINE q == F[0]
           n == Len(q)
<1>1. 0 \in Every /\ \A g \in Every : g \in Nat
  BY RotatedAssumption DEF Every
<1>2. q \in Seq(Event) /\ G[0] = Append(q, e)
  OBVIOUS
<1>3. \A k \in 0 .. 0 - 1 : F[k] = <<>>
  OBVIOUS
<1>4. q # <<>> => e.previous = ChainHash(Last(q).previous, Last(q))
  BY <1>1, <1>3 DEF TipOf
<1>5. q # <<>> => Last(q) = q[n] /\ n \in Nat \ {0}
  BY <1>2, LastFacts
<1> HIDE DEF q
<1>6. /\ Append(q, e) # <<>> /\ n \in Nat /\ DOMAIN q = 1 .. n /\ Len(Append(q, e)) = n + 1
      /\ \A i \in DOMAIN q : Append(q, e)[i] = q[i]
      /\ Append(q, e)[n + 1] = e
  BY <1>2, AppendFacts
<1>7. Last(G[0]) = e /\ Len(G[0]) = n + 1 /\ G[0] # <<>>
  BY <1>2, <1>6 DEF Last
<1>8. q = <<>> => n = 0
  <2>1. Len(<<>>) = 0
    OBVIOUS
  <2>2. q = <<>> => Len(q) = Len(<<>>)
    OBVIOUS
  <2> QED
    BY <2>1, <2>2
<1> HIDE DEF n
<1>9. Linked(G)
  <2> SUFFICES ASSUME NEW g \in Every, NEW i \in 1 .. Len(G[g]) - 1
               PROVE  Follows(G[g][i + 1], G[g][i])
    BY DEF Linked
  <2>1. CASE g > 0
    BY <2>1 DEF Linked
  <2>2. CASE g = 0
    <3>1. i \in 1 .. n
      BY <1>6, <1>7, <2>2
    <3>2. CASE i = n
      <4>1. q # <<>>
        BY <1>8, <3>1, <3>2
      <4>2. G[0][i] = q[n] /\ G[0][i + 1] = e
        BY <1>2, <1>6, <3>1, <3>2
      <4> QED
        BY <1>4, <1>5, <2>2, <4>1, <4>2 DEF Follows
    <3>3. CASE i # n
      <4>1. i \in 1 .. n - 1 /\ i + 1 \in 1 .. n
        BY <1>6, <3>1, <3>3
      <4>2. G[0][i] = q[i] /\ G[0][i + 1] = q[i + 1]
        BY <1>2, <1>6, <3>1, <4>1
      <4>3. Follows(q[i + 1], q[i])
        BY <1>1, <4>1 DEF Linked, q, n
      <4> QED
        BY <2>2, <4>2, <4>3
    <3> QED
      BY <3>2, <3>3
  <2> QED
    BY <1>1, <2>1, <2>2
<1>10. Joined(G)
  <2> SUFFICES ASSUME NEW g \in Every, NEW h \in Every, h < g, G[g] # <<>>, G[h] # <<>>,
                      \A k \in h + 1 .. g - 1 : G[k] = <<>>
               PROVE  Follows(G[h][1], Last(G[g]))
    BY DEF Joined
  <2>1. g > 0 /\ G[g] = F[g] /\ g \in Nat /\ h \in Nat
    BY <1>1
  <2>2. ASSUME NEW k \in h + 1 .. g - 1 PROVE F[k] = <<>>
    <3>1. k > 0 /\ k \in Every
      BY <2>1, RotatedAssumption DEF Every
    <3> QED
      BY <2>2, <3>1
  <2>3. CASE h > 0
    BY <2>1, <2>2, <2>3 DEF Joined
  <2>4. CASE h = 0 /\ q # <<>>
    <3>1. G[0][1] = q[1]
      BY <1>2, <1>5, <1>6, <2>4
    <3>2. Follows(F[0][1], Last(F[g]))
      BY <2>1, <2>2, <2>4 DEF Joined, q
    <3> QED
      BY <2>1, <2>4, <3>1, <3>2 DEF q
  <2>5. CASE h = 0 /\ q = <<>>
    <3>1. G[0][1] = e
      BY <1>2, <1>6, <1>8, <2>5
    <3>2. ASSUME NEW k \in 0 .. g - 1 PROVE F[k] = <<>>
      <4>1. k = 0 \/ k \in h + 1 .. g - 1
        BY <2>1, <2>5
      <4> QED
        BY <2>2, <2>5, <4>1 DEF q
    <3>3. e.previous = ChainHash(Last(F[g]).previous, Last(F[g]))
      BY <2>1, <3>2 DEF TipOf
    <3> QED
      BY <2>1, <2>5, <3>1, <3>3 DEF Follows
  <2> QED
    BY <2>1, <2>3, <2>4, <2>5
<1>11. TipOf(G, ChainHash(e.previous, e))
  <2> SUFFICES ASSUME NEW g \in Every, G[g] # <<>>, \A k \in 0 .. g - 1 : G[k] = <<>>
               PROVE  ChainHash(e.previous, e) = ChainHash(Last(G[g]).previous, Last(G[g]))
    BY DEF TipOf
  <2>1. g = 0
    <3>1. g > 0 => 0 \in 0 .. g - 1
      BY <1>1
    <3> QED
      BY <1>1, <1>7, <3>1
  <2> QED
    BY <1>7, <2>1
<1> QED
  BY <1>9, <1>10, <1>11

LEMMA PrefixType ==
    ASSUME NEW q \in Seq(Event), NEW n \in Nat, n <= Len(q)
    PROVE  /\ PrefixHash(q, n) \in Seq(Payload) /\ Len(PrefixHash(q, n)) = n
           /\ \A i \in 1 .. n : PrefixHash(q, n)[i] = q[i].payload
<1>1. ASSUME NEW i \in 1 .. n PROVE q[i].payload \in Payload
  <2>1. q[i] \in Event
    OBVIOUS
  <2> QED
    BY <2>1 DEF Event
<1>2. PrefixHash(q, n) \in [1 .. n -> Payload]
  BY <1>1 DEF PrefixHash
<1>3. PrefixHash(q, n) \in Seq(Payload) /\ Len(PrefixHash(q, n)) = n
  BY <1>2
<1> QED
  BY <1>3 DEF PrefixHash

\* recover_chain_from_file: the hash it returns is the one of the last line.
LEMMA RecoveredHash ==
    ASSUME file \in Seq(Event), file # <<>>, Recovers(file)
    PROVE  PrefixHash(file, Len(file)) = ChainHash(Last(file).previous, Last(file))
<1> DEFINE n == Len(file)
           m == n - 1
           p == PrefixHash(file, m)
           r == PrefixHash(file, n)
           last == Last(file).payload
<1>1. n \in Nat \ {0} /\ DOMAIN file = 1 .. n /\ Last(file) = file[n] /\ Last(file) \in Event
  BY LastFacts
<1>2. m \in Nat /\ m + 1 = n /\ m <= Len(file)
  BY <1>1
<1>3. Last(file).previous = p /\ last \in Payload /\ last = file[n].payload
  <2>1. LineVerifies(file, n)
    BY <1>1 DEF Recovers
  <2> QED
    BY <1>1, <2>1 DEF LineVerifies, Event
<1>4. p \in Seq(Payload) /\ Len(p) = m /\ \A i \in 1 .. m : p[i] = file[i].payload
  <2> HIDE DEF m
  <2> QED
    BY <1>2, PrefixType
<1>5. r \in Seq(Payload) /\ Len(r) = n /\ \A i \in 1 .. n : r[i] = file[i].payload
  BY <1>1, <1>2, PrefixType
<1>6. ChainHash(Last(file).previous, Last(file)) = Append(p, last)
  BY <1>3 DEF ChainHash
<1> HIDE DEF p, r, n, m, last
<1>7. /\ Append(p, last) \in Seq(Payload) /\ Len(Append(p, last)) = Len(p) + 1
      /\ DOMAIN p = 1 .. Len(p)
      /\ \A i \in DOMAIN p : Append(p, last)[i] = p[i]
      /\ Append(p, last)[Len(p) + 1] = last
  BY <1>3, <1>4, AppendFacts
<1>8. ASSUME NEW i \in 1 .. n PROVE Append(p, last)[i] = r[i]
  <2>1. CASE i = n
    BY <1>2, <1>3, <1>4, <1>5, <1>7, <2>1
  <2>2. CASE i # n
    <3>1. i \in 1 .. m
      BY <1>2, <2>2
    <3> QED
      BY <1>4, <1>5, <1>7, <3>1
  <2> QED
    BY <2>1, <2>2
<1>9. Append(p, last) = r
  BY <1>2, <1>4, <1>5, <1>7, <1>8, SeqEqual
<1> QED
  BY <1>6, <1>9 DEF r, n

\* Where the files stay.
LEMMA ChainSame ==
    ASSUME LogInv, UNCHANGED <<file, rotated>>, disturbed => disturbed'
    PROVE  Files' = Files /\ OneChain'
<1>1. Files' = Files
  BY DEF Files, File
<1>2. OneChain'
  BY DEF LogInv, File, OneChain
<1> QED
  BY <1>1, <1>2

\* Nothing happens to the files, nor to the record under way.
LEMMA ChainQuiet ==
    ASSUME LogInv, UNCHANGED <<file, rotated, disturbed>>,
           worker'.pc = worker.pc, worker'.event = worker.event, worker'.hash = worker.hash,
           tamper' = tamper \/ (tamper' /\ ~Busy),
           open' \/ queue' # <<>> => open \/ queue # <<>>
    PROVE  ChainInv' /\ OneChain'
<1>1. Files' = Files /\ OneChain'
  BY ChainSame
<1>2. Busy' = Busy
  BY DEF Busy
<1>3. Busy' => ~tamper' /\ worker'.hash = ChainHash(worker'.event.previous, worker'.event)
  BY <1>2 DEF LogInv, ChainInv
<1>4. worker'.pc = "recv" /\ ~tamper' => worker.pc = "recv" /\ ~tamper
  OBVIOUS
<1>5. ASSUME ~disturbed'
      PROVE  /\ file' = <<>> /\ worker'.pc # "append" => \A g \in Generations : rotated'[g] = <<>>
             /\ worker'.pc = "recv" /\ ~tamper' /\ (open' \/ queue' # <<>>) => TipOf(Files', worker'.hash)
             /\ worker'.pc \in {"write", "shift", "rename", "append"} => TipOf(Files', worker'.event.previous)
             /\ worker'.pc \in {"sync", "commit"} => TipOf(Files', worker'.hash)
  <2>1. ~disturbed
    BY <1>5
  <2>2. file' = <<>> /\ worker'.pc # "append" => \A g \in Generations : rotated'[g] = <<>>
    BY <2>1 DEF LogInv, ChainInv
  <2>3. worker'.pc = "recv" /\ ~tamper' /\ (open' \/ queue' # <<>>) => TipOf(Files', worker'.hash)
    BY <1>1, <1>4, <2>1 DEF LogInv, ChainInv, Tip
  <2>4. worker'.pc \in {"write", "shift", "rename", "append"} => TipOf(Files', worker'.event.previous)
    BY <1>1, <2>1 DEF LogInv, ChainInv, Tip
  <2>5. worker'.pc \in {"sync", "commit"} => TipOf(Files', worker'.hash)
    BY <1>1, <2>1 DEF LogInv, ChainInv, Tip
  <2> QED
    BY <2>2, <2>3, <2>4, <2>5
<1>6. ChainInv'
  BY <1>3, <1>5 DEF ChainInv, Tip
<1> QED
  BY <1>1, <1>6

\* process_record hashes the event into the chain before it is written.
LEMMA ChainTakes ==
    ASSUME LogInv, NEW now \in Times, WorkerTakesRecord(now)
    PROVE  ChainInv' /\ OneChain'
<1> DEFINE e == [payload |-> [event |-> Head(queue).event, time |-> Timestamp(now)],
                 previous |-> worker.hash, shape |-> "line"]
<1>1. /\ worker.pc = "recv" /\ queue # <<>> /\ ~tamper
      /\ UNCHANGED <<file, rotated, disturbed, tamper>>
      /\ worker' = [worker EXCEPT !.pc = "write", !.command = Head(queue), !.event = e,
                                  !.hash = ChainHash(worker.hash, e), !.time = Timestamp(now)]
  BY DEF WorkerTakesRecord, disk, ghosts
<1>2. e.previous = worker.hash
  OBVIOUS
<1> HIDE DEF e
<1>3. worker'.pc = "write" /\ worker'.event = e /\ worker'.hash = ChainHash(worker.hash, e)
  BY <1>1 DEF LogInv, TypeOK, Worker
<1>4. Files' = Files /\ OneChain'
  BY <1>1, ChainSame
<1>5. ~disturbed' => TipOf(Files', worker'.event.previous)
  BY <1>1, <1>2, <1>3, <1>4 DEF LogInv, ChainInv, Tip
<1>6. ~disturbed' /\ file' = <<>> => \A g \in Generations : rotated'[g] = <<>>
  BY <1>1 DEF LogInv, ChainInv
<1>7. ChainInv'
  BY <1>1, <1>2, <1>3, <1>5, <1>6 DEF ChainInv, Tip
<1> QED
  BY <1>4, <1>7

\* Steps of the record under way that leave the files as they are.
LEMMA ChainWaits ==
    ASSUME LogInv, WorkerOpensFile \/ WorkerSyncs
    PROVE  ChainInv' /\ OneChain'
<1>1. /\ UNCHANGED <<file, rotated, disturbed, tamper>>
      /\ worker'.event = worker.event /\ worker'.hash = worker.hash
      /\ \/ worker.pc = "write" /\ worker'.pc \in {"shift", "rename", "append"}
         \/ worker.pc = "sync" /\ worker'.pc = "commit"
  BY DEF WorkerOpensFile, Rotating, WorkerSyncs, disk, ghosts, LogInv, TypeOK, Worker
<1>2. Files' = Files /\ OneChain'
  BY <1>1, ChainSame
<1>3. ~tamper /\ worker.hash = ChainHash(worker.event.previous, worker.event)
  BY <1>1 DEF LogInv, ChainInv, Busy
<1>4. ~disturbed' /\ file' = <<>> => \A g \in Generations : rotated'[g] = <<>>
  BY <1>1 DEF LogInv, ChainInv
<1>5. CASE worker.pc = "write"
  <2>1. ~disturbed' => TipOf(Files', worker'.event.previous)
    BY <1>1, <1>2, <1>5 DEF LogInv, ChainInv, Tip
  <2> QED
    BY <1>1, <1>2, <1>3, <1>4, <1>5, <2>1 DEF ChainInv, Tip
<1>6. CASE worker.pc = "sync"
  <2>1. ~disturbed' => TipOf(Files', worker'.hash)
    BY <1>1, <1>2, <1>6 DEF LogInv, ChainInv, Tip
  <2> QED
    BY <1>1, <1>2, <1>3, <1>4, <1>6, <2>1 DEF ChainInv, Tip
<1> QED
  BY <1>1, <1>5, <1>6

LEMMA ChainOfShift ==
    ASSUME LogInv, WorkerShifts
    PROVE  ChainInv' /\ OneChain'
<1>1. UNCHANGED <<file, disturbed, tamper>> /\ worker.pc = "shift"
  BY DEF WorkerShifts
<1>2. /\ worker'.event = worker.event /\ worker'.hash = worker.hash
      /\ worker'.pc \in {"shift", "rename"}
  BY DEF WorkerShifts, Rotating, LogInv, TypeOK, Worker
<1>3. file # <<>>
  BY <1>1 DEF LogInv, DiskInv
<1>4. /\ \A k \in Every : Files[k] = IF k = 0 THEN file ELSE rotated[k]
      /\ \A k \in Every : Files'[k] = IF k = 0 THEN file' ELSE rotated'[k]
      /\ 0 \in Every /\ \A k \in Every : k # 0 => k \in Generations
      /\ \A k \in Generations : k \in Every /\ k # 0
  BY RotatedAssumption DEF Files, File, Every, Generations
<1>5. Files[0] # <<>> /\ Files'[0] = Files[0]
  BY <1>1, <1>3, <1>4
<1>6. PICK g, n \in Generations :
         /\ n = g + 1 /\ (n # MAX_ROTATED => rotated[n] = <<>>)
         /\ rotated'[g] = <<>>
         /\ \A k \in Generations \ {g, n} : rotated'[k] = rotated[k]
         /\ rotated' = rotated \/ rotated'[n] = rotated[g]
  BY ShiftFacts DEF LogInv
<1>7. ~disturbed' => Linked(Files') /\ Joined(Files')
  <2>0. ~disturbed' => Linked(Files) /\ Joined(Files)
    BY <1>1, ChainOfFiles DEF LogInv
  <2>1. CASE rotated' = rotated
    <3>1. Files' = Files
      BY <1>1, <2>1 DEF Files, File
    <3> QED
      BY <2>0, <3>1
  <2>2. CASE rotated'[n] = rotated[g]
    <3> DEFINE F == Files
               G == Files'
    <3>1. /\ g \in Every /\ n \in Every /\ n = g + 1 /\ g # 0
          /\ n # MAX_ROTATED => F[n] = <<>>
          /\ G[g] = <<>> /\ G[n] = F[g]
      BY <1>4, <1>6, <2>2
    <3>2. \A k \in Every : k # g /\ k # n => G[k] = F[k]
      BY <1>1, <1>4, <1>6
    <3>3. ~disturbed' => Linked(F) /\ Joined(F)
      BY <2>0
    <3> HIDE DEF F, G
    <3>4. ~disturbed' => Linked(G) /\ Joined(G)
      BY <3>1, <3>2, <3>3, ChainShifts
    <3> QED
      BY <3>4 DEF G
  <2> QED
    BY <1>6, <2>1, <2>2
<1>8. OneChain'
  BY <1>7, ChainOfFilesNext
<1>9. ~disturbed' => TipOf(Files', worker'.event.previous)
  <2> SUFFICES ASSUME ~disturbed', NEW h \in Every, Files'[h] # <<>>,
                      \A k \in 0 .. h - 1 : Files'[k] = <<>>
               PROVE  worker'.event.previous = ChainHash(Last(Files'[h]).previous, Last(Files'[h]))
    BY DEF TipOf
  <2>1. h = 0
    <3>1. h # 0 => 0 \in 0 .. h - 1
      BY RotatedAssumption DEF Every
    <3> QED
      BY <1>5, <3>1
  <2>2. TipOf(Files, worker.event.previous)
    BY <1>1, <1>2 DEF LogInv, ChainInv, Tip
  <2>3. \A k \in 0 .. 0 - 1 : Files[k] = <<>>
    OBVIOUS
  <2>4. worker.event.previous = ChainHash(Last(Files[0]).previous, Last(Files[0]))
    BY <1>4, <1>5, <2>2, <2>3 DEF TipOf
  <2> QED
    BY <1>2, <1>5, <2>1, <2>4
<1>10. ChainInv'
  <2>1. ~tamper' /\ worker'.hash = ChainHash(worker'.event.previous, worker'.event)
    BY <1>1, <1>2 DEF LogInv, ChainInv, Busy
  <2> QED
    BY <1>1, <1>2, <1>3, <1>9, <2>1 DEF ChainInv, Tip
<1> QED
  BY <1>8, <1>10

LEMMA ChainOfRename ==
    ASSUME LogInv, WorkerRenames
    PROVE  ChainInv' /\ OneChain'
<1>1. /\ rotated' = [rotated EXCEPT ![1] = file] /\ file' = <<>>
      /\ UNCHANGED <<disturbed, tamper>>
  BY DEF WorkerRenames
<1>2. /\ worker'.event = worker.event /\ worker'.hash = worker.hash
      /\ worker.pc = "rename" /\ worker'.pc = "append"
  BY DEF WorkerRenames, LogInv, TypeOK, Worker
<1>3. /\ file # <<>> /\ (MAX_ROTATED = 1 \/ rotated[1] = <<>>)
      /\ rotated \in [Generations -> Seq(Event)]
  BY <1>2 DEF LogInv, DiskInv, TypeOK
<1>4. /\ \A g \in Every : Files[g] = IF g = 0 THEN file ELSE rotated[g]
      /\ \A g \in Every : Files'[g] = IF g = 0 THEN file' ELSE rotated'[g]
      /\ 0 \in Every /\ 1 \in Every /\ 1 \in Generations
      /\ \A g \in Every : g # 0 => g \in Generations
  BY RotatedAssumption DEF Files, File, Every, Generations
<1>5. rotated'[1] = file /\ \A g \in Generations : g # 1 => rotated'[g] = rotated[g]
  BY <1>1, <1>3, <1>4
<1>6. /\ Files[0] # <<>> /\ (MAX_ROTATED = 1 \/ Files[1] = <<>>)
      /\ Files'[0] = <<>> /\ Files'[1] = Files[0]
  BY <1>1, <1>3, <1>4, <1>5
<1>7. ASSUME NEW g \in Every, g > 1 PROVE Files'[g] = Files[g]
  <2>1. g # 0 /\ g # 1
    BY <1>7, RotatedAssumption DEF Every
  <2> QED
    BY <1>4, <1>5, <2>1
<1>8. ~disturbed' => /\ Linked(Files') /\ Joined(Files')
                     /\ TipOf(Files', worker.event.previous)
  <2> DEFINE F == Files
             G == Files'
             p == worker.event.previous
  <2>1. ~disturbed' => Linked(F) /\ Joined(F)
    BY <1>1, ChainOfFiles DEF LogInv
  <2>2. ~disturbed' => TipOf(F, p)
    BY <1>1, <1>2 DEF LogInv, ChainInv, Tip
  <2>3. /\ F[0] # <<>> /\ (MAX_ROTATED = 1 \/ F[1] = <<>>)
        /\ G[0] = <<>> /\ G[1] = F[0]
        /\ \A g \in Every : g > 1 => G[g] = F[g]
    BY <1>6, <1>7
  <2> HIDE DEF F, G, p
  <2>4. ~disturbed' => Linked(G) /\ Joined(G) /\ TipOf(G, p)
    BY <2>1, <2>2, <2>3, ChainRenames
  <2> QED
    BY <2>4 DEF G, p
<1>9. OneChain'
  BY <1>8, ChainOfFilesNext
<1>10. ChainInv'
  <2>1. ~tamper' /\ worker'.hash = ChainHash(worker'.event.previous, worker'.event)
    BY <1>1, <1>2 DEF LogInv, ChainInv, Busy
  <2>2. ~disturbed' => TipOf(Files', worker'.event.previous)
    BY <1>2, <1>8
  <2> QED
    BY <1>2, <2>1, <2>2 DEF ChainInv, Tip
<1> QED
  BY <1>9, <1>10

LEMMA ChainOfAppend ==
    ASSUME LogInv, WorkerAppends
    PROVE  ChainInv' /\ OneChain'
<1>1. /\ file' = Append(file, worker.event)
      /\ UNCHANGED <<rotated, disturbed, tamper>>
  BY DEF WorkerAppends, ghosts
<1>2. /\ worker'.event = worker.event /\ worker'.hash = worker.hash
      /\ worker.pc = "append" /\ worker'.pc = "sync"
  BY DEF WorkerAppends, LogInv, TypeOK, Worker
<1>3. worker.event \in Event /\ file \in Seq(Event)
  BY WorkerFields DEF LogInv, TypeOK
<1>4. /\ \A g \in Every : Files[g] = IF g = 0 THEN file ELSE rotated[g]
      /\ \A g \in Every : Files'[g] = IF g = 0 THEN file' ELSE rotated'[g]
      /\ 0 \in Every /\ \A g \in Every : g > 0 => g # 0
  BY RotatedAssumption DEF Files, File, Every
<1>5. ~tamper /\ worker.hash = ChainHash(worker.event.previous, worker.event)
  BY <1>2 DEF LogInv, ChainInv, Busy
<1>6. ~disturbed' => /\ Linked(Files') /\ Joined(Files')
                     /\ TipOf(Files', worker.hash)
  <2> DEFINE F == Files
             G == Files'
             e == worker.event
  <2>1. ~disturbed' => Linked(F) /\ Joined(F)
    BY <1>1, ChainOfFiles DEF LogInv
  <2>2. ~disturbed' => TipOf(F, e.previous)
    BY <1>1, <1>2 DEF LogInv, ChainInv, Tip
  <2>3. /\ e \in Event /\ F[0] \in Seq(Event) /\ G[0] = Append(F[0], e)
        /\ \A g \in Every : g > 0 => G[g] = F[g]
    BY <1>1, <1>3, <1>4
  <2> HIDE DEF F, G, e
  <2>4. ~disturbed' => Linked(G) /\ Joined(G) /\ TipOf(G, ChainHash(e.previous, e))
    BY <2>1, <2>2, <2>3, ChainGrows
  <2> QED
    BY <1>5, <2>4 DEF G, e
<1>7. OneChain'
  BY <1>6, ChainOfFilesNext
<1>8. ChainInv'
  <2>1. file' # <<>>
    BY <1>1, <1>3, AppendFacts
  <2>2. ~disturbed' => TipOf(Files', worker'.hash)
    BY <1>2, <1>6
  <2> QED
    BY <1>1, <1>2, <1>5, <2>1, <2>2 DEF ChainInv, Tip
<1> QED
  BY <1>7, <1>8

\* The record is through, or it failed.
LEMMA ChainOfFinish ==
    ASSUME LogInv, WorkerCommits \/ WorkerFails
    PROVE  ChainInv' /\ OneChain'
<1>1. worker'.pc = "recv" /\ worker'.hash = worker.hash /\ ~Busy'
  BY DEF WorkerCommits, WorkerFails, Finish, LogInv, TypeOK, Worker, Busy
<1>2. CASE WorkerFails
  <2>1. disturbed'
    BY <1>2 DEF WorkerFails
  <2>2. OneChain'
    BY <2>1, ChainOfFilesNext
  <2> QED
    BY <1>1, <2>1, <2>2 DEF ChainInv
<1>3. CASE WorkerCommits
  <2>1. worker.pc = "commit" /\ UNCHANGED <<file, rotated, disturbed, tamper>>
    BY <1>3 DEF WorkerCommits, disk
  <2>2. Files' = Files /\ OneChain'
    BY <2>1, ChainSame
  <2>3. ~disturbed' => TipOf(Files', worker'.hash)
    BY <1>1, <2>1, <2>2 DEF LogInv, ChainInv, Tip
  <2>4. file' # <<>>
    BY <2>1 DEF LogInv, DiskInv
  <2> QED
    BY <1>1, <2>2, <2>3, <2>4 DEF ChainInv, Tip
<1> QED
  BY <1>2, <1>3

\* A process takes the chain up where the last line of the file left it.
LEMMA ChainOfOpen ==
    ASSUME LogInv, Open
    PROVE  ChainInv' /\ OneChain'
<1>1. /\ worker.pc = "recv" /\ UNCHANGED <<file, rotated, disturbed>>
      /\ tamper' = ~Recovers(file)
      /\ worker' = Spawned(IF Recovers(file) THEN PrefixHash(file, Len(file)) ELSE Zero)
  BY DEF Open, disk, ghosts
<1>2. worker'.pc = "recv" /\ ~Busy'
  BY <1>1 DEF Spawned, Busy
<1>3. Files' = Files /\ OneChain'
  BY <1>1, ChainSame
<1>4. ~disturbed' /\ file' = <<>> => \A g \in Generations : rotated'[g] = <<>>
  BY <1>1 DEF LogInv, ChainInv
<1>5. ~disturbed' /\ ~tamper' => TipOf(Files, worker'.hash)
  <2> SUFFICES ASSUME ~disturbed', ~tamper', NEW g \in Every, Files[g] # <<>>,
                      \A k \in 0 .. g - 1 : Files[k] = <<>>
               PROVE  worker'.hash = ChainHash(Last(Files[g]).previous, Last(Files[g]))
    BY DEF TipOf
  <2>1. Recovers(file) /\ worker'.hash = PrefixHash(file, Len(file))
    BY <1>1 DEF Spawned
  <2>2. Files[0] = file /\ \A h \in Generations : Files[h] = rotated[h]
    BY ChainOfFiles
  <2>3. CASE g = 0
    <3>1. file # <<>> /\ file \in Seq(Event)
      BY <2>2, <2>3 DEF LogInv, TypeOK
    <3> QED
      BY <2>1, <2>2, <2>3, <3>1, RecoveredHash
  <2>4. CASE g # 0
    <3>1. g \in Generations /\ 0 \in 0 .. g - 1
      BY <2>4, RotatedAssumption DEF Every, Generations
    <3> QED
      BY <1>1, <1>4, <2>2, <3>1
  <2> QED
    BY <2>3, <2>4
<1>6. ChainInv'
  BY <1>2, <1>3, <1>4, <1>5 DEF ChainInv, Tip
<1> QED
  BY <1>3, <1>6

LEMMA NoEvents ==
    ASSUME NEW q \in Seq(Event), EventsOf(q) = {}
    PROVE  q = <<>>
<1>1. ASSUME q # <<>> PROVE FALSE
  <2>1. 1 \in DOMAIN q
    BY <1>1, TailFacts
  <2>2. q[1].payload.event \in EventsOf(q)
    BY <2>1 DEF EventsOf
  <2> QED
    BY <2>2
<1> QED
  BY <1>1

\* A crash between the rename and the append leaves the chain without its end.
LEMMA ChainOfCrash ==
    ASSUME LogInv, Crash
    PROVE  ChainInv' /\ OneChain'
<1>1. worker'.pc = "recv" /\ ~Busy' /\ ~open' /\ queue' = <<>> /\ rotated' = rotated
  BY DEF Crash, Spawned, Busy
<1>2. CASE disturbed'
  <2>1. OneChain'
    BY <1>2, ChainOfFilesNext
  <2> QED
    BY <1>1, <1>2, <2>1 DEF ChainInv
<1>3. CASE ~disturbed'
  <2>1. file' = file /\ ~disturbed /\ ~(file = <<>> /\ OnDisk # {})
    BY <1>3 DEF Crash, LogInv, TypeOK
  <2>2. OneChain'
    BY <1>1, <2>1, ChainSame
  <2>3. ASSUME file' = <<>>, NEW g \in Generations PROVE rotated'[g] = <<>>
    <3>1. EventsOf(rotated[g]) = {} /\ rotated[g] \in Seq(Event)
      BY <2>1, <2>3 DEF OnDisk, LogInv, TypeOK
    <3> QED
      BY <1>1, <3>1, NoEvents
  <2> QED
    BY <1>1, <2>2, <2>3 DEF ChainInv
<1> QED
  BY <1>2, <1>3

LEMMA ChainKept ==
    ASSUME LogInv, Next
    PROVE  ChainInv' /\ OneChain'
<1>1. ASSUME NEW c \in Callers,
             record(c) \/ record_sync(c) \/ flush(c) \/ FlushTimesOut(c) \/ FlushReturns(c)
      PROVE  ChainInv' /\ OneChain'
  <2>1. /\ UNCHANGED <<file, rotated, disturbed, tamper, open>> /\ worker'.pc = worker.pc
        /\ worker'.event = worker.event /\ worker'.hash = worker.hash
    BY <1>1 DEF record, record_sync, flush, FlushTimesOut, FlushReturns, disk, ghosts,
                LogInv, TypeOK, Worker
  <2>2. open \/ DOMAIN queue' = DOMAIN queue
    BY <1>1 DEF record, record_sync, flush, FlushTimesOut, FlushReturns
  <2>3. DOMAIN queue' = DOMAIN queue /\ queue' # <<>> => queue # <<>>
    <3>1. ASSUME queue = <<>>, DOMAIN queue' = DOMAIN queue PROVE queue' = <<>>
      <4>1. queue' \in Seq(Command) /\ DOMAIN queue' = {}
        BY <1>1, <3>1, CallerSteps DEF LogInv, TypeOK
      <4> QED
        BY <4>1
    <3> QED
      BY <3>1
  <2> QED
    BY <2>1, <2>2, <2>3, ChainQuiet
<1>2. ASSUME NEW now \in Times, WorkerRefuses(now) PROVE ChainInv' /\ OneChain'
  BY <1>2, ChainQuiet DEF WorkerRefuses, disk, Busy
<1>3. CASE WorkerTakesFlush \/ WorkerDrained
  <2>1. /\ UNCHANGED <<file, rotated, disturbed, tamper, open>> /\ worker'.pc = worker.pc
        /\ worker'.event = worker.event /\ worker'.hash = worker.hash
        /\ queue' = queue \/ queue # <<>>
    BY <1>3 DEF WorkerTakesFlush, WorkerDrained, disk, ghosts, LogInv, TypeOK, Worker
  <2> QED
    BY <2>1, ChainQuiet
<1>4. CASE Close
  BY <1>4, ChainQuiet DEF Close, disk, ghosts
<1> QED
  BY <1>1, <1>2, <1>3, <1>4, ChainTakes, ChainWaits, ChainOfShift, ChainOfRename, ChainOfAppend,
     ChainOfFinish, ChainOfOpen, ChainOfCrash DEF Next, WorkerStep

-----------------------------------------------------------------------------
(* The theorems                                                            *)

LEMMA InitInv == Init => LogInv
<1> SUFFICES ASSUME Init PROVE LogInv
  OBVIOUS
<1>1. /\ queue = <<>> /\ entries = <<>> /\ file = <<>> /\ worker = Spawned(Zero)
      /\ \A g \in Generations : rotated[g] = <<>>
      /\ call = [c \in Callers |-> IdleCall]
      /\ sent = 0 /\ done = {} /\ acked = {} /\ discarded = {}
      /\ tamper = FALSE /\ open = TRUE /\ disturbed = FALSE
  BY DEF Init
<1>2. worker.pc = "recv" /\ ~Busy /\ worker.flusher = NoCaller
  BY <1>1 DEF Spawned, Busy
<1>3. TypeOK
  <2>1. worker \in Worker
    <3>1. Zero \in Seq(Payload)
      BY DEF Zero
    <3> QED
      BY <1>1, <3>1, SpawnedType
  <2>2. call \in [Callers -> Call]
    BY <1>1, NothingRunning
  <2>3. sent \in 0 .. MaxEvents
    BY <1>1, EventAssumption
  <2>4. queue \in Seq(Command) /\ entries \in Seq(Event) /\ file \in Seq(Event)
    BY <1>1
  <2>5. rotated \in [Generations -> Seq(Event)]
    BY DEF Init
  <2> QED
    BY <1>1, <2>1, <2>2, <2>3, <2>4, <2>5 DEF TypeOK
<1>4. NumbersInv
  BY <1>1, <1>2 DEF NumbersInv
<1>5. CallersInv /\ FlushDrains
  BY <1>1, <1>2, CallerAssumption DEF CallersInv, FlushDrains, IdleCall
<1>6. DiskInv
  BY <1>2 DEF DiskInv, Busy
<1>7. OrderInv /\ Ordered
  BY <1>1, <1>2 DEF OrderInv, Ordered
<1>8. ToldIsWhole
  BY <1>1 DEF ToldIsWhole, EventsOf
<1>9. \A g \in Every : Files[g] = <<>>
  <2>1. \A g \in Every : g = 0 \/ g \in Generations
    BY RotatedAssumption DEF Every, Generations
  <2> QED
    BY <1>1, <2>1, ChainOfFiles
<1>10. ChainInv
  <2>1. Tip(worker.hash)
    BY <1>9 DEF Tip, TipOf
  <2> QED
    BY <1>1, <1>2, <2>1 DEF ChainInv
<1>11. OneChain
  <2>1. Len(<<>>) = 0
    OBVIOUS
  <2>2. Linked(Files)
    BY <1>9, <2>1 DEF Linked
  <2>3. Joined(Files)
    BY <1>9 DEF Joined
  <2> QED
    BY <2>2, <2>3, ChainOfFiles
<1> QED
  BY <1>3, <1>4, <1>5, <1>6, <1>7, <1>8, <1>10, <1>11 DEF LogInv

LEMMA StutterInv == LogInv /\ UNCHANGED vars => LogInv'
<1> SUFFICES ASSUME LogInv, UNCHANGED vars PROVE LogInv'
  OBVIOUS
<1>1. /\ UNCHANGED <<queue, worker, entries, file, rotated, tamper, open, call>>
      /\ UNCHANGED <<sent, done, acked, discarded, disturbed>>
  BY DEF vars
<1>2. TypeOK'
  BY <1>1 DEF LogInv, TypeOK
<1>3. NumbersInv' /\ CallersInv' /\ FlushDrains'
  BY <1>1 DEF LogInv, NumbersInv, CallersInv, FlushDrains, Busy, IsRecord
<1>4. OrderInv' /\ Ordered'
  BY <1>1 DEF LogInv, OrderInv, Ordered, Busy
<1>5. DiskInv' /\ ToldIsWhole'
  BY <1>1, DiskSame
<1>6. ChainInv' /\ OneChain'
  BY <1>1, ChainQuiet
<1> QED
  BY <1>2, <1>3, <1>4, <1>5, <1>6 DEF LogInv

LEMMA NextInv == LogInv /\ Next => LogInv'
<1> SUFFICES ASSUME LogInv, Next PROVE LogInv'
  OBVIOUS
<1>1. TypeOK' /\ NumbersInv' /\ CallersInv' /\ FlushDrains'
  BY CallerSteps, WorkerTypes, ProcessTypes, CallersStep, WorkerCallers, ProcessCallers DEF Next
<1> QED
  BY <1>1, MemoryKept, DiskKept, ChainKept DEF LogInv

\* The inductive invariant holds in every reachable state.
THEOREM LogInvariant == Spec => []LogInv
<1>1. LogInv /\ [Next]_vars => LogInv'
  BY NextInv, StutterInv
<1> QED
  BY <1>1, InitInv, PTL DEF Spec

\* A whole line is one the reader finds, or is glued to the fragment before it.
LEMMA WholeIsShown ==
    ASSUME TypeOK, NEW e \in Wholes
    PROVE  Legible(e) \/ Glued(e)
<1>1. PICK g \in 0 .. MAX_ROTATED : e \in WholeOf(File(g)) /\ File(g) \in Seq(Event)
  <2>1. 0 \in 0 .. MAX_ROTATED /\ File(0) = file /\ file \in Seq(Event)
    BY RotatedAssumption DEF File, TypeOK
  <2>2. \A g \in Generations : g \in 0 .. MAX_ROTATED /\ File(g) = rotated[g] /\ rotated[g] \in Seq(Event)
    BY RotatedAssumption DEF File, TypeOK, Generations
  <2> QED
    BY <2>1, <2>2 DEF Wholes
<1> DEFINE q == File(g)
<1>2. PICK i \in DOMAIN q : q[i].payload.event = e /\ q[i].shape = "line"
  BY <1>1 DEF WholeOf
<1>3. CASE i > 1 /\ q[i - 1].shape # "line"
  BY <1>2, <1>3 DEF Glued
<1>4. CASE ~(i > 1 /\ q[i - 1].shape # "line")
  <2>1. Readable(q, i)
    BY <1>2, <1>4 DEF Readable
  <2> QED
    BY <1>2, <2>1 DEF Legible
<1> QED
  BY <1>3, <1>4

\* What record_sync answered with Ok and what a reader sees in memory has its
\* whole line in a file, or was rotated out: the worker answers and shows an event
\* only when it is synced, and the line a crash takes is one nobody was told of.
\* Only what a failed write left before it can keep it from being read.
THEOREM ToldDurable == Spec => []ToldIsDurable
<1>1. LogInv => ToldIsDurable
  BY WholeIsShown DEF LogInv, ToldIsWhole, ToldIsDurable, SyncIsDurable, MemoryOnDisk
<1> QED
  BY <1>1, LogInvariant, PTL

\* A flush that returned is behind every event sent before it, although it is
\* acknowledged at once when another flush is being drained: the channel keeps
\* the order of the commands, whoever sent them.
THEOREM FlushComplete == Spec => []FlushDrains
<1>1. LogInv => FlushDrains
  BY DEF LogInv
<1> QED
  BY <1>1, LogInvariant, PTL

\* The entries are stamped and numbered in order, and the files of all
\* generations are one chain through rotations, restarts and crashes, until a
\* write fails or a crash leaves a line broken or unwritten.
THEOREM LogRight == Spec => []LogSound
<1>1. LogInv => LogSound
  BY DEF LogInv, LogSound
<1> QED
  BY <1>1, LogInvariant, PTL
=============================================================================
