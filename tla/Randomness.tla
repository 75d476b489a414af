----------------------------- MODULE Randomness -----------------------------
(***************************************************************************)
(* Where the module's randomness comes from: the operating system's        *)
(* entropy, the SP 800-90B tests on it (crypto/entropy_health.rs), the     *)
(* HMAC_DRBG seeded with it (crypto/drbg.rs) and those who draw from a     *)
(* DRBG: the power-on self-test, HsmCore, key generation with a DRBG of    *)
(* its own, and the daemon's generate_random with the one in HsmCore.      *)
(*                                                                         *)
(* Threads share the monitor, its error flag, which is read without the    *)
(* monitor's mutex, and the DRBG of HsmCore behind another mutex.  What a  *)
(* DRBG makes of its seeds is a cipher's business: any block may come out, *)
(* so that the tests on the output have something to find.                 *)
(*                                                                         *)
(* C_GenerateRandom copies operating-system bytes straight to the caller   *)
(* and touches none of this.                                               *)
(***************************************************************************)
EXTENDS Callers, Naturals, Sequences, FiniteSets, FiniteSetsExt, Functions

CONSTANTS
    Samples,                     \* the bytes of the entropy source
    Blocks,                      \* output blocks
    ZeroBlock,                   \* the block of zeros
    NoBlock,                     \* has_output is false
    REPETITION_COUNT_CUTOFF,
    ADAPTIVE_PROPORTION_WINDOW,
    ADAPTIVE_PROPORTION_CUTOFF,
    STARTUP_SAMPLES,
    RESEED_INTERVAL,
    SeedLength,                  \* bytes that instantiate a DRBG
    ReseedLength,                \* bytes of a reseed
    MaxBlocks                    \* bound: blocks of one generate

ASSUME SampleAssumption == Samples # {}
ASSUME BlockAssumption == ZeroBlock \in Blocks /\ NoBlock \notin Blocks
ASSUME CutoffAssumption ==
    /\ REPETITION_COUNT_CUTOFF \in Nat \ {0, 1}
    /\ ADAPTIVE_PROPORTION_CUTOFF \in Nat \ {0, 1}
    /\ ADAPTIVE_PROPORTION_WINDOW \in Nat \ {0, 1}
    /\ STARTUP_SAMPLES \in Nat \ {0}
    /\ RESEED_INTERVAL \in Nat \ {0, 1}
ASSUME LengthAssumption ==
    /\ SeedLength \in Nat \ {0} /\ ReseedLength \in Nat \ {0}
    /\ MaxBlocks \in Nat \ {0}

VARIABLES
    monitor,   \* GLOBAL_MONITOR
    started,   \* has its LazyLock run?
    error,     \* GLOBAL_ENTROPY_ERROR
    halted,    \* std::process::abort
    core,      \* how far C_Initialize, or the daemon's main, has come
    drbg,      \* the DRBG of HsmCore
    drbgLock,  \* who holds its mutex
    draws,     \* [Threads -> Draw]
    stream,    \* the samples the monitor saw last
    position,  \* how many it saw since the startup test began, modulo the window
    given      \* the last blocks HsmCore's DRBG gave out, two at most

randomVars == <<monitor, started, error, halted, core, drbg, drbgLock, draws,
                stream, position, given>>
watch == <<monitor, started, error, stream, position>>

\* EntropyHealthMonitor; what is stored in window is never read again.
Monitor == [last : Samples, repetitions : Nat, seen : BOOLEAN,
            value : Samples, count : Nat, pos : 0 .. ADAPTIVE_PROPORTION_WINDOW,
            open : BOOLEAN, passed : BOOLEAN, verdict : {"ok", "failed", "panic"}]

\* EntropyHealthMonitor::new; verdict is the result of the call under way.
NewMonitor == [last |-> CHOOSE s \in Samples : TRUE, repetitions |-> 0, seen |-> FALSE,
               value |-> CHOOSE s \in Samples : TRUE, count |-> 0, pos |-> 0,
               open |-> FALSE, passed |-> FALSE, verdict |-> "ok"]

\* HmacDrbg, less its key and value.
Drbg == [counter : 0 .. 2, last : Blocks \cup {NoBlock}]

NewDrbg == [counter |-> 1, last |-> NoBlock]

\* late: was the error flag set already when the bytes were read?
Draw == [pc : {"idle", "lock", "fill", "check", "lazy", "recheck", "observe",
               "mix", "blocks", "abort"},
         op : {"post", "core", "bytes", "rng", "shared"},
         stage : {"seed", "reseed"}, generates : Nat, late : BOOLEAN, drbg : Drbg]

NoDraw == [pc |-> "idle", op |-> "bytes", stage |-> "seed", generates |-> 0,
           late |-> FALSE, drbg |-> NewDrbg]

RandomTypeOK ==
    /\ monitor \in Monitor
    /\ monitor.repetitions < REPETITION_COUNT_CUTOFF \/ error
    /\ monitor.pos < ADAPTIVE_PROPORTION_WINDOW \/ error
    /\ started \in BOOLEAN /\ error \in BOOLEAN /\ halted \in BOOLEAN
    /\ core \in {"none", "post", "tested", "building", "ready"}
    /\ drbg \in Drbg
    /\ drbgLock \in Threads \cup {NoThread}
    /\ draws \in [Threads -> Draw]

RandomInit ==
    /\ monitor = NewMonitor /\ started = FALSE
    /\ error = FALSE /\ halted = FALSE
    /\ core = "none" /\ drbg = NewDrbg /\ drbgLock = NoThread
    /\ draws = [t \in Threads |-> NoDraw]
    /\ stream = <<>> /\ position = 0 /\ given = <<>>

DrawAt(t, pc) == ~halted /\ draws[t].pc = pc
Become(t, c) == draws' = [draws EXCEPT ![t] = c]
GotoDraw(t, pc) == Become(t, [draws[t] EXCEPT !.pc = pc])

-----------------------------------------------------------------------------
(* The health tests. *)

repetition_count_test(m, s) ==
    LET repeats == m.seen /\ s = m.last
        n == IF repeats THEN m.repetitions + 1 ELSE 1
    IN  [m EXCEPT !.last = s, !.seen = TRUE, !.repetitions = n,
                  !.verdict = IF repeats /\ n >= REPETITION_COUNT_CUTOFF
                                THEN "failed" ELSE "ok"]

\* Mutant of adaptive_proportion_test: one occurrence too many.
ProportionOffByOne(m, s) ==
    LET n == IF s = m.value THEN m.count + 1 ELSE m.count
        full == m.pos + 1 >= ADAPTIVE_PROPORTION_WINDOW
    IN  IF ~m.open THEN [m EXCEPT !.value = s, !.count = 1, !.pos = 1, !.open = TRUE]
        ELSE IF n > ADAPTIVE_PROPORTION_CUTOFF
               THEN [m EXCEPT !.count = n, !.pos = @ + 1, !.verdict = "failed"]
        ELSE [m EXCEPT !.count = n, !.pos = IF full THEN 0 ELSE @ + 1, !.open = ~full]

\* A window that fails with its last sample stays full: the next sample is
\* out of the array's bounds.
adaptive_proportion_test(m, s) ==
    LET n == IF s = m.value THEN m.count + 1 ELSE m.count
        full == m.pos + 1 >= ADAPTIVE_PROPORTION_WINDOW
    IN  IF ~m.open THEN [m EXCEPT !.value = s, !.count = 1, !.pos = 1, !.open = TRUE]
        ELSE IF m.pos = ADAPTIVE_PROPORTION_WINDOW THEN [m EXCEPT !.verdict = "panic"]
        ELSE IF n >= ADAPTIVE_PROPORTION_CUTOFF
               THEN [m EXCEPT !.count = n, !.pos = @ + 1, !.verdict = "failed"]
        ELSE [m EXCEPT !.count = n, !.pos = IF full THEN 0 ELSE @ + 1, !.open = ~full]

\* feed_sample_unchecked; nothing is fed after a failure.
Feed(m, s) ==
    IF m.verdict # "ok" THEN m
    ELSE LET r == repetition_count_test(m, s)
         IN  IF r.verdict = "ok" THEN adaptive_proportion_test(r, s) ELSE r

\* The loop over a buffer.
FeedAll(m, bytes) ==
    LET fed[i \in 0 .. Len(bytes)] == IF i = 0 THEN m ELSE Feed(fed[i - 1], bytes[i])
    IN  fed[Len(bytes)]

\* startup_test on a new monitor.
startup_test(bytes) ==
    LET m == FeedAll(NewMonitor, bytes)
    IN  [m EXCEPT !.passed = m.verdict = "ok"]

\* feed_bytes.
feed_bytes(m, bytes) ==
    IF ~m.passed THEN [m EXCEPT !.verdict = "failed"]
    ELSE FeedAll([m EXCEPT !.verdict = "ok"], bytes)

Longest == Max({REPETITION_COUNT_CUTOFF, ADAPTIVE_PROPORTION_WINDOW})

LastOf(s, n) == IF Len(s) <= n THEN s ELSE SubSeq(s, Len(s) - n + 1, Len(s))

\* What the properties remember of the samples, as long as none failed.
Seen(bytes) ==
    /\ stream' = IF error' THEN <<>> ELSE LastOf(stream \o bytes, Longest)
    /\ position' = IF error' THEN 0
                   ELSE (position + Len(bytes)) % ADAPTIVE_PROPORTION_WINDOW

-----------------------------------------------------------------------------
(* A draw: HealthMonitoredRng::fill_bytes and global_observe.              *)

Wanted(t) == IF draws[t].stage = "seed" THEN SeedLength ELSE ReseedLength

\* The source is read; what it gave shows when it is tested.
Fill(t) ==
    /\ DrawAt(t, "fill")
    /\ Become(t, [draws[t] EXCEPT !.pc = "check", !.late = error])
    /\ UNCHANGED <<watch, halted, core, drbg, drbgLock, given>>

\* Mutant of FlagStops: the monitor is asked, the flag is not.
FlagIgnored(t, next) == GotoDraw(t, next)

\* A set flag ends the process: fill_bytes aborts on the error.
FlagStops(t, next) == GotoDraw(t, IF error THEN "abort" ELSE next)

Check(t) ==
    /\ DrawAt(t, "check")
    /\ FlagStops(t, "lazy")
    /\ UNCHANGED <<watch, halted, core, drbg, drbgLock, given>>

\* The LazyLock: the first to come runs the startup test, the others wait.
Lazy(t) ==
    /\ DrawAt(t, "lazy")
    /\ GotoDraw(t, "recheck")
    /\ IF started THEN UNCHANGED watch
       ELSE \E bytes \in [1 .. STARTUP_SAMPLES -> Samples] :
              /\ started' = TRUE
              /\ monitor' = startup_test(bytes)
              /\ error' = (monitor'.verdict # "ok")
              /\ Seen(bytes)
    /\ UNCHANGED <<halted, core, drbg, drbgLock, given>>

Recheck(t) ==
    /\ DrawAt(t, "recheck")
    /\ FlagStops(t, "observe")
    /\ UNCHANGED <<watch, halted, core, drbg, drbgLock, given>>

\* A call that fails gives up what it holds; C_Initialize may be tried again.
Fails(t) ==
    /\ Become(t, NoDraw)
    /\ drbgLock' = IF drbgLock = t THEN NoThread ELSE drbgLock
    /\ core' = IF draws[t].op \in {"post", "core"} THEN "none" ELSE core

\* Under the monitor's mutex, which is held until the flag is set.
Observe(t) ==
    /\ DrawAt(t, "observe")
    /\ \E bytes \in [1 .. Wanted(t) -> Samples] :
        /\ monitor' = feed_bytes(monitor, bytes)
        /\ error' = (error \/ monitor'.verdict = "failed")
        /\ Seen(bytes)
    /\ CASE monitor'.verdict = "ok" -> GotoDraw(t, "mix") /\ UNCHANGED <<drbgLock, core>>
         [] monitor'.verdict = "failed" -> GotoDraw(t, "abort") /\ UNCHANGED <<drbgLock, core>>
         [] monitor'.verdict = "panic" -> Fails(t)
    /\ UNCHANGED <<started, halted, drbg, given>>

\* Mutant of Abort: try_fill_bytes, which leaves the error to the caller.
ReturnError(t) ==
    /\ DrawAt(t, "abort")
    /\ Fails(t)
    /\ UNCHANGED <<watch, halted, drbg, given>>

Abort(t) ==
    /\ DrawAt(t, "abort")
    /\ halted' = TRUE
    /\ UNCHANGED <<watch, core, drbg, drbgLock, draws, given>>

-----------------------------------------------------------------------------
(* The DRBG. *)

Shared(t) == draws[t].op = "shared"
Own(t) == IF Shared(t) THEN drbg ELSE draws[t].drbg

\* update and reseed.
Reseeded(d) == [d EXCEPT !.counter = 1]

\* A second draw before the prediction-resistance one, after so many calls.
Overdue(d) == d.counter > RESEED_INTERVAL

BeginDraw(t, op, n) ==
    Become(t, [NoDraw EXCEPT !.pc = "fill", !.op = op, !.generates = n])

\* HmacDrbg::new ends with its seed mixed in, generate goes on with blocks.
Mix(t) ==
    /\ DrawAt(t, "mix")
    /\ IF draws[t].stage = "seed"
         THEN IF draws[t].op = "core"
                THEN drbg' = NewDrbg /\ core' = "ready" /\ Become(t, NoDraw)
                ELSE /\ Become(t, [draws[t] EXCEPT !.pc = "fill", !.stage = "reseed"])
                     /\ UNCHANGED <<drbg, core>>
         ELSE LET next == IF Overdue(Own(t)) THEN "fill" ELSE "blocks"
              IN  /\ drbg' = IF Shared(t) THEN Reseeded(drbg) ELSE drbg
                  /\ Become(t, [draws[t] EXCEPT !.pc = next, !.drbg = Reseeded(@)])
                  /\ UNCHANGED core
    /\ UNCHANGED <<watch, halted, drbgLock, given>>

\* health_check on each block: the first one that repeats its predecessor.
Stuck(d, blocks) ==
    {i \in DOMAIN blocks : blocks[i] = (IF i = 1 THEN d.last ELSE blocks[i - 1])}

\* generate fails: the DRBG keeps the blocks it made before the stuck one.
GenerateFails(t, blocks) ==
    LET i == Min(Stuck(Own(t), blocks))
        d == [Own(t) EXCEPT !.last = IF i = 1 THEN @ ELSE blocks[i - 1]]
    IN  /\ Stuck(Own(t), blocks) # {}
        /\ drbg' = IF Shared(t) THEN d ELSE drbg
        /\ given' = IF Shared(t) THEN <<>> ELSE given
        /\ IF draws[t].op = "rng"
             THEN GotoDraw(t, "abort") /\ UNCHANGED <<drbgLock, core>>
             ELSE Fails(t)

\* post_drbg_health looks at its first output.
PostRefuses(t, blocks) ==
    draws[t].op = "post" /\ draws[t].generates = 2 /\ blocks = <<ZeroBlock>>

Generated(t, blocks) ==
    LET d == [counter |-> Own(t).counter + 1, last |-> blocks[Len(blocks)]]
    IN  /\ Stuck(Own(t), blocks) = {}
        /\ drbg' = IF Shared(t) THEN d ELSE drbg
        /\ given' = IF Shared(t) THEN LastOf(given \o blocks, 2) ELSE given
        /\ IF PostRefuses(t, blocks) THEN Fails(t)
           ELSE IF draws[t].generates > 1
             THEN /\ Become(t, [draws[t] EXCEPT !.pc = "fill", !.drbg = d,
                                                !.generates = @ - 1])
                  /\ UNCHANGED <<drbgLock, core>>
           ELSE /\ Become(t, NoDraw)
                /\ drbgLock' = IF Shared(t) THEN NoThread ELSE drbgLock
                /\ core' = IF draws[t].op = "post" THEN "tested" ELSE core

generate(t) ==
    /\ DrawAt(t, "blocks")
    /\ \E n \in 1 .. (IF draws[t].op = "post" THEN 1 ELSE MaxBlocks) :
         \E blocks \in [1 .. n -> Blocks] :
           GenerateFails(t, blocks) \/ Generated(t, blocks)
    /\ UNCHANGED <<watch, halted>>

-----------------------------------------------------------------------------
(* Who draws. *)

post_drbg_health(t) ==
    /\ DrawAt(t, "idle") /\ core = "none"
    /\ core' = "post"
    /\ BeginDraw(t, "post", 2)
    /\ UNCHANGED <<watch, halted, drbg, drbgLock, given>>

try_new(t) ==
    /\ DrawAt(t, "idle") /\ core = "tested"
    /\ core' = "building"
    /\ BeginDraw(t, "core", 0)
    /\ UNCHANGED <<watch, halted, drbg, drbgLock, given>>

\* AES keys, salts, nonces and store keys: an error is returned.
generate_random_bytes(t) ==
    /\ DrawAt(t, "idle") /\ core = "ready"
    /\ BeginDraw(t, "bytes", 1)
    /\ UNCHANGED <<watch, halted, core, drbg, drbgLock, given>>

\* An algorithm with a generator of its own, filled as often as it asks: an
\* error of generate ends the process.
RngFills(t) ==
    /\ DrawAt(t, "idle") /\ core = "ready"
    /\ \E n \in 1 .. 2 : BeginDraw(t, "rng", n)
    /\ UNCHANGED <<watch, halted, core, drbg, drbgLock, given>>

\* RSA, EC and Ed25519 keys, with DrbgRng.
generate_key_pair(t) == RngFills(t)

\* The post-quantum algorithms, with PqcDrbgRng.
new_rng(t) == RngFills(t)

generate_random(t) ==
    /\ DrawAt(t, "idle") /\ core = "ready"
    /\ Become(t, [NoDraw EXCEPT !.pc = "lock", !.op = "shared", !.stage = "reseed",
                              !.generates = 1])
    /\ UNCHANGED <<watch, halted, core, drbg, drbgLock, given>>

AcquireDrbg(t) ==
    /\ DrawAt(t, "lock") /\ drbgLock = NoThread
    /\ drbgLock' = t
    /\ GotoDraw(t, "fill")
    /\ UNCHANGED <<watch, halted, core, drbg, given>>

StartDraw(t) ==
    \/ post_drbg_health(t) \/ try_new(t) \/ generate_random_bytes(t)
    \/ generate_key_pair(t) \/ new_rng(t) \/ generate_random(t)

Step(t) ==
    \/ Fill(t) \/ Check(t) \/ Lazy(t) \/ Recheck(t) \/ Observe(t)
    \/ Mix(t) \/ generate(t) \/ Abort(t)

RandomNext == \E t \in Threads : StartDraw(t) \/ AcquireDrbg(t) \/ Step(t)

\* A thread inside a call keeps running.  Only these steps have to be taken
\* for the property below; they wait for nothing.
RandomSpec == /\ RandomInit /\ [][RandomNext]_randomVars
              /\ \A t \in Threads : WF_randomVars(Recheck(t)) /\ WF_randomVars(Abort(t))

-----------------------------------------------------------------------------
(* Properties                                                              *)

(* A stuck source is found: as long as the error flag is clear, the last   *)
(* REPETITION_COUNT_CUTOFF samples that threads fed to the monitor,        *)
(* whatever call or thread each belongs to and the startup test included,  *)
(* are not all the same.                                                   *)
RepetitionDetected ==
    LET recent == LastOf(stream, REPETITION_COUNT_CUTOFF)
    IN  ~error /\ Len(recent) = REPETITION_COUNT_CUTOFF
            => Cardinality(Range(recent)) > 1

(* A biased source is found: as long as the error flag is clear, in the    *)
(* window under way, and in the one just completed, the window's first     *)
(* sample occurs fewer than ADAPTIVE_PROPORTION_CUTOFF times.  The windows *)
(* are counted off from the startup test on.                               *)
ProportionDetected ==
    LET n == IF position = 0 THEN ADAPTIVE_PROPORTION_WINDOW ELSE position
        window == LastOf(stream, n)
    IN  ~error /\ started
            => Cardinality({i \in DOMAIN window : window[i] = window[1]})
                 < ADAPTIVE_PROPORTION_CUTOFF

(* What observe promises of the two tests of SP 800-90B, the window always *)
(* within its array.                                                       *)
FaultsDetected == RandomTypeOK /\ RepetitionDetected /\ ProportionDetected

(* Once a test has failed, no entropy read after that reaches a DRBG,      *)
(* although the monitor itself recovers with the next good sample and      *)
(* other threads are past the flag already.                                *)
NoLateSeed == \A t \in Threads : DrawAt(t, "mix") => ~draws[t].late

(* The daemon never hands out two equal blocks one after the other, within *)
(* one answer or across answers: the output test survives reseeding.       *)
NoStuckOutput == Len(given) = 2 => given[1] # given[2]

(* Nothing bad goes into a DRBG, and nothing bad comes out.                *)
GeneratorSound == NoLateSeed /\ NoStuckOutput

(* A failed health test ends the process whatever other threads draw       *)
(* meanwhile: no thread waits for another on the way to abort.  What a     *)
(* caller is told before, by the panic of a DRBG say, is not stated.       *)
FailureHalts == error ~> halted
=============================================================================
