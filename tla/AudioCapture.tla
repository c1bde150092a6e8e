---------------------------- MODULE AudioCapture ----------------------------
(* audio/: the two capture backends, the buffer they share with the daemon, *)
(* and the resampler of the macOS one.  The daemon starts and stops takes   *)
(* on the GUI thread; a thread of the audio system delivers blocks.         *)
(*                                                                          *)
(* A sample is its index in the 16 kHz signal of its take, so a chunk is a  *)
(* range of indices; a chunk is loud or quiet as a whole.  Which microphone *)
(* is opened is left out.                                                   *)
EXTENDS Integers, Sequences, FiniteSets, FiniteSetsExt

CONSTANTS
  MaxTakes,      \* how many times a recording is started
  MaxInput,      \* samples a stream delivers, at the most
  MaxBlock,      \* samples in a block of the audio system
  Up, Down,      \* the ratio 16 kHz / native rate, reduced, on macOS
  HalfLen,       \* _FILTER_HALF_LEN
  SilenceLimit,  \* silence_timeout_s, in samples
  DurationLimit  \* max_recording_s, in samples

ASSUME AudioAssumption ==
  /\ {MaxTakes, MaxInput, MaxBlock, Up, Down, HalfLen, SilenceLimit, DurationLimit}
       \subseteq Nat \ {0}

Takes == 1..MaxTakes
None == 0

VARIABLES
  backend,     \* "sounddevice" or "avaudioengine"
  phase,       \* "idle", "recording" or "closed"
  take,        \* the number of the newest take
  stream,      \* _stream, or the tap that _tapped stands for: None or a take
  running,     \* the takes whose stream or tap delivers blocks
  late,        \* removed taps whose last block is under way
  stuck,       \* a tap that could not be removed blocks the next one
  input,       \* _in_count of each take's resampler
  next,        \* its _next_j
  chunks,      \* AudioBuffer._chunks
  total,       \* AudioBuffer._total_samples
  refreshDue,  \* _refresh_due
  seen,        \* what check_silence has read of the buffer
  \* an observer's notes
  quiet,       \* how many samples at the end of the newest take are quiet
  leaked,      \* a stream that was not closed has delivered since the last flush
  strayed      \* the resampler has read an input it does not have

streams == <<stream, running, late, stuck>>
resamplers == <<input, next, strayed>>
buffer == <<chunks, total>>
vars == <<backend, phase, take, streams, resamplers, buffer, refreshDue, seen, quiet, leaked>>

Nothing == [is |-> "nothing"]

Init ==
  /\ backend \in {"sounddevice", "avaudioengine"}
  /\ phase = "idle" /\ take = 0
  /\ stream = None /\ running = {} /\ late = {} /\ stuck = FALSE
  /\ input = [t \in Takes |-> 0] /\ next = [t \in Takes |-> 0] /\ strayed = FALSE
  /\ chunks = <<>> /\ total = 0
  /\ refreshDue = FALSE
  /\ seen = Nothing
  /\ quiet = 0 /\ leaked = FALSE

-----------------------------------------------------------------------------
(* AudioBuffer.                                                             *)
Length(c) == c.to - c.from + 1

Append1(c) == chunks' = Append(chunks, c) /\ total' = total + Length(c)

FlushKeepingTheCount == chunks' = <<>> /\ UNCHANGED total   \* fault
Flush == chunks' = <<>> /\ total' = 0

(* _snapshot_tail: the newest chunks that cover n samples.                  *)
After(i) == MapThenSumSet(LAMBDA k : Length(chunks[k]), (i + 1)..Len(chunks))
SnapshotTail(n) == {chunks[i] : i \in {k \in 1..Len(chunks) : After(k) < n}}

IsIdleFor(n) == total >= n /\ \A c \in SnapshotTail(n) : ~c.loud

-----------------------------------------------------------------------------
(* PolyphaseResampler.process; for sounddevice the rates are equal.         *)
L == IF backend = "sounddevice" THEN 1 ELSE Up
M == IF backend = "sounddevice" THEN 1 ELSE Down
Larger == IF L >= M THEN L ELSE M
TapsPerPhase == IF L = M THEN 1 ELSE (2 * HalfLen * Larger + 1 + L - 1) \div L

LastOutputOneTooMany(in) == (in * L) \div M     \* fault: reads past the block
LastOutput(in) == (in * L - 1) \div M

NewestInput(j) == (j * M) \div L

(* x_ext is the history of TapsPerPhase - 1 inputs followed by the block.   *)
InsideWindow(j, in, n) ==
  LET start == in - (TapsPerPhase - 1)
  IN /\ NewestInput(j) - (TapsPerPhase - 1) >= start
     /\ NewestInput(j) - start < TapsPerPhase - 1 + n

(* The callback, or the tap: a block of n samples of take t.                *)
Process(t, n, loud) ==
  LET outputs == next[t]..LastOutput(input[t] + n)
  IN /\ input' = [input EXCEPT ![t] = @ + n]
     /\ next' = [next EXCEPT ![t] = IF outputs = {} THEN @ ELSE LastOutput(input[t] + n) + 1]
     /\ strayed' = (strayed \/ \E j \in outputs : ~InsideWindow(j, input[t], n))
     /\ IF outputs = {} THEN UNCHANGED <<buffer, quiet>>
        ELSE /\ Append1([take |-> t, from |-> next[t], to |-> LastOutput(input[t] + n),
                         loud |-> loud])
             /\ quiet' = IF t # take THEN quiet
                         ELSE IF loud THEN 0 ELSE quiet + Cardinality(outputs)

Block(t) ==
  /\ t \in running
  /\ \E n \in 1..MaxBlock, loud \in BOOLEAN :
       input[t] + n <= MaxInput /\ Process(t, n, loud)
  /\ UNCHANGED <<backend, phase, take, streams, refreshDue, seen, leaked>>

(* removeTapOnBus_ does not wait for the block that is being delivered.     *)
LateBlock(t) ==
  /\ t \in late
  /\ late' = late \ {t}
  /\ \E loud \in BOOLEAN : Process(t, 1, loud)
  /\ UNCHANGED <<backend, phase, take, stream, running, stuck, refreshDue, seen, leaked>>

-----------------------------------------------------------------------------
(* Stopping, in every path: the recording is over, cancelled or failed.     *)
(* The caller gets the chunks as they are then.                             *)

(* _close_stream: if PortAudio raises, the attribute is cleared all the     *)
(* same and the stream goes on.                                             *)
CloseStream ==
  /\ stream' = None
  /\ running' \in {running \ {stream}, running}
  /\ UNCHANGED <<late, stuck>>

(* _teardown_tap, and the engine is stopped.  Its last block may be under   *)
(* way.                                                                     *)
TeardownTap ==
  /\ stream' = None
  /\ running' = running \ {stream}
  /\ late' \in {late} \union (IF stream \in running THEN {late \union {stream}} ELSE {})
  /\ stuck' \in {stuck} \union (IF stream # None THEN {TRUE} ELSE {})

Release == IF backend = "sounddevice" THEN CloseStream ELSE TeardownTap

(* The resampler of a stream that is gone is gone too.                      *)
Delivering(f) == [t \in Takes |-> IF t \in running' \union late' THEN f[t] ELSE 0]

Stop ==
  /\ Release
  /\ refreshDue' = (refreshDue \/ backend = "sounddevice")
  /\ Flush
  /\ leaked' = (running' # {})
  /\ phase' = "idle" /\ quiet' = 0
  /\ input' = Delivering(input) /\ next' = Delivering(next)
  /\ UNCHANGED <<backend, take, strayed>>

AtRest == phase = "idle" /\ seen = Nothing

(* start(): on macOS it drops what an earlier tap may have left.  A failure *)
(* ends in _recover_to_idle, which stops.  A block of an earlier take that  *)
(* was under way has arrived by then.                                       *)
LeavesTheRest == UNCHANGED <<chunks, total>>    \* fault: no flush on start
DropsTheRest == IF backend = "avaudioengine" THEN Flush ELSE UNCHANGED <<chunks, total>>

Starts ==
  /\ AtRest /\ take < MaxTakes /\ late = {} /\ ~stuck
  /\ take' = take + 1
  /\ DropsTheRest
  /\ stream' = take' /\ running' = running \union {take'} /\ UNCHANGED late
  /\ phase' = "recording"
  /\ quiet' = 0
  /\ input' = Delivering(input) /\ next' = Delivering(next)
  /\ UNCHANGED <<backend, stuck, strayed, refreshDue, seen, leaked>>

(* _stream.start() or startAndReturnError_ fails, there is no usable input, *)
(* or a stuck tap is in the way.                                            *)
StartFails ==
  /\ AtRest /\ take < MaxTakes /\ late = {}
  /\ take' = take + 1
  /\ Flush
  /\ quiet' = 0 /\ leaked' = (running # {})
  /\ refreshDue' = (refreshDue \/ backend = "sounddevice")
  /\ UNCHANGED <<backend, phase, streams, resamplers, seen>>

UserStops ==
  /\ phase = "recording" /\ seen = Nothing
  /\ Stop
  /\ UNCHANGED seen

-----------------------------------------------------------------------------
(* check_silence on the GUI thread: it reads the buffer's length and, when   *)
(* that is within the limit, its silence, each under the lock, and decides  *)
(* without it; the callback goes on meanwhile.  "due" is what the take, as  *)
(* opposed to the buffer, had earned at each reading.                       *)
ReadsLength ==
  /\ phase = "recording" /\ seen = Nothing
  /\ seen' = [is |-> "length", long |-> total >= DurationLimit, idle |-> FALSE,
              due |-> next[take] >= DurationLimit]
  /\ UNCHANGED <<backend, phase, take, streams, resamplers, buffer, refreshDue, quiet, leaked>>

ReadsSilence ==
  /\ phase = "recording" /\ seen.is = "length" /\ ~seen.long
  /\ seen' = [is |-> "silence", long |-> FALSE, idle |-> IsIdleFor(SilenceLimit),
              due |-> quiet >= SilenceLimit]
  /\ UNCHANGED <<backend, phase, take, streams, resamplers, buffer, refreshDue, quiet, leaked>>

CutsOff ==
  /\ seen # Nothing /\ (seen.long \/ seen.idle)
  /\ Stop
  /\ seen' = Nothing

LetsGoOn ==
  /\ seen.is = "silence" /\ ~seen.idle
  /\ seen' = Nothing
  /\ UNCHANGED <<backend, phase, take, streams, resamplers, buffer, refreshDue, quiet, leaked>>

(* refresh_if_due on an idle tick, refresh_devices when the menu opens:     *)
(* PortAudio is initialised anew, which ends every stream it still has.     *)
Rescans ==
  /\ AtRest /\ backend = "sounddevice" /\ stream = None
  /\ refreshDue' = FALSE
  /\ running' = {}
  /\ UNCHANGED <<backend, phase, take, stream, late, stuck, resamplers, buffer, seen,
                 quiet, leaked>>

(* close() when the application ends.                                       *)
Closes ==
  /\ phase # "closed" /\ seen = Nothing
  /\ Release
  /\ phase' = "closed"
  /\ UNCHANGED <<backend, take, resamplers, buffer, refreshDue, seen, quiet, leaked>>

Next ==
  \/ Starts \/ StartFails \/ UserStops
  \/ ReadsLength \/ ReadsSilence \/ CutsOff \/ LetsGoOn
  \/ Rescans \/ Closes
  \/ \E t \in Takes : Block(t) \/ LateBlock(t)

Spec == Init /\ [][Next]_vars

-----------------------------------------------------------------------------
(* Properties.                                                              *)

(* A take's audio, which stop() returns, is its own: all that its stream    *)
(* has delivered, once, in order, and nothing of an earlier take, unless a  *)
(* stream that PortAudio failed to close has delivered since the buffer was *)
(* last emptied.                                                            *)
TakeIsItsOwn ==
  phase = "recording" /\ ~leaked =>
    /\ \A i \in 1..Len(chunks) : chunks[i].take = take
    /\ \A i \in 1..Len(chunks) : chunks[i].from = IF i = 1 THEN 0 ELSE chunks[i - 1].to + 1
    /\ next[take] = IF chunks = <<>> THEN 0 ELSE chunks[Len(chunks)].to + 1

(* resampler.py: however the signal is cut into blocks, every output of the *)
(* stream is computed, as soon as its inputs are there, from inputs it has. *)
StreamingIsBatch ==
  /\ ~strayed
  /\ \A t \in Takes : input[t] > 0 => next[t] = (input[t] * L - 1) \div M + 1

(* A recording is cut off when, and only when, it was itself as long or as  *)
(* long silent as the limits say at the moment the buffer was read for it.  *)
CutOffIsEarned ==
  seen # Nothing /\ ~leaked => (seen.long \/ seen.idle) = seen.due

(* Types of the variables.                                                  *)
TypeOK ==
  /\ backend \in {"sounddevice", "avaudioengine"}
  /\ phase \in {"idle", "recording", "closed"}
  /\ take \in 0..MaxTakes /\ stream \in 0..MaxTakes
  /\ running \subseteq Takes /\ late \subseteq Takes
  /\ input \in [Takes -> Nat] /\ next \in [Takes -> Nat]
  /\ total \in Nat /\ quiet \in Nat
  /\ {stuck, refreshDue, leaked, strayed} \subseteq BOOLEAN
=============================================================================
