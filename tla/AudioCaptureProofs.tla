------------------------- MODULE AudioCaptureProofs -------------------------
(***************************************************************************)
(* Theorems about AudioCapture, for any number of takes, any block sizes,  *)
(* resampling ratio and limits.                                            *)
(***************************************************************************)
EXTENDS AudioCapture, FiniteSetTheorems, SequenceTheorems, WellFoundedInduction, TLAPS

-----------------------------------------------------------------------------
(***************************************************************************)
(* The invariant.  TakeIsItsOwn speaks of a recording; what makes it hold  *)
(* at its start is what the stop before it left behind, in which the two   *)
(* backends differ: sounddevice has emptied the buffer and, unless a       *)
(* stream leaked, has nothing that could fill it; the macOS one may still  *)
(* deliver one block, but empties the buffer again when it starts.         *)
(***************************************************************************)
StreamsAreKnown ==
  /\ running \union late \subseteq 1..take
  /\ \A t \in Takes : t > take => input[t] = 0 /\ next[t] = 0
  /\ phase = "idle" => stream = None
  /\ phase = "recording" => take \in Takes /\ stream = take /\ late = {}
  /\ backend = "sounddevice" => late = {}

NothingLeaks ==
  /\ phase = "idle" => running = {}
  /\ phase = "recording" => running \subseteq {take}
  /\ phase = "idle" /\ backend = "sounddevice" => chunks = <<>> /\ total = 0

Chunk == [take : Takes, from : Nat, to : Nat, loud : BOOLEAN]

(* Where chunk i of the buffer begins.                                     *)
Begin(i) == IF i = 1 THEN 0 ELSE chunks[i - 1].to + 1

(* The chunks follow each other from 0 to the end of the take.             *)
Seamless ==
  /\ \A i \in 1..Len(chunks) :
       /\ chunks[i].take = take
       /\ chunks[i].from = Begin(i) /\ chunks[i].to >= Begin(i)
  /\ total = Begin(Len(chunks) + 1)
  /\ next[take] = total

(* The last quiet samples of the take, and no more, are those of the       *)
(* chunks after the last loud one.                                         *)
QuietIsCounted ==
  /\ quiet <= total
  /\ \A i \in 1..Len(chunks) : chunks[i].loud => chunks[i].to < total - quiet
  /\ quiet < total =>
       \E i \in 1..Len(chunks) : chunks[i].loud /\ chunks[i].to = total - quiet - 1

TakeInv ==
  /\ chunks \in Seq(Chunk)
  /\ ~leaked => NothingLeaks
  /\ ~leaked /\ phase = "recording" => Seamless /\ QuietIsCounted

ResamplerInv ==
  /\ strayed = FALSE
  /\ \A t \in Takes : next[t] = LastOutput(input[t]) + 1

CaptureInv == TypeOK /\ StreamsAreKnown /\ TakeInv /\ ResamplerInv

-----------------------------------------------------------------------------
(* Division.                                                               *)
LEMMA Quotient ==
  ASSUME NEW a \in Int, NEW b \in Nat \ {0}
  PROVE  /\ a \div b \in Int
         /\ b * (a \div b) \in Int /\ b * (a \div b) <= a
         /\ b * (a \div b) + b > a
  OBVIOUS

LEMMA Factor ==
  ASSUME NEW x \in Int, NEW y \in Int, NEW b \in Nat \ {0}
  PROVE  b * x < b * y + b => x <= y
  OBVIOUS

LEMMA Ratio == L \in Nat \ {0} /\ M \in Nat \ {0} /\ TapsPerPhase \in Int
<1>1. L \in Nat \ {0} /\ M \in Nat \ {0}
  BY AudioAssumption DEF L, M
<1>2. (2 * HalfLen * Larger + 1 + L - 1) \in Int
  BY <1>1, AudioAssumption DEF Larger
<1>. QED BY <1>1, <1>2, Quotient DEF TapsPerPhase

(* An output is due as soon as the newest of its inputs is there.          *)
LEMMA Due ==
  ASSUME NEW in \in Nat, NEW j \in Nat
  PROVE  /\ LastOutput(in) \in Int
         /\ NewestInput(j) \in Int
         /\ j <= LastOutput(in) <=> NewestInput(j) < in
<1> DEFINE a == in * L - 1
           p == j * M
<1>1. /\ L \in Nat \ {0} /\ M \in Nat \ {0} /\ a \in Int /\ p \in Int
      /\ M * (a \div M) <= a /\ a < M * (a \div M) + M /\ (a \div M) \in Int
      /\ L * (p \div L) <= p /\ p < L * (p \div L) + L /\ (p \div L) \in Int
  BY Ratio, Quotient
<1>2. ASSUME j <= a \div M PROVE p \div L < in
  <2>1. M * j <= M * (a \div M)
    BY <1>1, <1>2
  <2>2. L * (p \div L) < L * in
    BY <1>1, <2>1
  <2>. QED BY <1>1, <2>2
<1>3. ASSUME p \div L < in PROVE j <= a \div M
  <2>1. L * (p \div L) + L <= L * in
    BY <1>1, <1>3
  <2>2. M * j < M * (a \div M) + M
    BY <1>1, <2>1
  <2>. QED BY <1>1, <2>2, Factor
<1>. QED BY <1>1, <1>2, <1>3 DEF LastOutput, NewestInput

(* Before the first input no output is due.                                *)
LEMMA NoneDue == LastOutput(0) = -1
<1>1. /\ M \in Nat \ {0} /\ L \in Nat \ {0} /\ 0 * L - 1 = -1
      /\ M * ((-1) \div M) <= -1 /\ M * ((-1) \div M) + M > -1 /\ (-1) \div M \in Int
  BY Ratio, Quotient
<1> DEFINE q == (-1) \div M
<1>2. q < 0
  BY <1>1
<1>3. q >= -1
  BY <1>1
<1>. QED BY <1>1, <1>2, <1>3 DEF LastOutput

-----------------------------------------------------------------------------
(* A block through the resampler.                                          *)
Outputs(t, n) == LastOutput(input[t] + n) - next[t] + 1

LEMMA ProcessFacts ==
  ASSUME TypeOK, ResamplerInv, NEW t \in Takes, NEW n \in Nat \ {0}, NEW loud \in BOOLEAN,
         Process(t, n, loud), UNCHANGED backend
  PROVE  /\ Outputs(t, n) \in Nat
         /\ input' = [input EXCEPT ![t] = @ + n]
         /\ next' = [next EXCEPT ![t] = @ + Outputs(t, n)]
         /\ ResamplerInv'
         /\ Outputs(t, n) = 0 => UNCHANGED <<chunks, total, quiet>>
         /\ Outputs(t, n) > 0 =>
              /\ chunks' = Append(chunks, [take |-> t, from |-> next[t],
                                          to |-> next[t] + Outputs(t, n) - 1, loud |-> loud])
              /\ total' = total + Outputs(t, n)
              /\ quiet' = IF t # take THEN quiet
                          ELSE IF loud THEN 0 ELSE quiet + Outputs(t, n)
<1> DEFINE in   == input[t]
           last == LastOutput(in + n)
           outs == next[t]..last
<1>1. /\ in \in Nat /\ next[t] \in Nat /\ in + n \in Nat /\ strayed = FALSE
      /\ last \in Int /\ LastOutput(in) \in Int /\ next[t] = LastOutput(in) + 1
      /\ input \in [Takes -> Nat] /\ next \in [Takes -> Nat]
  BY Due DEF TypeOK, ResamplerInv
<1>2. LastOutput(in) <= last
  <2>1. CASE LastOutput(in) \in Nat
    BY <1>1, <2>1, Due
  <2>2. CASE LastOutput(in) = -1
    <3>1. NewestInput(0) = 0
      <4>1. L \in Nat \ {0} /\ 0 * M = 0
        BY Ratio
      <4>2. L * (0 \div L) <= 0 /\ L * (0 \div L) + L > 0 /\ 0 \div L \in Int
        BY <4>1, Quotient
      <4>3. 0 \div L <= 0 /\ 0 \div L > -1
        BY <4>1, <4>2
      <4>. QED BY <4>1, <4>2, <4>3 DEF NewestInput
    <3>2. 0 <= last
      BY <1>1, <3>1, Due
    <3>. QED BY <2>2, <3>2, <1>1
  <2>. QED BY <1>1, <2>1, <2>2
<1>3. Outputs(t, n) = last - next[t] + 1 /\ Outputs(t, n) \in Nat
  BY <1>1, <1>2 DEF Outputs
<1>4. \A j \in outs : InsideWindow(j, in, n)
  <2> SUFFICES ASSUME NEW j \in outs PROVE InsideWindow(j, in, n)
    OBVIOUS
  <2>1. j \in Nat /\ j <= last /\ ~(j <= LastOutput(in))
    BY <1>1
  <2>2. NewestInput(j) \in Int /\ NewestInput(j) < in + n /\ ~(NewestInput(j) < in)
    BY <1>1, <2>1, Due
  <2>. QED BY <1>1, <2>2, Ratio DEF InsideWindow
<1>5. PICK d \in Nat : d = Outputs(t, n)
  BY <1>3
<1>6. PICK x \in Int : x = last
  BY <1>1
<1>7. /\ x = next[t] + d - 1 /\ (next[t]..x = {} <=> d = 0)
      /\ d > 0 => Cardinality(next[t]..x) = d
  <2>1. next[t] \in Nat /\ x = next[t] + d - 1
    BY <1>1, <1>3, <1>5, <1>6
  <2>2. \A m \in Nat : /\ m..(m + d - 1) = {} <=> d = 0
                       /\ d > 0 => Cardinality(m..(m + d - 1)) = d
    <3> SUFFICES ASSUME NEW m \in Nat
                 PROVE  /\ m..(m + d - 1) = {} <=> d = 0
                        /\ d > 0 => Cardinality(m..(m + d - 1)) = d
      OBVIOUS
    <3>1. PICK y \in Int : y = m + d - 1
      OBVIOUS
    <3>2. Cardinality(m..y) = IF m > y THEN 0 ELSE y - m + 1
      BY FS_Interval
    <3>. QED BY <3>1, <3>2
  <2>. QED BY <2>1, <2>2
<1>8. /\ input' = [input EXCEPT ![t] = @ + n]
      /\ next' = [next EXCEPT ![t] = IF next[t]..x = {} THEN @ ELSE x + 1]
      /\ strayed' = (strayed \/ \E j \in outs : ~InsideWindow(j, in, n))
      /\ IF next[t]..x = {} THEN UNCHANGED <<buffer, quiet>>
         ELSE /\ Append1([take |-> t, from |-> next[t], to |-> x, loud |-> loud])
              /\ quiet' = IF t # take THEN quiet
                          ELSE IF loud THEN 0 ELSE quiet + Cardinality(next[t]..x)
  BY <1>6 DEF Process
<1>9. next' = [next EXCEPT ![t] = @ + d]
  <2>1. (IF next[t]..x = {} THEN next[t] ELSE x + 1) = next[t] + d
    BY <1>1, <1>7, SMTT(30)
  <2>. QED BY <1>8, <2>1
<1>10. ResamplerInv'
  <2>1. strayed' = FALSE
    BY <1>1, <1>4, <1>8
  <2>2. \A u \in Takes : input'[u] = (IF u = t THEN in + n ELSE input[u])
    BY <1>1, <1>8
  <2>3. \A u \in Takes : next'[u] = (IF u = t THEN x + 1 ELSE next[u])
    BY <1>1, <1>7, <1>9, SMTT(30)
  <2>4. \A u \in Takes : next'[u] = LastOutput(input'[u]) + 1
    BY <1>6, <2>2, <2>3 DEF ResamplerInv
  <2>5. \A u \in Takes : LastOutput(input[u])' = LastOutput(input'[u])
    BY DEF LastOutput, L, M
  <2>. QED BY <2>1, <2>4, <2>5 DEF ResamplerInv
<1>11. d = 0 => UNCHANGED <<chunks, total, quiet>>
  BY <1>7, <1>8 DEF buffer
<1>12. ASSUME d > 0
       PROVE  /\ chunks' = Append(chunks, [take |-> t, from |-> next[t],
                                           to |-> next[t] + d - 1, loud |-> loud])
              /\ total' = total + d
              /\ quiet' = IF t # take THEN quiet ELSE IF loud THEN 0 ELSE quiet + d
  <2>1. Length([take |-> t, from |-> next[t], to |-> x, loud |-> loud]) = d
    <3>1. next[t] \in Nat /\ x = next[t] + d - 1
      BY <1>1, <1>7
    <3>. QED BY <3>1 DEF Length
  <2>. QED BY <1>7, <1>8, <1>12, <2>1 DEF Append1
<1>. QED
  BY <1>3, <1>5, <1>8, <1>9, <1>10, <1>11, <1>12

-----------------------------------------------------------------------------
LEMMA LessThenNotMore ==
  ASSUME NEW a \in Int, NEW b \in Int, NEW c \in Int, a < b, c >= b
  PROVE  a < c
OBVIOUS

(* A block into the buffer.                                                *)
BlockOf(t) == \E n \in Nat \ {0}, loud \in BOOLEAN : Process(t, n, loud)

BlockRest ==
  UNCHANGED <<backend, phase, take, stream, stuck, refreshDue, seen, leaked>>

LEMMA BlockTypes ==
  ASSUME TypeOK, ResamplerInv, chunks \in Seq(Chunk), NEW t \in Takes, BlockOf(t), BlockRest,
         running' \subseteq running, late' \subseteq late
  PROVE  /\ TypeOK' /\ ResamplerInv' /\ chunks' \in Seq(Chunk)
         /\ \A u \in Takes \ {t} : input'[u] = input[u] /\ next'[u] = next[u]
<1>1. PICK n \in Nat \ {0}, loud \in BOOLEAN : Process(t, n, loud)
  BY DEF BlockOf
<1>2. UNCHANGED <<backend, phase, take, stream, stuck, refreshDue, seen, leaked>>
  BY DEF BlockRest
<1>3. PICK d \in Nat :
        /\ input' = [input EXCEPT ![t] = @ + n]
        /\ next' = [next EXCEPT ![t] = @ + d]
        /\ ResamplerInv'
        /\ d = 0 => UNCHANGED <<chunks, total, quiet>>
        /\ d > 0 =>
             /\ chunks' = Append(chunks, [take |-> t, from |-> next[t],
                                          to |-> next[t] + d - 1, loud |-> loud])
             /\ total' = total + d
             /\ quiet' = IF t # take THEN quiet ELSE IF loud THEN 0 ELSE quiet + d
  <2>1. UNCHANGED backend
    BY <1>2
  <2>. QED BY <1>1, <2>1, ProcessFacts, ZenonT(30)
<1>4. input[t] + n \in Nat /\ next[t] + d \in Nat /\ total + d \in Nat /\ quiet + d \in Nat
  BY SMTT(30) DEF TypeOK
<1>5. /\ input' \in [Takes -> Nat] /\ next' \in [Takes -> Nat]
      /\ \A u \in Takes \ {t} : input'[u] = input[u] /\ next'[u] = next[u]
  <2>1. /\ input' = [input EXCEPT ![t] = @ + n]
        /\ next' = [next EXCEPT ![t] = @ + d]
    BY <1>3
  <2>. QED BY <1>4, <2>1 DEF TypeOK
<1>6. total' \in Nat /\ quiet' \in Nat
  <2>1. total' \in {total, total + d} /\ quiet' \in {quiet, 0, quiet + d}
    BY <1>3
  <2>. QED BY <1>4, <2>1, SMTT(30) DEF TypeOK
<1>7. chunks' \in Seq(Chunk)
  <2>1. CASE d = 0
    BY <1>3, <2>1
  <2>2. CASE d > 0
    <3>1. next[t] \in Nat /\ next[t] + d - 1 \in Nat
      BY <2>2 DEF TypeOK
    <3>2. [take |-> t, from |-> next[t], to |-> next[t] + d - 1, loud |-> loud] \in Chunk
      BY <3>1 DEF Chunk
    <3>. QED BY <1>3, <2>2, <3>2
  <2>. QED BY <2>1, <2>2
<1>8. {stuck, refreshDue, leaked, strayed}' \subseteq BOOLEAN
  <2>1. strayed' = FALSE
    BY <1>3 DEF ResamplerInv
  <2>. QED BY <1>2, <2>1 DEF TypeOK
<1>. QED BY <1>2, <1>3, <1>5, <1>6, <1>7, <1>8 DEF TypeOK

(* A block of the take that is being recorded extends it at its end.       *)
LEMMA BlockExtends ==
  ASSUME TypeOK, ResamplerInv, chunks \in Seq(Chunk), take \in Takes, BlockOf(take), BlockRest,
         Seamless, QuietIsCounted
  PROVE  Seamless' /\ QuietIsCounted'
<1>1. PICK n \in Nat \ {0}, loud \in BOOLEAN : Process(take, n, loud)
  BY DEF BlockOf
<1>2. UNCHANGED <<backend, take>>
  BY DEF BlockRest
<1>3. PICK d \in Nat : d = Outputs(take, n)
  BY <1>1, <1>2, ProcessFacts
<1>4. PICK end \in Nat : end = next[take]
  BY DEF TypeOK
<1> DEFINE c == [take |-> take, from |-> end, to |-> end + d - 1, loud |-> loud]
<1>5. /\ next' = [next EXCEPT ![take] = @ + d]
      /\ d = 0 => UNCHANGED <<chunks, total, quiet>>
      /\ d > 0 => /\ chunks' = Append(chunks, c)
                  /\ total' = total + d
                  /\ quiet' = IF loud THEN 0 ELSE quiet + d
  BY <1>1, <1>2, <1>3, <1>4, ProcessFacts
<1>6. /\ total = end /\ next'[take] = end + d /\ quiet \in Nat /\ quiet <= end
      /\ Begin(Len(chunks) + 1) = end
  BY <1>4, <1>5 DEF TypeOK, Seamless, QuietIsCounted
<1>7. CASE d = 0
  <2>1. next' = next
    BY <1>5, <1>7 DEF TypeOK
  <2>. QED
    BY <1>2, <1>5, <1>7, <2>1 DEF Seamless, QuietIsCounted, Begin
<1>8. CASE d > 0
  <2>1. PICK len \in Nat : len = Len(chunks)
    OBVIOUS
  <2>2. /\ Len(chunks') = len + 1 /\ chunks'[len + 1] = c
        /\ \A i \in 1..len : chunks'[i] = chunks[i]
    BY <1>5, <1>8, <2>1
  <2>3. \A i \in 1..(len + 1) : Begin(i)' = Begin(i)
    BY <2>1, <2>2 DEF Begin
  <2>4. Begin(len + 2)' = end + d
    <3>1. chunks'[len + 2 - 1] = c
      BY <2>2
    <3>2. Begin(len + 2)' = chunks'[len + 2 - 1].to + 1
      BY DEF Begin
    <3>. QED BY <3>1, <3>2
  <2> DEFINE Fits(i) == /\ chunks'[i].take = take
                        /\ chunks'[i].from = Begin(i)' /\ chunks'[i].to >= Begin(i)'
  <2>5. ASSUME NEW i \in 1..len PROVE Fits(i)
    BY <2>1, <2>2, <2>3 DEF Seamless
  <2>6. Fits(len + 1)
    BY <1>6, <1>8, <2>1, <2>2, <2>3
  <2>7. \A i \in 1..(len + 1) : Fits(i)
    BY <2>5, <2>6
  <2>8. Seamless'
    <3>1. total' = end + d /\ Len(chunks') + 1 = len + 2
      BY <1>5, <1>6, <1>8, <2>2
    <3>. QED BY <1>2, <1>6, <2>2, <2>4, <2>7, <3>1 DEF Seamless
  <2>9. \A i \in 1..len : chunks[i].to \in Nat
    <3>1. \A i \in 1..len : chunks[i] \in Chunk
      BY <2>1
    <3>. QED BY <3>1 DEF Chunk
  <2>10. QuietIsCounted'
    <3>1. /\ \A i \in 1..len : chunks[i].loud => chunks[i].to < end - quiet
          /\ quiet < end => \E i \in 1..len : chunks[i].loud /\ chunks[i].to = end - quiet - 1
      BY <1>6, <2>1 DEF QuietIsCounted
    <3>2. total' = end + d /\ quiet' = IF loud THEN 0 ELSE quiet + d
      BY <1>5, <1>6, <1>8
    <3>3. quiet' <= total'
      BY <1>6, <3>2
    <3>4. \A i \in 1..(len + 1) : chunks'[i].loud => chunks'[i].to < total' - quiet'
      <4>1. ASSUME NEW i \in 1..len, chunks'[i].loud PROVE chunks'[i].to < total' - quiet'
        <5>1. chunks[i].to < end - quiet /\ chunks[i].to \in Nat /\ chunks'[i] = chunks[i]
          BY <2>2, <2>9, <3>1, <4>1
        <5>2. total' - quiet' >= end - quiet
          BY <1>6, <3>2
        <5>3. total' \in Int /\ quiet' \in Int
          BY <1>6, <3>2
        <5>4. chunks[i].to \in Int /\ end - quiet \in Int /\ total' - quiet' \in Int
          BY <1>6, <5>1, <5>3
        <5>. QED BY <5>1, <5>2, <5>4, LessThenNotMore
      <4>2. c.loud => c.to < total' - quiet'
        BY <3>2
      <4>. QED BY <2>2, <4>1, <4>2
    <3>5. quiet' < total' =>
            \E i \in 1..(len + 1) : chunks'[i].loud /\ chunks'[i].to = total' - quiet' - 1
      <4>1. CASE loud
        <5>1. c.loud /\ c.to = total' - quiet' - 1
          BY <3>2, <4>1
        <5>. QED BY <2>2, <5>1
      <4>2. CASE ~loud
        BY <1>6, <2>2, <3>1, <3>2, <4>2
      <4>. QED BY <4>1, <4>2
    <3>. QED BY <2>2, <3>3, <3>4, <3>5 DEF QuietIsCounted
  <2>. QED BY <2>8, <2>10
<1>. QED BY <1>7, <1>8

LEMMA BlockKeeps ==
  ASSUME CaptureInv, NEW t \in running \union late, BlockOf(t), BlockRest,
         running' = running, late' \subseteq late
  PROVE  CaptureInv'
<1> USE DEF CaptureInv
<1>1. /\ t \in Takes /\ t \in 1..take /\ chunks \in Seq(Chunk)
      /\ UNCHANGED <<backend, phase, take, stream, leaked>>
  BY DEF TypeOK, StreamsAreKnown, TakeInv, BlockRest
<1>2. /\ TypeOK' /\ ResamplerInv' /\ chunks' \in Seq(Chunk)
      /\ \A u \in Takes \ {t} : input'[u] = input[u] /\ next'[u] = next[u]
  BY <1>1, BlockTypes
<1>3. StreamsAreKnown'
  <2>1. \A u \in Takes : u > take => u # t
    BY <1>1 DEF TypeOK, Takes
  <2>. QED BY <1>1, <1>2, <2>1 DEF StreamsAreKnown
<1>4. ASSUME ~leaked
      PROVE  /\ NothingLeaks'
             /\ phase = "recording" => Seamless' /\ QuietIsCounted'
  <2>1. NothingLeaks
    BY <1>4 DEF TakeInv
  <2>2. phase = "idle" /\ backend = "sounddevice" => FALSE
    BY <1>1, <2>1 DEF NothingLeaks, StreamsAreKnown
  <2>3. NothingLeaks'
    BY <1>1, <2>1, <2>2 DEF NothingLeaks
  <2>4. CASE phase = "recording"
    <3>1. t = take /\ take \in Takes
      BY <2>1, <2>4 DEF NothingLeaks, StreamsAreKnown
    <3>. QED BY <1>1, <1>4, <2>3, <2>4, <3>1, BlockExtends DEF TakeInv
  <2>. QED BY <2>3, <2>4
<1>. QED BY <1>1, <1>2, <1>3, <1>4 DEF TakeInv

-----------------------------------------------------------------------------
(* Starting and stopping.                                                  *)

(* The resamplers of streams that are gone begin anew.                     *)
LEMMA DeliveringKeeps ==
  ASSUME TypeOK, ResamplerInv, UNCHANGED <<backend, strayed>>,
         input' = Delivering(input), next' = Delivering(next)
  PROVE  /\ input' \in [Takes -> Nat] /\ next' \in [Takes -> Nat]
         /\ ResamplerInv'
         /\ \A t \in Takes : /\ input[t] = 0 /\ next[t] = 0 => input'[t] = 0 /\ next'[t] = 0
                             /\ next'[t] \in {0, next[t]}
<1>1. input' \in [Takes -> Nat] /\ next' \in [Takes -> Nat]
  BY DEF TypeOK, Delivering
<1>2. \A t \in Takes : \/ input'[t] = input[t] /\ next'[t] = next[t]
                       \/ input'[t] = 0 /\ next'[t] = 0
  BY DEF Delivering
<1>3. \A t \in Takes : next'[t] = LastOutput(input'[t]) + 1
  BY <1>2, NoneDue DEF ResamplerInv
<1>4. \A t \in Takes : LastOutput(input[t])' = LastOutput(input'[t])
  BY DEF LastOutput, L, M
<1>. QED BY <1>1, <1>2, <1>3, <1>4 DEF ResamplerInv

LEMMA ReleaseFacts ==
  ASSUME CaptureInv, Release
  PROVE  /\ stream' = None /\ running' \subseteq running
         /\ late' \subseteq running \union late
         /\ backend = "sounddevice" => late' = late
         /\ stuck' \in BOOLEAN
<1>1. CASE backend = "sounddevice"
  BY <1>1 DEF Release, CloseStream, CaptureInv, TypeOK
<1>2. CASE backend # "sounddevice"
  BY <1>2 DEF Release, TeardownTap, CaptureInv, TypeOK
<1>. QED BY <1>1, <1>2

LEMMA EmptyBuffer ==
  ASSUME Flush
  PROVE  chunks' = <<>> /\ total' = 0 /\ chunks' \in Seq(Chunk) /\ Len(chunks') = 0
BY DEF Flush

LEMMA StopKeeps ==
  ASSUME CaptureInv, Stop
  PROVE  CaptureInv'
<1> USE DEF CaptureInv
<1>1. /\ Release /\ Flush /\ phase' = "idle" /\ quiet' = 0
      /\ UNCHANGED <<backend, take, strayed>>
      /\ input' = Delivering(input) /\ next' = Delivering(next)
      /\ leaked' = (running' # {})
      /\ refreshDue' = (refreshDue \/ backend = "sounddevice")
  BY DEF Stop
<1>2. /\ stream' = None /\ running' \subseteq running /\ late' \subseteq running \union late
      /\ backend = "sounddevice" => late' = late
      /\ stuck' \in BOOLEAN
  BY <1>1, ReleaseFacts
<1>3. /\ input' \in [Takes -> Nat] /\ next' \in [Takes -> Nat] /\ ResamplerInv'
      /\ \A t \in Takes : input[t] = 0 /\ next[t] = 0 => input'[t] = 0 /\ next'[t] = 0
  BY <1>1, DeliveringKeeps
<1>4. chunks' = <<>> /\ total' = 0 /\ chunks' \in Seq(Chunk)
  BY <1>1, EmptyBuffer
<1>5. TypeOK'
  <2>1. {stuck', refreshDue', leaked', strayed'} \subseteq BOOLEAN
    BY <1>1, <1>2 DEF TypeOK
  <2>2. /\ backend' \in {"sounddevice", "avaudioengine"}
        /\ phase' \in {"idle", "recording", "closed"} /\ take' \in 0..MaxTakes
        /\ running' \subseteq Takes /\ late' \subseteq Takes
        /\ total' \in Nat /\ quiet' \in Nat
    BY <1>1, <1>2, <1>4 DEF TypeOK
  <2>3. stream' \in 0..MaxTakes
    BY <1>2, AudioAssumption DEF None
  <2>. QED BY <1>3, <2>1, <2>2, <2>3 DEF TypeOK
<1>6. StreamsAreKnown'
  BY <1>1, <1>2, <1>3 DEF StreamsAreKnown
<1>7. TakeInv'
  BY <1>1, <1>2, <1>4 DEF TakeInv, NothingLeaks
<1>. QED BY <1>3, <1>5, <1>6, <1>7

LEMMA StartsKeeps ==
  ASSUME CaptureInv, Starts
  PROVE  CaptureInv'
<1> USE DEF CaptureInv
<1>1. /\ phase = "idle" /\ take < MaxTakes /\ late = {} /\ late' = late
      /\ take' = take + 1 /\ stream' = take' /\ running' = running \union {take'}
      /\ phase' = "recording" /\ quiet' = 0 /\ DropsTheRest
      /\ UNCHANGED <<backend, stuck, strayed, refreshDue, leaked>>
      /\ input' = Delivering(input) /\ next' = Delivering(next)
  BY DEF Starts, AtRest
<1>2. /\ MaxTakes \in Nat /\ take \in Nat /\ take' \in Takes /\ take' > take
      /\ take' \in 0..MaxTakes
  BY <1>1, AudioAssumption DEF TypeOK, Takes
<1>3. /\ input' \in [Takes -> Nat] /\ next' \in [Takes -> Nat] /\ ResamplerInv'
      /\ \A t \in Takes : input[t] = 0 /\ next[t] = 0 => input'[t] = 0 /\ next'[t] = 0
  BY <1>1, DeliveringKeeps
<1>4. chunks' \in Seq(Chunk) /\ total' \in Nat
  BY <1>1, EmptyBuffer DEF DropsTheRest, TakeInv, TypeOK
<1>5. TypeOK'
  BY <1>1, <1>2, <1>3, <1>4 DEF TypeOK
<1>6. \A t \in Takes : t > take' => t > take
  BY <1>1, <1>2 DEF Takes
<1>7. StreamsAreKnown'
  BY <1>1, <1>2, <1>3, <1>6 DEF StreamsAreKnown
<1>8. ASSUME ~leaked PROVE NothingLeaks' /\ Seamless' /\ QuietIsCounted'
  <2>1. NothingLeaks
    BY <1>8 DEF TakeInv
  <2>2. chunks' = <<>> /\ total' = 0
    BY <1>1, <2>1, EmptyBuffer DEF DropsTheRest, NothingLeaks, TypeOK
  <2>3. next'[take'] = 0
    BY <1>2, <1>3 DEF StreamsAreKnown
  <2>4. Len(chunks') = 0
    BY <2>2
  <2>5. Begin(Len(chunks) + 1)' = 0
    BY <2>4 DEF Begin
  <2>. QED BY <1>1, <2>1, <2>2, <2>3, <2>4, <2>5 DEF NothingLeaks, Seamless, QuietIsCounted
<1>. QED BY <1>1, <1>3, <1>4, <1>5, <1>7, <1>8 DEF TakeInv

LEMMA StartFailsKeeps ==
  ASSUME CaptureInv, StartFails
  PROVE  CaptureInv'
<1> USE DEF CaptureInv
<1>1. /\ phase = "idle" /\ take < MaxTakes /\ take' = take + 1 /\ Flush /\ quiet' = 0
      /\ leaked' = (running # {})
      /\ refreshDue' = (refreshDue \/ backend = "sounddevice")
      /\ UNCHANGED <<backend, phase, stream, running, late, stuck, input, next, strayed>>
  BY DEF StartFails, AtRest, streams, resamplers
<1>2. /\ MaxTakes \in Nat /\ take \in Nat /\ take' \in 0..MaxTakes
      /\ \A t \in Takes : t > take' => t > take
      /\ 1..take \subseteq 1..take'
  BY <1>1, AudioAssumption DEF TypeOK, Takes
<1>3. chunks' = <<>> /\ total' = 0 /\ chunks' \in Seq(Chunk)
  BY <1>1, EmptyBuffer
<1>4. TypeOK'
  <2>1. {stuck', refreshDue', leaked', strayed'} \subseteq BOOLEAN
    BY <1>1 DEF TypeOK
  <2>. QED BY <1>1, <1>2, <1>3, <2>1 DEF TypeOK
<1>5. StreamsAreKnown'
  BY <1>1, <1>2 DEF StreamsAreKnown
<1>6. TakeInv'
  BY <1>1, <1>3 DEF TakeInv, NothingLeaks
<1>7. ResamplerInv'
  BY <1>1 DEF ResamplerInv, LastOutput, L, M
<1>. QED BY <1>4, <1>5, <1>6, <1>7

(* What leaves the newest take, its buffer and the resamplers alone.       *)
LEMMA RestKeeps ==
  ASSUME CaptureInv, phase' \in {phase, "closed"}, stream' \in {None, stream}, running' \subseteq running,
         phase' = "closed" \/ (stream' = stream /\ late' = late),
         late' \subseteq running \union late, backend = "sounddevice" => late' = late,
         stuck' \in BOOLEAN, refreshDue' \in BOOLEAN,
         UNCHANGED <<backend, take, input, next, strayed, chunks, total, quiet, leaked>>
  PROVE  CaptureInv'
<1> USE DEF CaptureInv
<1>1. TypeOK'
  <2>1. {stuck', refreshDue', leaked', strayed'} \subseteq BOOLEAN
    BY DEF TypeOK
  <2>2. stream' \in 0..MaxTakes
    BY AudioAssumption DEF None, TypeOK
  <2>. QED BY <2>1, <2>2 DEF TypeOK
<1>2. StreamsAreKnown'
  BY DEF StreamsAreKnown
<1>3. TakeInv'
  <2>1. Seamless <=> Seamless'
    BY DEF Seamless, Begin
  <2>2. QuietIsCounted <=> QuietIsCounted'
    BY DEF QuietIsCounted
  <2>. QED BY <2>1, <2>2 DEF TakeInv, NothingLeaks
<1>4. ResamplerInv'
  BY DEF ResamplerInv, LastOutput, L, M
<1>. QED BY <1>1, <1>2, <1>3, <1>4

LEMMA NextCapture == CaptureInv /\ [Next]_vars => CaptureInv'
<1> SUFFICES ASSUME CaptureInv, [Next]_vars PROVE CaptureInv'
  OBVIOUS
<1>1. CASE Starts
  BY <1>1, StartsKeeps
<1>2. CASE StartFails
  BY <1>2, StartFailsKeeps
<1>3. CASE UserStops \/ CutsOff
  BY <1>3, StopKeeps DEF UserStops, CutsOff
<1>4. CASE ReadsLength \/ ReadsSilence \/ LetsGoOn \/ UNCHANGED vars
  BY <1>4, RestKeeps
     DEF ReadsLength, ReadsSilence, LetsGoOn, vars, streams, resamplers, buffer, CaptureInv, TypeOK
<1>5. CASE Rescans
  <2>1. /\ UNCHANGED <<backend, phase, take, stream, late, stuck, input, next, strayed,
                       chunks, total, quiet, leaked>>
        /\ refreshDue' = FALSE /\ running' = {}
    BY <1>5 DEF Rescans, resamplers, buffer
  <2>. QED BY <2>1, RestKeeps DEF CaptureInv, TypeOK
<1>6. CASE Closes
  <2>1. /\ UNCHANGED <<backend, take, input, next, strayed, chunks, total, refreshDue,
                       quiet, leaked>>
        /\ phase' = "closed" /\ Release
    BY <1>6 DEF Closes, resamplers, buffer
  <2>. QED BY <2>1, RestKeeps, ReleaseFacts DEF CaptureInv, TypeOK
<1>7. ASSUME NEW t \in Takes, Block(t) PROVE CaptureInv'
  <2>1. t \in running /\ BlockOf(t) /\ BlockRest /\ running' = running /\ late' = late
    BY <1>7, AudioAssumption DEF Block, BlockOf, BlockRest, streams
  <2>. QED BY <2>1, BlockKeeps
<1>8. ASSUME NEW t \in Takes, LateBlock(t) PROVE CaptureInv'
  <2>1. /\ t \in late /\ BlockOf(t) /\ BlockRest /\ running' = running
        /\ late' \subseteq late
    BY <1>8 DEF LateBlock, BlockOf, BlockRest
  <2>. QED BY <2>1, BlockKeeps
<1>. QED BY <1>1, <1>2, <1>3, <1>4, <1>5, <1>6, <1>7, <1>8 DEF Next

LEMMA InitCapture == Init => CaptureInv
<1> SUFFICES ASSUME Init PROVE CaptureInv
  OBVIOUS
<1>1. TypeOK
  <2>1. 0 \in 0..MaxTakes
    BY AudioAssumption
  <2>2. stuck \in BOOLEAN /\ refreshDue \in BOOLEAN /\ leaked \in BOOLEAN /\ strayed \in BOOLEAN
    BY DEF Init
  <2>3. input \in [Takes -> Nat] /\ next \in [Takes -> Nat]
    BY DEF Init
  <2>. QED BY <2>1, <2>2, <2>3 DEF Init, TypeOK, None
<1>2. StreamsAreKnown
  BY <1>1 DEF Init, StreamsAreKnown
<1>3. TakeInv
  BY DEF Init, TakeInv, NothingLeaks
<1>4. ResamplerInv
  BY NoneDue DEF Init, ResamplerInv
<1>. QED BY <1>1, <1>2, <1>3, <1>4 DEF CaptureInv

LEMMA Capture == Spec => []CaptureInv
BY InitCapture, NextCapture, PTL DEF Spec

(* Types of the takes, their streams and the buffer's totals.              *)
THEOREM TypeCorrect == Spec => []TypeOK
<1>1. CaptureInv => TypeOK
  BY DEF CaptureInv
<1>. QED BY <1>1, Capture, PTL

(* Whatever streams start, fail, leak and deliver late, a take's audio is  *)
(* its own: all that its stream has delivered, once and in order.          *)
THEOREM TakeCorrect == Spec => []TakeIsItsOwn
<1>1. CaptureInv => TakeIsItsOwn
  <2> SUFFICES ASSUME CaptureInv, phase = "recording", ~leaked
               PROVE  /\ \A i \in 1..Len(chunks) : chunks[i].take = take
                      /\ \A i \in 1..Len(chunks) :
                           chunks[i].from = IF i = 1 THEN 0 ELSE chunks[i - 1].to + 1
                      /\ next[take] = IF chunks = <<>> THEN 0
                                      ELSE chunks[Len(chunks)].to + 1
    BY DEF TakeIsItsOwn
  <2>1. Seamless /\ chunks \in Seq(Chunk)
    BY DEF CaptureInv, TakeInv
  <2>2. Begin(Len(chunks) + 1) = IF chunks = <<>> THEN 0 ELSE chunks[Len(chunks)].to + 1
    <3>1. Len(chunks) \in Nat /\ (Len(chunks) = 0 <=> chunks = <<>>)
      BY <2>1
    <3>2. Len(chunks) + 1 - 1 = Len(chunks)
      BY <3>1
    <3>. QED BY <3>1, <3>2 DEF Begin
  <2>. QED BY <2>1, <2>2 DEF Seamless, Begin
<1>. QED BY <1>1, Capture, PTL

(* However the signal is cut into blocks, the resampler computes every     *)
(* output exactly when its inputs are there, and from inputs it has, for   *)
(* every ratio and filter length.                                          *)
THEOREM StreamingCorrect == Spec => []StreamingIsBatch
<1>1. CaptureInv => StreamingIsBatch
  <2> SUFFICES ASSUME CaptureInv PROVE StreamingIsBatch
    OBVIOUS
  <2>1. ASSUME NEW t \in Takes PROVE next[t] = (input[t] * L - 1) \div M + 1
    <3>1. next[t] = LastOutput(input[t]) + 1
      BY DEF CaptureInv, ResamplerInv
    <3>. QED BY <3>1 DEF LastOutput
  <2>. QED BY <2>1 DEF StreamingIsBatch, CaptureInv, ResamplerInv
<1>. QED BY <1>1, Capture, PTL

-----------------------------------------------------------------------------
(***************************************************************************)
(* The sum over the newest chunks.  MapThenSumSet is a fold that takes the *)
(* elements of a set in an unknown order: what it computes is shown by     *)
(* induction on the number of elements.  The induction theorems of the     *)
(* library take a predicate; SetInduction takes the set of the numbers     *)
(* that satisfy it, which the provers can instantiate, and follows from    *)
(* the well-foundedness of the natural numbers.                            *)
(***************************************************************************)
LEMMA SetInduction ==
  ASSUME NEW G, 0 \in G, \A n \in Nat : n \in G => n + 1 \in G
  PROVE  Nat \subseteq G
<1> DEFINE Bad == Nat \ G
           less == OpToRel(<, Nat)
<1> SUFFICES ASSUME Bad # {} PROVE FALSE
  OBVIOUS
<1>1. IsWellFoundedOn(less, Nat)
  BY NatLessThanWellFounded
<1>2. Bad \subseteq Nat
  OBVIOUS
<1>3. \E x \in Bad : \A y \in Bad : ~(<<y, x>> \in less)
  <2> HIDE DEF Bad, less
  <2>. QED BY <1>1, <1>2, WFMin
<1>4. PICK x \in Bad : \A y \in Bad : ~(<<y, x>> \in less)
  BY <1>3
<1>5. x # 0 /\ x \in Nat
  OBVIOUS
<1>6. x - 1 \in Nat /\ x - 1 + 1 = x
  BY <1>5
<1>7. <<x - 1, x>> \in less
  BY <1>5, <1>6 DEF OpToRel
<1>8. x - 1 \in G
  BY <1>4, <1>6, <1>7
<1>. QED BY <1>5, <1>6, <1>8

(* g is the sum of w over the sets in D.                                   *)
Picked(s) == CHOOSE x \in s : TRUE
UpTo(S, n) == {s \in SUBSET S : Cardinality(s) <= n}
Sums(g, w, D) ==
  g = [s \in D |-> IF s = {} THEN 0 ELSE w[Picked(s)] + g[s \ {Picked(s)}]]

LEMMA Smaller ==
  ASSUME NEW S, IsFiniteSet(S), NEW s \in SUBSET S, s # {}
  PROVE  /\ Picked(s) \in s /\ IsFiniteSet(s)
         /\ \A x \in s : /\ s \ {x} \in SUBSET S /\ IsFiniteSet(s \ {x})
                         /\ Cardinality(s \ {x}) = Cardinality(s) - 1
                         /\ Cardinality(s) \in Nat \ {0}
BY FS_Subset, FS_RemoveElement, FS_CardinalityType, FS_EmptySet DEF Picked

LEMMA SumExists ==
  ASSUME NEW S, IsFiniteSet(S), NEW w
  PROVE  \E g : Sums(g, w, SUBSET S)
<1> DEFINE Good == {n \in Nat : \E g : Sums(g, w, UpTo(S, n))}
<1>1. 0 \in Good
  <2>1. \A s \in UpTo(S, 0) : s = {}
    BY FS_Subset, FS_EmptySet, FS_CardinalityType DEF UpTo
  <2>2. Sums([s \in UpTo(S, 0) |-> 0], w, UpTo(S, 0))
    BY <2>1 DEF Sums
  <2>. QED BY <2>2
<1>2. ASSUME NEW n \in Nat, n \in Good PROVE n + 1 \in Good
  <2>1. PICK g : Sums(g, w, UpTo(S, n))
    BY <1>2
  <2> DEFINE Val(s) == IF s = {} THEN 0 ELSE w[Picked(s)] + g[s \ {Picked(s)}]
             h == [s \in UpTo(S, n + 1) |-> Val(s)]
  <2>2. \A s \in UpTo(S, n) : g[s] = Val(s)
    BY <2>1 DEF Sums
  <2>3. ASSUME NEW s \in UpTo(S, n + 1), s # {}
        PROVE  s \ {Picked(s)} \in UpTo(S, n) /\ s \ {Picked(s)} \in UpTo(S, n + 1)
    BY <2>3, Smaller DEF UpTo
  <2>4. \A s \in UpTo(S, n + 1) : s # {} => h[s \ {Picked(s)}] = g[s \ {Picked(s)}]
    <3> HIDE DEF Val
    <3>. QED BY <2>2, <2>3
  <2>5. Sums(h, w, UpTo(S, n + 1))
    BY <2>4 DEF Sums
  <2>. QED BY <2>5
<1>3. Cardinality(S) \in Good
  <2> HIDE DEF Good
  <2>. QED BY <1>1, <1>2, SetInduction, FS_CardinalityType
<1>4. UpTo(S, Cardinality(S)) = SUBSET S
  BY FS_Subset DEF UpTo
<1>. QED BY <1>3, <1>4

(* The sum does not depend on which element is taken first.                *)
AddsUp(g, w, S) ==
  /\ g[{}] = 0
  /\ \A s \in SUBSET S : g[s] \in Int
  /\ \A s \in SUBSET S : \A y \in s : g[s] = w[y] + g[s \ {y}]

LEMMA SumSplits ==
  ASSUME NEW S, IsFiniteSet(S), NEW w \in [S -> Int], NEW g, Sums(g, w, SUBSET S)
  PROVE  AddsUp(g, w, S)
<1>0. \A s \in SUBSET S :
        g[s] = IF s = {} THEN 0 ELSE w[Picked(s)] + g[s \ {Picked(s)}]
  BY DEF Sums
<1> DEFINE Fine(s) == g[s] \in Int /\ \A y \in s : g[s] = w[y] + g[s \ {y}]
           Good == {n \in Nat : \A s \in UpTo(S, n) : Fine(s)}
<1>1. 0 \in Good
  <2>1. \A s \in UpTo(S, 0) : s = {}
    BY FS_Subset, FS_EmptySet, FS_CardinalityType DEF UpTo
  <2>. QED BY <1>0, <2>1
<1>2. ASSUME NEW n \in Nat, n \in Good PROVE n + 1 \in Good
  <2>0. ASSUME NEW s \in UpTo(S, n + 1), s # {} PROVE Fine(s)
    <3> DEFINE x == Picked(s)
    <3>1. /\ x \in s /\ s \in SUBSET S
          /\ \A y \in s : s \ {y} \in UpTo(S, n)
      BY <2>0, Smaller, SMTT(30) DEF UpTo
    <3>2. g[s] = w[x] + g[s \ {x}]
      BY <1>0, <2>0, <3>1
    <3>3. \A y \in s : Fine(s \ {y}) /\ w[y] \in Int
      BY <1>2, <3>1
    <3> HIDE DEF x
    <3>4. ASSUME NEW y \in s, y # x PROVE g[s] = w[y] + g[s \ {y}]
      <4>1. PICK t : t = (s \ {x}) \ {y}
        OBVIOUS
      <4>2. t = (s \ {y}) \ {x}
        BY <4>1
      <4>3. t \in UpTo(S, n)
        <5>1. PICK u \in SUBSET S : u = s \ {x}
          BY <3>1
        <5>2. u # {} /\ y \in u /\ Cardinality(u) <= n
          BY <3>1, <3>4, <5>1 DEF UpTo
        <5>3. /\ u \ {y} \in SUBSET S /\ Cardinality(u \ {y}) = Cardinality(u) - 1
              /\ Cardinality(u) \in Nat
          BY <5>2, Smaller
        <5>. QED BY <4>1, <5>1, <5>2, <5>3 DEF UpTo
      <4>4. PICK r \in Int : r = g[t]
        BY <1>2, <4>3
      <4>5. g[s \ {x}] = w[y] + r
        BY <3>1, <3>3, <3>4, <4>1, <4>4
      <4>6. g[s \ {y}] = w[x] + r
        BY <3>1, <3>3, <3>4, <4>2, <4>4
      <4>7. w[x] \in Int /\ w[y] \in Int
        BY <3>1, <3>3
      <4>. QED BY <3>2, <4>5, <4>6, <4>7
    <3>5. g[s] \in Int
      BY <3>1, <3>2, <3>3
    <3>. QED BY <3>2, <3>4, <3>5
  <2>1. g[{}] = 0
    BY <1>0
  <2>2. Fine({})
    BY <2>1
  <2>3. \A s \in UpTo(S, n + 1) : Fine(s)
    <3> HIDE DEF Fine
    <3>. QED BY <2>0, <2>2
  <2>. QED BY <2>3
<1>3. Cardinality(S) \in Good
  <2> HIDE DEF Good
  <2>. QED BY <1>1, <1>2, SetInduction, FS_CardinalityType
<1>4. UpTo(S, Cardinality(S)) = SUBSET S
  BY FS_Subset DEF UpTo
<1>. QED BY <1>0, <1>3, <1>4 DEF AddsUp

(* The fold of _snapshot_tail, for any sequence of chunks.                 *)
LEMMA FoldIsASum ==
  ASSUME chunks \in Seq(Chunk), NEW i \in 0..Len(chunks)
  PROVE  LET S == (i + 1)..Len(chunks)
             w == [k \in S |-> Length(chunks[k])]
         IN  \E g : AddsUp(g, w, S) /\ After(i) = g[S]
<1> DEFINE S == (i + 1)..Len(chunks)
           w == [k \in S |-> Length(chunks[k])]
           Val(g, s) == IF s = {} THEN 0
                        ELSE Length(chunks[CHOOSE x \in s : TRUE])
                             + g[s \ {CHOOSE x \in s : TRUE}]
           h == CHOOSE g : g = [s \in SUBSET S |-> Val(g, s)]
<1>1. \A k \in S : chunks[k] \in Chunk
  OBVIOUS
<1>2. w \in [S -> Int]
  BY <1>1 DEF Chunk, Length
<1>3. IsFiniteSet(S)
  BY FS_Interval
<1>4. PICK g : Sums(g, w, SUBSET S)
  <2> HIDE DEF S, w
  <2>. QED BY <1>3, SumExists
<1>5. ASSUME NEW s \in SUBSET S, s # {}
      PROVE  w[Picked(s)] = Length(chunks[CHOOSE x \in s : TRUE])
  BY <1>5 DEF Picked
<1>6. \A f : (f = [s \in SUBSET S |-> Val(f, s)]) <=> Sums(f, w, SUBSET S)
  <2> SUFFICES ASSUME NEW f
               PROVE  [s \in SUBSET S |-> Val(f, s)] =
                      [s \in SUBSET S |-> IF s = {} THEN 0
                                          ELSE w[Picked(s)] + f[s \ {Picked(s)}]]
    BY DEF Sums
  <2>1. ASSUME NEW s \in SUBSET S
        PROVE  Val(f, s) = IF s = {} THEN 0 ELSE w[Picked(s)] + f[s \ {Picked(s)}]
    <3> HIDE DEF S, w
    <3>. QED BY <1>5 DEF Picked
  <2> HIDE DEF S, w, Val
  <2>. QED BY <2>1
<1>7. h = [s \in SUBSET S |-> Val(h, s)]
  <2>1. g = [s \in SUBSET S |-> Val(g, s)]
    BY <1>4, <1>6
  <2> HIDE DEF S, Val
  <2>. QED BY <2>1
<1>8. Sums(h, w, SUBSET S)
  <2> HIDE DEF h, S, w, Val
  <2>. QED BY <1>6, <1>7
<1>9. After(i) = h[S]
  BY DEF After, MapThenSumSet, MapThenFoldSet
<1>10. AddsUp(h, w, S)
  <2> HIDE DEF h, S, w, Val
  <2>. QED BY <1>2, <1>3, <1>8, SumSplits
<1>. QED BY <1>9, <1>10

(* What lies behind chunk i in a seamless buffer.                          *)
LEMMA TailLength ==
  ASSUME chunks \in Seq(Chunk), total \in Nat, Seamless, NEW i \in 0..Len(chunks)
  PROVE  After(i) = total - Begin(i + 1)
<1> DEFINE S == (i + 1)..Len(chunks)
           w == [k \in S |-> Length(chunks[k])]
<1>1. PICK len \in Nat : len = Len(chunks)
  OBVIOUS
<1>3. PICK g : AddsUp(g, w, S) /\ After(i) = g[S]
  BY FoldIsASum
<1>4. /\ g[{}] = 0
      /\ \A s \in SUBSET S : g[s] \in Int
      /\ \A s \in SUBSET S : \A y \in s : g[s] = w[y] + g[s \ {y}]
  <2> HIDE DEF S, w
  <2>. QED BY <1>3 DEF AddsUp
<1>5. \A k \in 1..len : chunks[k] \in Chunk
  BY <1>1
<1>6. \A k \in 1..(len + 1) : Begin(k) \in Int
  <2> SUFFICES ASSUME NEW k \in 1..(len + 1), k # 1 PROVE Begin(k) \in Int
    BY DEF Begin
  <2>1. k - 1 \in 1..len
    OBVIOUS
  <2>. QED BY <1>5, <2>1 DEF Begin, Chunk
<1>7. \A k \in 1..len : Length(chunks[k]) = Begin(k + 1) - Begin(k)
  <2> SUFFICES ASSUME NEW k \in 1..len PROVE Length(chunks[k]) = Begin(k + 1) - Begin(k)
    OBVIOUS
  <2>1. chunks[k].from = Begin(k) /\ chunks[k].to \in Nat
    BY <1>1, <1>5 DEF Seamless, Chunk
  <2>2. Begin(k + 1) = chunks[k].to + 1
    <3>1. k + 1 # 1 /\ k + 1 - 1 = k
      OBVIOUS
    <3>. QED BY <3>1 DEF Begin
  <2>. QED BY <1>6, <2>1, <2>2 DEF Length
<1> DEFINE Right(m) == g[(m + 1)..len] = total - Begin(m + 1)
           Good == {n \in Nat : \A m \in i..len : len - m = n => Right(m)}
<1>8. 0 \in Good
  <2>1. (len + 1)..len = {}
    BY <1>1
  <2>2. Right(len)
    <3>1. g[(len + 1)..len] = 0
      BY <1>4, <2>1
    <3>2. total = Begin(len + 1) /\ len + 1 \in 1..(len + 1)
      BY <1>1 DEF Seamless
    <3>. QED BY <1>6, <3>1, <3>2
  <2>3. \A m \in i..len : len - m = 0 => m = len
    OBVIOUS
  <2> HIDE DEF Right
  <2>. QED BY <2>2, <2>3
<1>9. ASSUME NEW n \in Nat, n \in Good PROVE n + 1 \in Good
  <2> SUFFICES ASSUME NEW m \in i..len, len - m = n + 1 PROVE Right(m)
    OBVIOUS
  <2>1. m + 1 \in i..len /\ len - (m + 1) = n /\ m \in Nat
    BY <1>1
  <2>2. g[(m + 2)..len] = total - Begin(m + 2)
    <3>1. Right(m + 1)
      BY <1>9, <2>1
    <3>2. m + 1 + 1 = m + 2
      BY <2>1
    <3>. QED BY <3>1, <3>2
  <2>3. g[(m + 1)..len] = w[m + 1] + g[(m + 2)..len]
    <3>1. PICK s \in SUBSET S : s = (m + 1)..len
      BY <1>1, <2>1
    <3>2. PICK y \in s : y = m + 1
      BY <2>1, <3>1
    <3>3. s \ {y} = (m + 2)..len
      BY <2>1, <3>1, <3>2
    <3>4. g[s] = w[y] + g[s \ {y}]
      <4> HIDE DEF S, w
      <4>. QED BY <1>4
    <3> HIDE DEF S, w
    <3>. QED BY <3>1, <3>2, <3>3, <3>4
  <2>4. w[m + 1] = Begin(m + 2) - Begin(m + 1)
    <3>1. m + 1 \in S /\ m + 1 \in 1..len /\ m + 1 + 1 = m + 2
      BY <1>1, <2>1
    <3>. QED BY <1>7, <3>1
  <2>5. Begin(m + 2) \in Int /\ Begin(m + 1) \in Int
    BY <1>6, <2>1
  <2> HIDE DEF w
  <2>. QED BY <2>2, <2>3, <2>4, <2>5
<1>10. len - i \in Good
  <2>1. len - i \in Nat
    BY <1>1
  <2> HIDE DEF Good
  <2>. QED BY <1>8, <1>9, <2>1, SetInduction
<1>11. Right(i)
  <2>1. i \in i..len
    BY <1>1
  <2>. QED BY <1>10, <2>1
<1>. QED BY <1>1, <1>3, <1>11

(* is_idle_for says of the buffer what the observer has counted.           *)
LEMMA IdleIsQuiet ==
  ASSUME TypeOK, chunks \in Seq(Chunk), Seamless, QuietIsCounted, NEW n \in Nat \ {0}
  PROVE  IsIdleFor(n) <=> quiet >= n
<1>1. total \in Nat /\ quiet \in Nat /\ quiet <= total
  BY DEF TypeOK, QuietIsCounted
<1>2. ASSUME NEW i \in 1..Len(chunks)
      PROVE  chunks[i].to \in Nat /\ After(i) = total - 1 - chunks[i].to
  <2>1. chunks[i].to \in Nat
    <3>1. chunks[i] \in Chunk
      OBVIOUS
    <3>. QED BY <3>1 DEF Chunk
  <2>2. Begin(i + 1) = chunks[i].to + 1
    <3>1. i + 1 # 1 /\ i + 1 - 1 = i
      OBVIOUS
    <3>. QED BY <3>1 DEF Begin
  <2>3. i \in 0..Len(chunks)
    OBVIOUS
  <2>. QED BY <1>1, <2>1, <2>2, <2>3, TailLength
<1>3. SnapshotTail(n) = {chunks[i] : i \in {k \in 1..Len(chunks) : After(k) < n}}
  BY DEF SnapshotTail
<1>4. ASSUME quiet >= n PROVE IsIdleFor(n)
  <2>1. total >= n
    BY <1>1, <1>4
  <2>2. ASSUME NEW i \in 1..Len(chunks), After(i) < n PROVE ~chunks[i].loud
    <3>1. chunks[i].loud => chunks[i].to < total - quiet
      BY DEF QuietIsCounted
    <3>. QED BY <1>1, <1>2, <1>4, <2>2, <3>1
  <2>. QED BY <1>3, <2>1, <2>2 DEF IsIdleFor
<1>5. ASSUME quiet < n, IsIdleFor(n) PROVE FALSE
  <2>1. quiet < total
    BY <1>1, <1>5 DEF IsIdleFor
  <2>2. PICK i \in 1..Len(chunks) : chunks[i].loud /\ chunks[i].to = total - quiet - 1
    BY <2>1 DEF QuietIsCounted
  <2>3. After(i) < n
    BY <1>1, <1>2, <1>5, <2>2
  <2>. QED BY <1>3, <1>5, <2>2, <2>3 DEF IsIdleFor
<1>. QED BY <1>1, <1>4, <1>5

(* check_silence decides from a copy, which the callback has outrun when   *)
(* it does, but never cuts off a recording that had not earned it when the *)
(* copy was taken, nor lets one go on that had.                            *)
THEOREM CutOffCorrect == Spec => []CutOffIsEarned
<1>1. Init => CutOffIsEarned
  BY DEF Init, CutOffIsEarned
<1>2. ASSUME CaptureInv, ~leaked, phase = "recording"
      PROVE  /\ total >= DurationLimit <=> next[take] >= DurationLimit
             /\ IsIdleFor(SilenceLimit) <=> quiet >= SilenceLimit
  BY <1>2, IdleIsQuiet, AudioAssumption DEF CaptureInv, TakeInv, Seamless
<1>3. CutOffIsEarned /\ CaptureInv /\ [Next]_vars => CutOffIsEarned'
  <2> SUFFICES ASSUME CutOffIsEarned, CaptureInv, [Next]_vars PROVE CutOffIsEarned'
    OBVIOUS
  <2>1. CASE ReadsSilence
    <3> DEFINE idle == IsIdleFor(SilenceLimit)
               due  == quiet >= SilenceLimit
    <3>1. /\ seen'.long = FALSE /\ seen'.idle = idle /\ seen'.due = due
          /\ leaked' = leaked /\ phase = "recording"
      BY <2>1 DEF ReadsSilence
    <3>2. ~leaked => (idle <=> due)
      BY <1>2, <3>1
    <3>3. idle \in BOOLEAN /\ due \in BOOLEAN
      BY DEF IsIdleFor
    <3> HIDE DEF idle, due
    <3>. QED BY <3>1, <3>2, <3>3 DEF CutOffIsEarned
  <2>0. CASE ReadsLength
    <3> DEFINE long == total >= DurationLimit
               due  == next[take] >= DurationLimit
    <3>1. /\ seen'.long = long /\ seen'.idle = FALSE /\ seen'.due = due
          /\ leaked' = leaked /\ phase = "recording"
      BY <2>0 DEF ReadsLength
    <3>2. ~leaked => (long <=> due)
      BY <1>2, <3>1
    <3>3. long \in BOOLEAN /\ due \in BOOLEAN
      BY <2>0, AudioAssumption DEF CaptureInv, TypeOK
    <3> HIDE DEF long, due
    <3>. QED BY <3>1, <3>2, <3>3 DEF CutOffIsEarned
  <2>2. CASE UserStops \/ CutsOff \/ LetsGoOn
    BY <2>2 DEF UserStops, CutsOff, LetsGoOn, CutOffIsEarned
  <2>3. CASE UNCHANGED seen /\ UNCHANGED leaked
    BY <2>3 DEF CutOffIsEarned
  <2>4. CASE StartFails
    BY <2>4 DEF StartFails, AtRest, CutOffIsEarned
  <2>5. CASE Starts \/ Rescans \/ Closes \/ UNCHANGED vars
    BY <2>3, <2>5 DEF Starts, Rescans, Closes, vars
  <2>6. ASSUME NEW t \in Takes, Block(t) \/ LateBlock(t) PROVE CutOffIsEarned'
    BY <2>3, <2>6 DEF Block, LateBlock
  <2>. QED BY <2>0, <2>1, <2>2, <2>4, <2>5, <2>6 DEF Next
<1>. QED BY <1>1, <1>3, Capture, PTL DEF Spec
=============================================================================
