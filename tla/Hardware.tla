------------------------------ MODULE Hardware ------------------------------
(* hardware/ and transcribe/backend_selection.py: what a probe sees of a    *)
(* machine, the Hardware Tier that follows, how a configured engine is      *)
(* reconciled with the machine, and the engine that is built.               *)
EXTENDS Integers

Unknown == -1

(* A PC with an NVIDIA card, or without one (vram = 0), and a Mac.          *)
(* "driver" is what NVML reports of it, "usable" what cudaGetDeviceCount    *)
(* would answer, "hidden" that CUDA_VISIBLE_DEVICES is set to none.  No     *)
(* probe looks at the rest: whether the runtime-gpu libraries were          *)
(* installed, and whether the card computes in half precision.              *)
Pc(vram, driver, hidden, libraries, half) ==
  [os |-> "win32", vram |-> vram, driver |-> driver, hidden |-> hidden,
   libraries |-> libraries, half |-> half]
Mac(silicon, major, package, memory) ==
  [os |-> "darwin", silicon |-> silicon, major |-> major, package |-> package,
   memory |-> memory]

UsableCuda(m) == m.os = "win32" /\ m.vram # 0 /\ m.driver # "old" /\ ~m.hidden

-----------------------------------------------------------------------------
(* The probes.                                                              *)

(* _nvml_report: none when NVML cannot be asked; single values may be       *)
(* unreadable.                                                              *)
NoReport == [count |-> 0, version |-> "unreadable", vram |-> Unknown]
NvmlReport(m) ==
  IF m.driver = "silent" THEN NoReport
  ELSE [count |-> IF m.vram = 0 THEN 0 ELSE 1,
        version |-> m.driver,
        vram |-> IF m.vram = 0 THEN Unknown ELSE m.vram]

NvmlConfirmsCuda(nvml, hidden) ==
  ~hidden /\ nvml.count > 0 /\ nvml.version = "good"

(* decide_cuda_presence: CTranslate2 decides whenever NVML does not.        *)
DecideCudaPresence(nvml, m) ==
  IF NvmlConfirmsCuda(nvml, m.hidden) THEN [available |-> TRUE, vram |-> nvml.vram]
  ELSE [available |-> UsableCuda(m),
        vram |-> IF UsableCuda(m) THEN nvml.vram ELSE Unknown]

MlxMinMacos == 14

MacProbe(m) ==
  [cuda |-> FALSE, vram |-> Unknown, silicon |-> m.silicon,
   mlx |-> m.silicon /\ m.major >= MlxMinMacos /\ m.package,
   memory |-> m.memory]

NvidiaProbe(m) ==
  LET presence == DecideCudaPresence(NvmlReport(m), m)
  IN [cuda |-> presence.available, vram |-> presence.vram, silicon |-> FALSE,
      mlx |-> FALSE, memory |-> Unknown]

Probe(m) == IF m.os = "darwin" THEN MacProbe(m) ELSE NvidiaProbe(m)

-----------------------------------------------------------------------------
(* The tiers, in gigabytes.                                                 *)
VramHigh == 6
VramMid == 3
UnifiedMemoryHigh == 12

Row(model, device, compute) == [model |-> model, device |-> device, compute |-> compute]

TierTable ==
  [GpuHigh      |-> Row("large", "cuda", "float16"),
   GpuMid       |-> Row("small", "cuda", "int8_float16"),
   GpuLow       |-> Row("base", "cuda", "int8_float16"),
   GpuUnknown   |-> Row("small", "cuda", "int8_float16"),
   AppleGpu     |-> Row("large", "mlx", "float16"),
   AppleGpuLow  |-> Row("small", "mlx", "float16"),
   AppleSilicon |-> Row("small", "cpu", "int8"),
   Cpu          |-> Row("base", "cpu", "int8")]

CpuTier(profile) == IF profile.silicon THEN "AppleSilicon" ELSE "Cpu"

Classify(profile) ==
  CASE profile.cuda /\ profile.vram = Unknown -> "GpuUnknown"
    [] profile.cuda /\ profile.vram # Unknown ->
         IF profile.vram >= VramHigh THEN "GpuHigh"
         ELSE IF profile.vram >= VramMid THEN "GpuMid" ELSE "GpuLow"
    [] ~profile.cuda /\ profile.mlx ->
         IF profile.memory # Unknown /\ profile.memory >= UnifiedMemoryHigh
         THEN "AppleGpu" ELSE "AppleGpuLow"
    [] ~profile.cuda /\ ~profile.mlx -> CpuTier(profile)

Resolve(profile) == TierTable[Classify(profile)]

(* HardwareTierResolver.reconcile: an absent GPU gives the whole CPU row,   *)
(* for the compute type of a GPU does not run on a CPU.                     *)
ReconcileDeviceOnly(wanted, profile) == \* fault: only the device is replaced
  LET absent == \/ wanted.device = "cuda" /\ ~profile.cuda
                \/ wanted.device = "mlx" /\ ~profile.mlx
  IN [resolved |-> IF absent THEN [wanted EXCEPT !.device = "cpu"] ELSE wanted,
      reason |-> IF absent THEN wanted.device ELSE "none"]

Reconcile(wanted, profile) ==
  IF wanted.device = "cuda" /\ ~profile.cuda
  THEN [resolved |-> TierTable["Cpu"], reason |-> "cuda"]
  ELSE IF wanted.device = "mlx" /\ ~profile.mlx
  THEN [resolved |-> TierTable[CpuTier(profile)], reason |-> "mlx"]
  ELSE [resolved |-> wanted, reason |-> "none"]

(* select_backend: a device nobody knows runs on the CPU row.               *)
KnownDevices == {"cuda", "cpu", "mlx"}
SelectBackend(row) == IF row.device \in KnownDevices THEN row ELSE TierTable["Cpu"]
Kind(selection) == IF selection.device = "mlx" THEN "mlx" ELSE "faster-whisper"
CpuFallbackSelection == TierTable["AppleSilicon"]

(* mlx-whisper takes float16 for a compute type it does not have.           *)
MlxComputeType(compute) == IF compute \in {"float16", "float32"} THEN compute ELSE "float16"
Built(selection) ==
  IF Kind(selection) = "mlx"
  THEN [selection EXCEPT !.compute = MlxComputeType(selection.compute)] ELSE selection

(* What the libraries under faster-whisper and mlx-whisper can run on a     *)
(* machine.  CTranslate2 counts a card without cuBLAS and cuDNN, and loads  *)
(* them at the first operation; a card it counts may still reject the       *)
(* compute type.                                                            *)
HalfPrecision == {"float16", "int8_float16"}
Equipped(compute, m) == m.libraries /\ (compute \in HalfPrecision => m.half)

LacksRuntime(engine, m) ==
  engine.device = "cuda" /\ UsableCuda(m) /\ ~Equipped(engine.compute, m)

Runnable(engine, m) ==
  \/ engine.device = "cuda" /\ UsableCuda(m) /\ Equipped(engine.compute, m)
  \/ /\ engine.device = "mlx" /\ engine.compute \in {"float16", "float32"}
     /\ m.os = "darwin" /\ m.silicon /\ m.major >= 14 /\ m.package
  \/ engine.device = "cpu" /\ engine.compute \notin HalfPrecision
=============================================================================
