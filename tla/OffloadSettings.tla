--------------------------- MODULE OffloadSettings ---------------------------
(***************************************************************************)
(* The KV-offload configuration: how a file given on the command line is    *)
(* resolved against vLLM's defaults and the catalogue of storage devices,   *)
(* written to the header of a trace, read back on replay, and priced        *)
(* (cmd/kv_offload.go, cmd/kernel_pools.go, sim/kv_offload_config.go).      *)
(*                                                                         *)
(* No offload is the empty record. Byte counts and bandwidths are small     *)
(* integers, fractions are in hundredths. A device that the catalogue names *)
(* without a bandwidth in one direction has a zero there, which the kernel  *)
(* cannot price.                                                            *)
(***************************************************************************)
EXTENDS PolicySettings

CONSTANT Devices    \* device class -> [direct, buffered], the buffered numbers partial

Inert == <<>>
Enabled(cfg) == cfg # Inert

-----------------------------------------------------------------------------
(* Resolving a file *)

Rates == {"read", "write", "latency"}
RampOff == [queue |-> 1, fraction |-> 100, jitter |-> 0]
Physics == Rates \cup DOMAIN RampOff

\* The numbers of one device for the chosen regime: a buffered number where
\* the device states one, else the O_DIRECT number.
resolveDeviceRegime(dev, directIO) ==
    LET direct(f) == IF f \in Rates THEN dev.direct[f] ELSE Given(dev.direct, f, RampOff[f])
    IN [f \in Physics |-> IF directIO THEN direct(f) ELSE Given(dev.buffered, f, direct(f))]

TierAccepted(tb) ==
    /\ Given(tb, "type", "") = "fs"
    /\ Given(tb, "root", "") # ""
    /\ Changed(tb, "directIO")
    /\ Changed(tb, "class") => tb.class \in DOMAIN Devices
    /\ Changed(tb, "class") \/ Rates \subseteq DOMAIN tb

\* The class's numbers; a rate the file states comes first.
resolveKVOffloadTier(tb) ==
    LET class == IF Changed(tb, "class") THEN resolveDeviceRegime(Devices[tb.class], tb.directIO)
                 ELSE [f \in Physics |-> IF f \in Rates THEN 0 ELSE RampOff[f]]
    IN [type |-> tb.type, root |-> tb.root, readers |-> Given(tb, "readers", 16),
        writers |-> Given(tb, "writers", 16), locality |-> Given(tb, "locality", ""),
        events |-> Given(tb, "events", FALSE), directIO |-> tb.directIO,
        class |-> Given(tb, "class", ""),
        physics |-> [f \in Physics |-> IF f \in Rates THEN Given(tb, f, class[f]) ELSE class[f]]]

\* The two ways to state the size of a chunk.
ChunkAccepted(block, gpuBlock) ==
    /\ ~(Changed(block, "blockSize") /\ Changed(block, "blocksPerChunk"))
    /\ Changed(block, "blockSize") => block.blockSize > 0 /\ block.blockSize % gpuBlock = 0
    /\ Given(block, "blocksPerChunk", 1) > 0

TierValid(t) ==
    /\ t.type = "fs" /\ t.root # ""
    /\ t.locality \in {"", "LOCAL", "REMOTE"}
    /\ t.readers > 0 /\ t.writers > 0
    /\ t.physics["read"] > 0 /\ t.physics["write"] > 0 /\ t.physics["latency"] >= 0
    /\ t.physics["queue"] >= 0 /\ t.physics["jitter"] >= 0
    /\ t.physics["queue"] >= 2 => t.physics["fraction"] \in 1..100

\* KVOffloadConfig.Validate, which also accepts the arc policy.
OffloadValid(cfg) ==
    Enabled(cfg) =>
        /\ cfg.cpuBytes > 0 /\ cfg.blockSize > 0 /\ cfg.blocksPerChunk > 0 /\ cfg.tokensPerHash > 0
        /\ cfg.eviction \in {"lru", "arc"}
        /\ \A i \in DOMAIN cfg.tiers : TierValid(cfg.tiers[i])

OffloadResolved(block, gpuBlock) ==
    LET chunk == IF Changed(block, "blockSize") THEN block.blockSize \div gpuBlock
                 ELSE Given(block, "blocksPerChunk", 1)
    IN [cpuBytes |-> block.cpuBytes, perBlockBytes |-> 0,
        blockSize |-> chunk * gpuBlock, blocksPerChunk |-> chunk,
        tokensPerHash |-> Given(block, "tokensPerHash", gpuBlock),
        eviction |-> Given(block, "eviction", "lru"),
        promptOnly |-> Given(block, "promptOnly", TRUE),
        selfDescribing |-> Given(block, "selfDescribing", FALSE),
        tiers |-> [i \in DOMAIN block.tiers |-> resolveKVOffloadTier(block.tiers[i])]]

\* The configurations a kv_offload block resolves to: one, or none.
resolveKVOffload(block, gpuBlock) ==
    IF /\ gpuBlock > 0
       /\ Changed(block, "cpuBytes")
       /\ Given(block, "storeThreshold", 0) \in {0, 1}
       /\ ChunkAccepted(block, gpuBlock)
       /\ Given(block, "tokensPerHash", 1) > 0
       /\ Given(block, "eviction", "lru") = "lru"
       /\ \A i \in DOMAIN block.tiers : TierAccepted(block.tiers[i])
    THEN {cfg \in {OffloadResolved(block, gpuBlock)} : OffloadValid(cfg)}
    ELSE {}

\* The kernel prices a tier; a file may not state the same physics.
refuseExplicitTierPhysics(block) ==
    \A i \in DOMAIN block.tiers : Rates \cap DOMAIN block.tiers[i] = {}

\* What --kv-offload-config comes to.
resolveKVOffloadConfig(flags, gpuBlock) ==
    IF ~Changed(flags, "offload") THEN {Inert}
    ELSE IF ~refuseExplicitTierPhysics(flags.offload) THEN {}
    ELSE resolveKVOffload(flags.offload, gpuBlock)

-----------------------------------------------------------------------------
(* The trace header *)

\* Mutant: the header does not say that only prompts are offloaded.
HeaderFieldsNoPrompt == {"cpuBytes", "perBlockBytes", "blockSize", "blocksPerChunk", "tokensPerHash",
                         "eviction", "selfDescribing", "tiers"}

HeaderFields == {"cpuBytes", "perBlockBytes", "blockSize", "blocksPerChunk", "tokensPerHash",
                 "eviction", "promptOnly", "selfDescribing", "tiers"}

TierFields == {"type", "root", "readers", "writers", "locality", "events", "directIO", "class", "physics"}

\* What a field that the header lacks reads as.
ZeroOffload == [cpuBytes |-> 0, perBlockBytes |-> 0, blockSize |-> 0, blocksPerChunk |-> 0,
                tokensPerHash |-> 0, eviction |-> "", promptOnly |-> FALSE,
                selfDescribing |-> FALSE, tiers |-> <<>>]

TiersCopied(tiers) == [i \in DOMAIN tiers |-> [f \in TierFields |-> tiers[i][f]]]

simToHeaderOffload(cfg) ==
    IF ~Enabled(cfg) THEN Inert
    ELSE [f \in HeaderFields |-> IF f = "tiers" THEN TiersCopied(cfg.tiers) ELSE cfg[f]]

headerToSimOffload(h) ==
    IF h = Inert THEN Inert
    ELSE [f \in DOMAIN ZeroOffload |-> IF f \notin DOMAIN h THEN ZeroOffload[f]
                                       ELSE IF f = "tiers" THEN TiersCopied(h.tiers) ELSE h[f]]

\* The header decides. A file may repeat it, but for the derived bytes per
\* block; it may add an offload only to a trace of a real server.
resolveReplayKVOffload(h, changed, fileCfg, allowFlagAdd) ==
    LET recorded == headerToSimOffload(h)
        userFacing(cfg) == [cfg EXCEPT !.perBlockBytes = 0]
    IN IF Enabled(recorded)
       THEN Provided(OffloadValid(recorded) /\ (changed => userFacing(fileCfg) = userFacing(recorded)),
                     recorded)
       ELSE Provided(changed => allowFlagAdd, IF changed THEN fileCfg ELSE Inert)

reconcileReplayKVOffload(flags, gpuBlock, header) ==
    UNION {resolveReplayKVOffload(header.offload, Changed(flags, "offload"), cfg, header.mode = "real") :
              cfg \in resolveKVOffloadConfig(flags, gpuBlock)}

\* A hit rate observed on a tiered server needs a tiered replay.
validateObservedKVReplayable(obs, cfg) == obs = "tiered" => Enabled(cfg)

-----------------------------------------------------------------------------
(* Pricing *)

CPUTier == "cpu_dram"

\* kernelTierTicks gives a number of ticks; TRUE when the kernel can price the tier.
Priceable(class, directions) ==
    class \in DOMAIN Devices /\ \A dir \in directions : Devices[class].direct[dir] > 0

\* priceOffload: every tier, once in each direction, and the CPU tier's reloads.
OffloadPriced(cfg, cpuBlocks, perBlock) ==
    /\ Enabled(cfg) \/ cpuBlocks > 0 => perBlock > 0
    /\ Enabled(cfg) => \A i \in DOMAIN cfg.tiers :
            /\ cfg.tiers[i].class # "" /\ cfg.tiers[i].directIO
            /\ Priceable(cfg.tiers[i].class, {"read", "write"})
    /\ cpuBlocks > 0 => Priceable(CPUTier, {"read"})

\* NewOffloadCache panics on a configuration it cannot build.
OffloadBuildable(cfg) ==
    Enabled(cfg) =>
        /\ cfg.perBlockBytes > 0 /\ cfg.blocksPerChunk = 1 /\ cfg.eviction = "lru"
        /\ cfg.cpuBytes \div cfg.perBlockBytes >= 1
=============================================================================
