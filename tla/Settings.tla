------------------------------ MODULE Settings ------------------------------
(***************************************************************************)
(* What blis run and blis replay do before the first event and after the    *)
(* last one: the deployment is settled in stages from the scenario, the     *)
(* flags, a policy bundle and, on replay, the header of the trace; each     *)
(* stage may refuse it; the run's trace is written with a header from which *)
(* a later replay starts (cmd/root.go, cmd/replay.go, cmd/kernel_pools.go). *)
(*                                                                         *)
(* Commands follow each other on one disk. The two commands order their     *)
(* stages differently. The simulation itself is left out.                   *)
(***************************************************************************)
EXTENDS OffloadSettings

CONSTANTS
    Invocations,    \* [scenario, flags, sessions]: what blis run may be given
    Imported,       \* traces of blis observe and blis convert
    SessionOptions, \* the session flags of a replay
    MaxCommands     \* commands in one behaviour

VARIABLES disk, job, commands

settingsVars == <<disk, job, commands>>

-----------------------------------------------------------------------------
(* Sizing an engine from a pool of the scenario *)

\* Bytes of a block in one rank: the kernel's SequenceVariableBytes.
BlockBytes(pool, tokens) == pool.bytes * tokens

\* Blocks per rank beside the weights and the adapters; none when nothing fits.
KVBudgetReserving(pool, reserved) ==
    LET budget == (pool.memory * pool.util) \div 100
        allocatable == budget - pool.fixed - reserved \div pool.tp
    IN IF /\ pool.util \in 1..100 /\ pool.block > 0
          /\ pool.fixed < pool.memory
          /\ allocatable > 0 /\ pool.bytes > 0
       THEN {allocatable \div BlockBytes(pool, pool.block)} \ {0}
       ELSE {}

SettingsReserving(pool, reserved) ==
    {[blocks |-> b, block |-> pool.block, seqs |-> pool.seqs, toks |-> pool.toks,
      window |-> pool.window, tp |-> pool.tp, noCache |-> pool.noCache] :
        b \in {x \in KVBudgetReserving(pool, reserved) : pool.window >= 0}}

requireWindowFits(s) == s.window > 0 /\ s.window <= s.blocks * s.block

-----------------------------------------------------------------------------
(* The stages *)

NewDeployment(flags) ==
    [stated |-> [k \in PolicyKinds |-> ""], policy |-> [k \in PolicyKinds |-> ""],
     source |-> [k \in PolicyKinds |-> ""], overrides |-> <<>>, disaggregated |-> FALSE,
     engine |-> <<>>, dp |-> 1, moe |-> FALSE, ep |-> FALSE, draft |-> <<>>, reserved |-> 0,
     n |-> Given(flags, "n", 1), perRankDP |-> 1,
     count |-> [r \in {"prefill", "decode", "shared", "encode"} |-> Given(flags, r, 0)],
     offload |-> Inert, cpuBlocks |-> Given(flags, "cpuBlocks", 0), pools |-> <<>>,
     admission |-> <<>>, routing |-> "", scorers |-> <<>>, flow |-> <<>>, sloTargets |-> {},
     poolScorers |-> [r \in {"prefill", "decode"} |-> Given(Given(flags, "poolScorers", <<>>), r, <<>>)],
     lifecycle |-> 0, interval |-> 0, nodes |-> <<>>, acceptance |-> 0]

\* The first pool of the scenario says what is deployed.
adoptKernelDeployment(d, scenario, flags) ==
    LET first == scenario.pools[1]
        roles == {scenario.pools[i].role : i \in DOMAIN scenario.pools}
        pd == "prefill" \in roles
    IN {adoptSchedulingPolicy(
            [d EXCEPT !.disaggregated = pd, !.engine = s, !.dp = first.dp, !.moe = first.experts > 0,
                      !.ep = first.ep, !.draft = first.draft], flags, stated) :
          s \in {t \in SettingsReserving(first, 0) :
                    /\ pd \/ Len(scenario.pools) = 1
                    /\ ~scenario.offload
                    /\ pd => d.count["prefill"] # 0 \/ d.count["decode"] # 0
                    /\ requireWindowFits(t)},
          stated \in enginePolicyOf(first)}

\* The static HBM reservation of the adapters, by capacity and not by what is loaded.
adapterReservedBytesFor(lora) ==
    IF Given(lora, "ranks", {}) = {} \/ Given(lora, "capacity", 0) = 0 THEN 0
    ELSE lora.capacity * lora.perRank * (CHOOSE r \in lora.ranks : \A q \in lora.ranks : q <= r)

\* The reservation takes blocks from the pool that was sized without it.
applyKernelLoRAReservation(d, scenario, flags) ==
    LET reserved == adapterReservedBytesFor(Given(flags, "lora", <<>>))
        e == [d EXCEPT !.reserved = reserved]
    IN IF reserved <= 0 THEN {e}
       ELSE {[e EXCEPT !.engine.blocks = s.blocks] :
               s \in {t \in SettingsReserving(scenario.pools[1], reserved) : requireWindowFits(t)}}

\* A tiered offload and the single CPU tier exclude each other.
WithOffload(d, cfgs) ==
    {[d EXCEPT !.offload = cfg] : cfg \in {c \in cfgs : ~(Enabled(c) /\ d.cpuBlocks > 0)}}

ReplayOffload(d, flags, header) ==
    WithOffload(d, {c \in reconcileReplayKVOffload(flags, d.engine.block, header) :
                       validateObservedKVReplayable(header.obs, c)})

resolveLatencyConfig(d) ==
    Provided(d.dp >= 1 /\ (d.dp > 1 => d.moe) /\ (d.ep => d.moe), d)

NumbersValid(d, flags) ==
    /\ d.n >= 1 /\ d.engine.blocks > 0 /\ d.engine.seqs > 0 /\ d.engine.toks > 0
    /\ Given(flags, "longPrefill", 0) >= 0
    /\ Given(flags, "horizon", 1) > 0

\* blis run: the autoscaler and the node pools of the bundle.
FleetSettings(d, scenario, flags) ==
    LET b == Given(flags, "bundle", <<>>)
        pools == Given(b, "nodePools", <<>>)
        first == scenario.pools[1]
    IN Provided(\A i \in DOMAIN pools : pools[i].gpu = first.gpu /\ pools[i].memory = first.memory,
                [d EXCEPT !.nodes = pools,
                          !.interval = Given(flags, "interval", Given(b, "interval", 0))])

\* blis replay: neither is supported.
FleetUnsupported(d, flags) ==
    LET b == Given(flags, "bundle", <<>>)
    IN Provided(/\ ~Changed(flags, "interval")
                /\ Given(b, "interval", 0) = 0
                /\ Given(b, "nodePools", <<>>) = <<>>, d)

ValidatePoolTopology(count, n) ==
    LET serving == {"prefill", "decode", "shared"}
    IN /\ \A r \in DOMAIN count : count[r] >= 0
       /\ count["encode"] > 0 => \E r \in serving : count[r] > 0
       /\ ((\E r \in serving : count[r] > 0) /\ count["shared"] = 0)
            => count["prefill"] > 0 /\ count["decode"] > 0
       /\ count["prefill"] + count["decode"] + count["shared"] + count["encode"] <= n

TopologyValid(d, flags) ==
    LET decider == Given(flags, "pdDecider", "")
        encoder == Given(flags, "encodeDecider", "")
    IN /\ decider \in Deciders /\ encoder \in EncodeDeciders
       /\ ValidatePoolTopology(d.count, d.n)
       /\ decider = "prefix-threshold" => Given(flags, "pdThreshold", 0) >= 0
       /\ encoder \notin {"", "never"} => d.count["encode"] > 0

\* blis run warns of these flags, blis replay refuses them.
TopologyStrict(d, flags) ==
    LET decider == Given(flags, "pdDecider", "")
    IN /\ Changed(flags, "pdThreshold") => decider = "prefix-threshold"
       /\ decider \notin {"", "never"} => d.count["prefill"] > 0

PoolOf(scenario, role) == {i \in DOMAIN scenario.pools : scenario.pools[i].role = role}

PoolsAgree(p, q) ==
    /\ p.block = q.block /\ p.format = q.format
    /\ p.dp = q.dp /\ p.draft = q.draft

\* A pool's engine is its own; its policy too, unless one was chosen for the run.
poolOverridesOf(d, pool) == {[s |-> s, stated |-> t] :
    s \in {x \in SettingsReserving(pool, d.reserved) : requireWindowFits(x)}, t \in enginePolicyOf(pool)}

Override(d, o) ==
    [engine |-> o.s, stated |-> o.stated, offload |-> Inert,
     policy |-> [k \in PolicyKinds |-> IF d.source[k] # "" THEN d.policy[k] ELSE o.stated[k]]]

RecordedFor(d, role, stated) ==
    LET noted(e, k) == IF e.source[k] # "" THEN recordPolicyOverride(e, k, role, stated[k]) ELSE e
    IN noted(noted(d, "scheduler"), "preemption")

PoolScorersValid(d) == \A r \in DOMAIN d.poolScorers : ScorersValid(d.poolScorers[r])

openKernelPools(d, scenario) ==
    LET prefill == PoolOf(scenario, "prefill")
        decode == PoolOf(scenario, "decode")
    IN IF d.count["shared"] > 0 \/ d.count["encode"] > 0 THEN {}
       ELSE IF d.count["prefill"] = 0 /\ d.count["decode"] = 0 THEN {d}
       ELSE IF Cardinality(prefill) # 1 \/ Cardinality(decode) # 1 THEN {}
       ELSE LET p == scenario.pools[CHOOSE i \in prefill : TRUE]
                q == scenario.pools[CHOOSE i \in decode : TRUE]
            IN IF d.count["prefill"] + d.count["decode"] # d.n \/ ~PoolsAgree(p, q) THEN {}
               ELSE {[RecordedFor(RecordedFor(d, "prefill", a.stated), "decode", b.stated)
                         EXCEPT !.pools = [prefill |-> Override(d, a), decode |-> Override(d, b)]] :
                       a \in poolOverridesOf(d, p), b \in poolOverridesOf(d, q)}

\* planDPPlacement and applyDPPlacement: one instance for each rank.
resolveDPPlacement(d) ==
    LET grown == [r \in DOMAIN d.count |-> d.count[r] * d.dp]
    IN IF ~d.moe \/ d.dp <= 1 THEN {[d EXCEPT !.perRankDP = d.dp]}
       ELSE Provided(d.interval = 0 /\ d.engine.blocks > 0 /\ ValidatePoolTopology(grown, d.n * d.dp),
                     [d EXCEPT !.n = @ * d.dp, !.count = grown, !.perRankDP = 1])

\* blis run sizes a block of the GPU, blis replay one of the offload, and only
\* when the header brought no size.
RunBytes(d, scenario) ==
    LET bytes == BlockBytes(scenario.pools[1], d.engine.block)
    IN IF ~Enabled(d.offload) THEN {d} ELSE Provided(bytes > 0, [d EXCEPT !.offload.perBlockBytes = bytes])
ReplayBytes(d, scenario) ==
    IF ~Enabled(d.offload) \/ d.offload.perBlockBytes # 0 THEN {d}
    ELSE LET bytes == BlockBytes(scenario.pools[1], d.offload.blockSize)
         IN Provided(bytes > 0, [d EXCEPT !.offload.perBlockBytes = bytes])

applyKernelOffloadPricing(d, scenario) ==
    Provided(OffloadPriced(d.offload, d.cpuBlocks, BlockBytes(scenario.pools[1], d.engine.block)), d)

\* Each pool prices the offload by its own kernel and its own bytes per block.
applyOffload(d, scenario) ==
    LET pool(r) == scenario.pools[CHOOSE i \in PoolOf(scenario, r) : TRUE]
        bytes(r) == BlockBytes(pool(r), d.engine.block)
        sized(r) == IF Enabled(d.offload) THEN [d.offload EXCEPT !.perBlockBytes = bytes(r)] ELSE Inert
    IN IF d.pools = <<>> \/ (~Enabled(d.offload) /\ d.cpuBlocks <= 0) THEN {d}
       ELSE Provided(\A r \in DOMAIN d.pools : OffloadPriced(sized(r), d.cpuBlocks, bytes(r)),
                     [d EXCEPT !.pools = [r \in DOMAIN d.pools |-> [d.pools[r] EXCEPT !.offload = sized(r)]]])

RankCapacity(pool) == pool.gpus \div pool.tp

\* Every instance is a rank of its pool, and every pair of ranks has a link.
requireKernelCapacity(d, scenario) ==
    LET pool(r) == scenario.pools[CHOOSE i \in PoolOf(scenario, r) : TRUE]
    IN Provided(IF d.pools = <<>> THEN d.n <= RankCapacity(scenario.pools[1])
                ELSE /\ \A r \in DOMAIN d.pools : d.count[r] <= RankCapacity(pool(r))
                     /\ \A i \in 0..(d.count["prefill"] - 1), j \in 0..(d.count["decode"] - 1) :
                            <<i, j>> \notin scenario.unlinked, d)

Methods == {"", "mtp", "eagle", "medusa", "ngram", "draft"}
MaxSpeculativeTokens == 1024

resolveSpeculativeConfig(d, flags) ==
    LET k == Given(d.draft, "tokens", 0)
        method == Given(d.draft, "method", "")
        acceptance == Given(flags, "acceptance", 0)
    IN Provided(/\ k > 0 => Changed(flags, "acceptance") /\ method \in Methods
                /\ k \in 0..MaxSpeculativeTokens
                /\ acceptance \in 0..100
                /\ k = 0 => acceptance = 0 /\ method = "",
                [d EXCEPT !.acceptance = acceptance])

-----------------------------------------------------------------------------
(* The session flags of a replay *)

\* A pool of sessions is closed-loop whatever the mode flag says.
SessionMode(o) == IF Given(o, "concurrent", 0) > 0 THEN "closed-loop" ELSE Given(o, "mode", "fixed")

SessionsAccepted(o, t) ==
    LET mode == SessionMode(o)
        pooled == Given(o, "concurrent", 0) > 0
        accumulate == t.header.growth = "accumulate"
    IN /\ Given(o, "mode", "fixed") \in {"fixed", "closed-loop", "fixed-accumulate"}
       /\ \A k \in {"thinkMs", "concurrent", "total"} : Given(o, k, 0) >= 0
       /\ ~(pooled /\ Given(o, "mode", "fixed") = "fixed-accumulate")
       /\ accumulate => mode \in {"closed-loop", "fixed-accumulate"}
       /\ mode = "fixed-accumulate" => accumulate
       /\ Given(o, "total", 0) > 0 \/ Given(o, "shuffle", FALSE) => pooled
       /\ Given(o, "thinkMs", 0) > 0 \/ Given(o, "thinkDist", "") # "" => mode = "closed-loop"
       /\ ~(Changed(o, "thinkMs") /\ Changed(o, "thinkDist"))
       /\ pooled /\ t.sessions # "none" => t.sessions = "all"

\* Rounds are driven by a session manager or a pool, not by recorded arrivals.
SessionsDriven(o, t) == SessionMode(o) = "closed-loop" /\ t.sessions # "none"

\* How the replay reads the inputs of later rounds: as additions to the context.
ReadsDeltas(o, t) ==
    \/ SessionMode(o) = "fixed-accumulate"
    \/ SessionsDriven(o, t) /\ t.header.growth = "accumulate"

-----------------------------------------------------------------------------
(* Commands *)

RunStages == <<"adopt", "reserve", "offload", "latency", "numbers", "policies", "fleet", "topology",
               "pools", "place", "bytes", "price", "poolOffload", "capacity", "speculate", "build">>
ReplayStages == <<"adopt", "span", "sessions", "reserve", "offload", "latency", "bytes", "price", "numbers",
                  "policies", "fleet", "topology", "pools", "poolOffload", "place", "capacity",
                  "speculate", "build">>

Idle == [state |-> "idle"]

\* The disk holds one family of traces: those of a run, or an imported one.
SettingsInit ==
    /\ disk \in {<<>>} \cup {<<t>> : t \in Imported}
    /\ job = Idle /\ commands = Len(disk)

\* A command that gave up leaves the disk as it was: nothing later depends on it.
Started(command, from, invocation, options, stages) ==
    /\ job = Idle /\ commands < MaxCommands
    /\ commands' = commands + 1
    /\ job' = [state |-> "running", command |-> command, from |-> from, scenario |-> invocation.scenario,
               flags |-> invocation.flags, sessions |-> invocation.sessions, options |-> options,
               d |-> NewDeployment(invocation.flags), todo |-> stages]
    /\ UNCHANGED disk

\* blis run reads no trace; it starts a new family of traces.
StartRunCommand == disk = <<>> /\ \E x \in Invocations : Started("run", 0, x, <<>>, RunStages)

OffloadOmitted(flags) == [k \in DOMAIN flags \ {"offload"} |-> flags[k]]

\* blis replay: under the scenario and the flags of the trace, with or without
\* the offload file; a trace from elsewhere under any.
StartReplayCommand ==
    \E i \in DOMAIN disk, o \in SessionOptions :
        \E x \in IF disk[i].by = <<>> THEN Invocations ELSE {disk[i].by.invocation} :
            \E flags \in {x.flags, OffloadOmitted(x.flags)} :
                Started("replay", i, [x EXCEPT !.flags = flags], o, ReplayStages)

Stage == IF job.state = "running" THEN Head(job.todo) ELSE "none"
Replaying == job.command = "replay"
From == disk[job.from]

\* The command goes on with one of ds, or gives up when there is none.
Continue(ds) ==
    /\ UNCHANGED <<disk, commands>>
    /\ \/ \E d \in ds : job' = [job EXCEPT !.d = d, !.todo = Tail(@)]
       \/ ds = {} /\ job' = [job EXCEPT !.state = "refused"]

Adopt == Stage = "adopt" /\ Continue(adoptKernelDeployment(job.d, job.scenario, job.flags))
CheckSpan == Stage = "span" /\ Continue(Provided(From.header.span <= 1, job.d))
CheckSessions == Stage = "sessions" /\ Continue(Provided(SessionsAccepted(job.options, From), job.d))
Reserve == Stage = "reserve" /\ Continue(applyKernelLoRAReservation(job.d, job.scenario, job.flags))
ResolveOffload ==
    /\ Stage = "offload"
    /\ Continue(IF Replaying THEN ReplayOffload(job.d, job.flags, From.header)
                ELSE WithOffload(job.d, resolveKVOffloadConfig(job.flags, job.d.engine.block)))
ResolveLatency == Stage = "latency" /\ Continue(resolveLatencyConfig(job.d))
CheckNumbers == Stage = "numbers" /\ Continue(Provided(NumbersValid(job.d, job.flags), job.d))
ResolvePolicies == Stage = "policies" /\ Continue(resolvePolicies(job.d, job.flags))
ResolveFleet ==
    /\ Stage = "fleet"
    /\ Continue(IF Replaying THEN FleetUnsupported(job.d, job.flags)
                ELSE FleetSettings(job.d, job.scenario, job.flags))
CheckTopology ==
    /\ Stage = "topology"
    /\ Continue(Provided(TopologyValid(job.d, job.flags)
                         /\ (Replaying => TopologyStrict(job.d, job.flags)), job.d))
OpenPools ==
    Stage = "pools" /\ Continue({d \in openKernelPools(job.d, job.scenario) : PoolScorersValid(d)})
PlaceRanks == Stage = "place" /\ Continue(resolveDPPlacement(job.d))
SizeOffload ==
    /\ Stage = "bytes"
    /\ Continue(IF Replaying THEN ReplayBytes(job.d, job.scenario) ELSE RunBytes(job.d, job.scenario))
PriceOffload == Stage = "price" /\ Continue(applyKernelOffloadPricing(job.d, job.scenario))
PricePools == Stage = "poolOffload" /\ Continue(applyOffload(job.d, job.scenario))
CheckCapacity == Stage = "capacity" /\ Continue(requireKernelCapacity(job.d, job.scenario))
Speculate == Stage = "speculate" /\ Continue(resolveSpeculativeConfig(job.d, job.flags))

\* What one instance of each engine is built from.
OffloadsOf(d) == IF d.pools = <<>> THEN {d.offload} ELSE {d.pools[r].offload : r \in DOMAIN d.pools}

Build ==
    /\ Stage = "build"
    /\ job' = [job EXCEPT !.state = IF \A c \in OffloadsOf(job.d) : OffloadBuildable(c)
                                    THEN "built" ELSE "panicked"]
    /\ UNCHANGED <<disk, commands>>

\* How many nodes an instance spans; the placement decides among the node pools.
Spans(d) == IF d.nodes = <<>> THEN {0}
            ELSE {(d.engine.tp + d.nodes[i].gpus - 1) \div d.nodes[i].gpus : i \in DOMAIN d.nodes}

RunHeader(d, span) ==
    [mode |-> "generated", growth |-> "", offload |-> simToHeaderOffload(d.offload), obs |-> "",
     span |-> IF span > 1 THEN span ELSE 0]

ReplayHeader(d, o, t) ==
    [mode |-> "replayed", growth |-> IF SessionsDriven(o, t) THEN t.header.growth ELSE "",
     offload |-> simToHeaderOffload(d.offload), obs |-> t.header.obs, span |-> 0]

\* by, deltas and seen are known to us only: who wrote the records, whether the
\* rounds of a session are written as additions, and what the server showed.
Exports(header, deltas, seen, sessions) ==
    /\ job.state = "built"
    /\ disk' = Append(disk, [header |-> header, deltas |-> deltas, seen |-> seen, sessions |-> sessions,
                             by |-> [d |-> job.d, invocation |-> [scenario |-> job.scenario,
                                        flags |-> job.flags, sessions |-> job.sessions]]])
    /\ job' = Idle
    /\ UNCHANGED commands

ExportRun ==
    /\ job.state = "built" /\ ~Replaying
    /\ \E span \in Spans(job.d) : Exports(RunHeader(job.d, span), FALSE, "", job.sessions)

\* Only a driven replay of an accumulating corpus writes deltas again.
ExportReplay ==
    /\ job.state = "built" /\ Replaying
    /\ Exports(ReplayHeader(job.d, job.options, From),
               SessionsDriven(job.options, From) /\ From.header.growth = "accumulate",
               From.seen, From.sessions)

SettingsNext ==
    \/ StartRunCommand \/ StartReplayCommand
    \/ Adopt \/ CheckSpan \/ CheckSessions \/ Reserve \/ ResolveOffload \/ ResolveLatency
    \/ CheckNumbers \/ ResolvePolicies \/ ResolveFleet \/ CheckTopology \/ OpenPools \/ PlaceRanks
    \/ SizeOffload \/ PriceOffload \/ PricePools \/ CheckCapacity \/ Speculate \/ Build
    \/ ExportRun \/ ExportReplay

-----------------------------------------------------------------------------
(* Properties *)

Built == job.state = "built"

(* INV-13, run/replay parity. blis replay reaches the deployment in another   *)
(* order of stages and takes the offload from the header. Under the flags of  *)
(* the command that wrote a simulated trace, with or without the offload      *)
(* file, it ends with the very same deployment; it may refuse to, but only    *)
(* for what it does not support: node spans, the session flags, the           *)
(* autoscaler and node pools, and flags without effect.                       *)
ReplayReproducesRun ==
    job # Idle /\ job.command = "replay" /\ From.by # <<>> =>
        /\ Built => job.d = From.by.d
        /\ job.state # "panicked"
        /\ job.state = "refused" => Head(job.todo) \in {"span", "sessions", "fleet", "topology"}

Scopes(d) == IF d.pools = <<>> THEN {"run"} ELSE DOMAIN d.pools
StatedIn(d, scope) == IF scope = "run" THEN d.stated ELSE d.pools[scope].stated
PolicyIn(d, scope) == IF scope = "run" THEN d.policy ELSE d.pools[scope].policy

(* The results file lists every engine that runs another policy than its pool *)
(* of the scenario states, with both policies, once, and no other: though the *)
(* policy is settled at three places and the pools open after two of them.    *)
OverridesReported ==
    Built =>
        LET listed == {[k \in {"setting", "scope", "stated", "run"} |-> job.d.overrides[i][k]] :
                          i \in DOMAIN job.d.overrides}
        IN /\ Cardinality(listed) = Len(job.d.overrides)
           /\ listed = {[setting |-> k, scope |-> x, stated |-> StatedIn(job.d, x)[k],
                         run |-> PolicyIn(job.d, x)[k]] :
                 <<k, x>> \in {y \in PolicyKinds \X Scopes(job.d) :
                                 StatedIn(job.d, y[2])[y[1]] # PolicyIn(job.d, y[2])[y[1]]}}

PoolsUsed == IF job.d.pools = <<>> THEN {1}
             ELSE UNION {PoolOf(job.scenario, r) : r \in DOMAIN job.d.pools}

(* Every engine of the deployment exists in the scenario: it fits its memory  *)
(* beside the weights and the adapters, it holds one request of its window,   *)
(* the instances are the ranks of all replicas and no more than the GPUs of   *)
(* their pool hold, and the CPU tier has room for a block of that engine.     *)
EnginesFit ==
    Built =>
        \A i \in PoolsUsed :
            LET pool == job.scenario.pools[i]
                colocated == job.d.pools = <<>>
                engine == IF colocated THEN job.d.engine ELSE job.d.pools[pool.role].engine
                offload == IF colocated THEN job.d.offload ELSE job.d.pools[pool.role].offload
                logical == IF colocated THEN Given(job.flags, "n", 1) ELSE job.flags[pool.role]
                instances == IF colocated THEN job.d.n ELSE job.d.count[pool.role]
            IN /\ 100 * (pool.fixed + engine.blocks * BlockBytes(pool, engine.block)
                            + job.d.reserved \div pool.tp) <= pool.memory * pool.util
               /\ engine.window \in 1..(engine.blocks * engine.block)
               /\ instances = logical * pool.dp
               /\ instances * pool.tp <= pool.gpus
               /\ Enabled(offload) => /\ offload.perBlockBytes = BlockBytes(pool, engine.block)
                                      /\ offload.cpuBytes >= offload.perBlockBytes

(* A trace means what its header says, however often it was replayed and      *)
(* exported: the rounds of a session are deltas exactly when the header says  *)
(* accumulate, no replay reads them otherwise, the observation of the real    *)
(* server is still there, and one of a tiered server is never replayed        *)
(* without tiers.                                                             *)
HeaderTellsTruth ==
    /\ \A i \in DOMAIN disk :
          /\ disk[i].deltas <=> disk[i].header.growth = "accumulate"
          /\ disk[i].seen = disk[i].header.obs
    /\ Built /\ job.command = "replay" =>
          /\ From.sessions # "none" => (ReadsDeltas(job.options, From) <=> From.deltas)
          /\ From.seen = "tiered" => Enabled(job.d.offload)

-----------------------------------------------------------------------------
(* What the runs check. *)

(* A replay simulates the system that wrote the trace, and a trace means   *)
(* what its header says.                                                   *)
ReplayParity ==
  /\ ReplayReproducesRun
  /\ HeaderTellsTruth

(* A deployment that was accepted can exist, and the results file says     *)
(* where it departs from its scenario.                                     *)
DeploymentSound ==
  /\ OverridesReported
  /\ EnginesFit
=============================================================================
