--------------------------- MODULE PipelineStates ---------------------------
(***************************************************************************)
(* Root signatures, input layouts and pipeline states (dx12_root_signature *)
(* .cpp, descriptor_ranges.cpp, dx12_input_layout.cpp, dx12_pipeline_state *)
(* .cpp): the application fills them through handles, then                 *)
(* compilePipelineStateObjects creates the signatures and submits one task *)
(* per state; a worker looks up what the state names and creates it.       *)
(*                                                                         *)
(* A call of the application is one step, except the compilation, whose    *)
(* loops run while the workers are at it.  The locks of the maps keep      *)
(* lookups and insertions apart and are part of module LockOrder.          *)
(***************************************************************************)
EXTENDS Conversions, WorkQueues, FiniteSets

CONSTANTS Workers, Sigs, Layouts, States,
          Descs,        \* the descriptions the application may give
          Samples,      \* descriptions that show every value of every field
          SizeLimit,    \* the largest root signature in DWORDs (64)
          MaxSemantics, \* MAX_INPUT_SEMANTICS (8)
          Views,        \* the root descriptors, of "CBV", "UAV" and "SRV"
          Values,       \* numbers of values a root constant may have
          RangeTypes,   \* types of the ranges, of EDescriptorType
          MaxCalls,     \* bound on the calls that fill a signature
          MaxInputs,    \* bound on the inputs of a layout
          MaxCompiles,  \* bound on the calls of compilePipelineStateObjects
          MaxSwaps      \* bound on the calls of present() and setWindowSize()

PipelineStateDesc ==
    [blendState : BlendDesc, depthStencilState : DepthStencilDesc,
     formatRenderTarget : [Targets -> OneOf(EFormat)], inputLayout : Layouts,
     numRenderTargets : Nat, rasterizerState : RasterizerDesc, rootSignature : Sigs,
     multiSampleState : MultiSampleDesc, sampleMask : Int,
     shaders : UNION {[used -> Shaders] : used \in SUBSET Shaders},
     topology : OneOf(ETopologyType)]

ASSUME PipelineAssumption ==
    /\ SizeLimit \in Nat /\ MaxSemantics \in Nat
    /\ MaxCalls \in Nat /\ MaxInputs \in Nat /\ MaxCompiles \in Nat /\ MaxSwaps \in Nat
    /\ Views \subseteq {"CBV", "UAV", "SRV"} /\ Values \subseteq Nat /\ States # {}
    /\ RangeTypes \subseteq OneOf(EDescriptorType)
    /\ Descs \cup Samples \subseteq PipelineStateDesc

VARIABLES
    sigs,      \* rootSignatures_: phase, params, ranges, size, made
    layouts,   \* inputLayouts_: inputs, capacity of names_, names that moved
    states,    \* pipelineStates_: phase, description, number of state_, dx
    call,      \* where compilePipelineStateObjects is, or "none"
    todo,      \* what its loop has still to visit
    gen,       \* the pool's generic queues: names compileMain is bound to
    at, task,  \* where a worker is in compileMain, and with which state
    desc,      \* the description it assembles
    crashed,   \* what ended the program, or "none"
    log,       \* history: the calls made on each signature ...
    cost,      \* ... and what Direct3D counts for them
    failed,    \* history: signatures whose serialization failed
    tooLarge,  \* history: those among them that were too large
    bare,      \* history: states submitted with a signature never filled
    overlap,   \* history: a state was submitted again before its task was done
    lost,      \* history: tasks were dropped, or left behind, by a swap
    compiles, swaps

maps    == <<sigs, layouts, states>>
workers == <<at, task, desc>>
history == <<log, cost, failed, tooLarge, bare, overlap, lost>>
vars == <<maps, call, todo, gen, workers, crashed, history, compiles, swaps>>

Phases == {"absent", "open", "made"}
Steps  == {"idle", "enter", "sig", "layout", "create", "reset"}
NoState == CHOOSE p \in States : TRUE
NoDesc  == [sig |-> {}, inputs |-> 0]

Waits(p) == \E s \in Slots : \E i \in DOMAIN gen[s] : gen[s][i] = p
UnderWay == {p \in States : Waits(p) \/ \E w \in Workers : at[w] # "idle" /\ task[w] = p}

Init ==
    /\ sigs = [r \in Sigs |-> [phase |-> "absent", params |-> <<>>, ranges |-> <<>>,
                               size |-> 0, made |-> {}]]
    /\ layouts = [l \in Layouts |-> [there |-> FALSE, inputs |-> 0, capacity |-> 0,
                                     moved |-> 0]]
    /\ states = [p \in States |-> [phase |-> "absent", object |-> 0, desc |-> {}, dx |-> {}]]
    /\ call = "none" /\ todo = {}
    /\ gen = [s \in Slots |-> <<>>]
    /\ at = [w \in Workers |-> "idle"]
    /\ task = [w \in Workers |-> NoState]
    /\ desc = [w \in Workers |-> NoDesc]
    /\ crashed = "none"
    /\ log = [r \in Sigs |-> <<>>] /\ cost = [r \in Sigs |-> 0]
    /\ failed = {} /\ tooLarge = {}
    /\ bare = {} /\ overlap = FALSE /\ lost = FALSE
    /\ compiles = 0 /\ swaps = 0

-----------------------------------------------------------------------------
(***************************************************************************)
(* The application fills the maps.  Inserting a name that is there already *)
(* changes nothing.                                                        *)
(***************************************************************************)
Calls == call = "none" /\ UNCHANGED <<call, todo, gen, workers, compiles, swaps>>

CreateRootSignature(r) ==
    /\ Calls /\ sigs[r].phase = "absent"
    /\ sigs' = [sigs EXCEPT ![r].phase = "open"]
    /\ UNCHANGED <<layouts, states, crashed, history>>

\* What Direct3D counts: a root constant is as large as its values.
CostOf(entry) == CASE entry.op = "CONSTANT" -> entry.value
                   [] entry.op \in Views    -> 2
                   [] entry.op = "TABLE"    -> 1
                   [] OTHER                 -> 0

\* A call on the handle of a signature.  After the signature was created the
\* vectors it would fill are gone.
Fill(r, entry, filled) ==
    /\ Calls /\ sigs[r].phase # "absent"
    /\ Len(log[r]) < MaxCalls
    /\ IF sigs[r].phase = "open"
       THEN /\ sigs' = [sigs EXCEPT ![r] = filled]
            /\ log' = [log EXCEPT ![r] = Append(@, entry)]
            /\ cost' = [cost EXCEPT ![r] = @ + CostOf(entry)]
            /\ UNCHANGED crashed
       ELSE crashed' = "handle" /\ UNCHANGED <<sigs, log, cost>>
    /\ UNCHANGED <<layouts, states, failed, tooLarge, bare, overlap, lost>>

Param(type, value) == [type |-> type, value |-> value, ranges |-> <<>>]

\* A root constant counts one DWORD, whatever its number of values.
AddConstant(r, values) ==
    Fill(r, [op |-> "CONSTANT", value |-> values],
         [sigs[r] EXCEPT !.size = @ + 1,
                         !.params = Append(@, Param("CONSTANT", values))])

\* Root descriptors are 64-bit addresses (a mutant counts one DWORD).
ViewSizeOne == 1
ViewSize == 2

AddDescriptor(r, view) ==
    Fill(r, [op |-> view, value |-> 0],
         [sigs[r] EXCEPT !.size = @ + ViewSize, !.params = Append(@, Param(view, 0))])

\* The index is hidden in the parameter and returned.
AddDescriptorTable(r) ==
    LET index == Len(sigs[r].ranges) IN
    Fill(r, [op |-> "TABLE", value |-> index],
         [sigs[r] EXCEPT !.size = @ + 1, !.ranges = Append(@, <<>>),
                         !.params = Append(@, Param("TABLE", index))])

AddDescriptorRange(r, index, type) ==
    Fill(r, [op |-> "RANGE", value |-> index, type |-> type],
         [sigs[r] EXCEPT !.ranges[index + 1] = Append(@, DescriptorTypeToDX(type))])

\* The move constructor does not reserve (a mutant).
NothingReserved == 0

\* Insertion into the map moves the layout, which reserves room for names.
Reserved == MaxSemantics

CreateInputLayout(l) ==
    /\ Calls /\ ~layouts[l].there
    /\ layouts' = [layouts EXCEPT ![l].there = TRUE, ![l].capacity = Reserved]
    /\ UNCHANGED <<sigs, states, crashed, history>>

\* names_ moves when it is full, and the addresses taken so far with it.  It
\* grows to an implementation's choice, at least by one.
AddInput(l) ==
    /\ Calls /\ layouts[l].there
    /\ layouts[l].inputs < MaxInputs
    /\ LET n == layouts[l].inputs IN
       layouts' = [layouts EXCEPT
           ![l].inputs = n + 1,
           ![l].capacity = IF n = @ THEN n + 1 ELSE @,
           ![l].moved = IF n = layouts[l].capacity THEN n ELSE @]
    /\ UNCHANGED <<sigs, states, crashed, history>>

CreatePipelineState(p, d) ==
    /\ Calls /\ states[p].phase = "absent"
    /\ states' = [states EXCEPT ![p].phase = "open", ![p].desc = {d}]
    /\ UNCHANGED <<sigs, layouts, crashed, history>>

\* The calls of a log that ask for a parameter, and those that add a range under the
\* index that the call for a table returned.
ParamCalls(calls) == {i \in DOMAIN calls : calls[i].op # "RANGE"}
RangeCalls(calls, index) == {i \in DOMAIN calls : calls[i].op = "RANGE" /\ calls[i].value = index}

-----------------------------------------------------------------------------
(***************************************************************************)
(* compilePipelineStateObjects.                                            *)
(***************************************************************************)
Compile ==
    /\ call = "none" /\ compiles < MaxCompiles
    /\ compiles' = compiles + 1
    /\ call' = "sigs" /\ todo' = {r \in Sigs : sigs[r].phase # "absent"}
    /\ UNCHANGED <<maps, gen, workers, crashed, history, swaps>>

\* The exception leaves the call; the application may try again.
Throws == call' = "none" /\ todo' = {}

\* The ranges of the next table (a mutant).
TableNext(s, param) == IF param.type = "TABLE" /\ param.value < Len(s.ranges)
                       THEN [param EXCEPT !.value = Len(s.ranges[Len(s.ranges) - param.value]),
                                          !.ranges = s.ranges[Len(s.ranges) - param.value]]
                       ELSE param

\* The table's hidden index gives way to its ranges and their number.  It is
\* not there any more when a failed serialization is tried again.
Table(s, param) == IF param.type = "TABLE" /\ param.value < Len(s.ranges)
                   THEN [param EXCEPT !.value = Len(s.ranges[param.value + 1]),
                                      !.ranges = s.ranges[param.value + 1]]
                   ELSE param

Prepared(s) == [s EXCEPT !.params = [i \in DOMAIN s.params |-> Table(s, s.params[i])]]

\* intermediate_ is given up before the result is looked at (a mutant).
FailedReset(s) == [Prepared(s) EXCEPT !.phase = "made"]

\* A serialization that fails leaves what it was prepared from.
Failed(s) == Prepared(s)

BadIndex(s) == \E i \in DOMAIN s.params :
                  s.params[i].type = "TABLE" /\ s.params[i].value >= Len(s.ranges)

Advance(x) == todo' = todo \ {x} /\ UNCHANGED call

\* DX12RootSignature::create.
CompileSignature(r) ==
    LET s == sigs[r] IN
    /\ call = "sigs" /\ r \in todo
    /\ \/ /\ s.phase = "made" \/ s.params = <<>>
          /\ Advance(r) /\ UNCHANGED <<sigs, crashed, failed, tooLarge>>
       \/ /\ s.phase = "open" /\ s.params # <<>> /\ s.size > SizeLimit
          /\ Throws /\ UNCHANGED <<sigs, crashed, failed, tooLarge>>
       \/ /\ s.phase = "open" /\ s.params # <<>> /\ s.size <= SizeLimit
          /\ IF BadIndex(s)
             THEN Throws /\ crashed' = "range" /\ UNCHANGED <<sigs, failed, tooLarge>>
             ELSE \/ \* D3D12SerializeRootSignature or CreateRootSignature fails
                     /\ sigs' = [sigs EXCEPT ![r] = Failed(s)]
                     /\ failed' = failed \cup {r}
                     /\ tooLarge' = IF cost[r] > SizeLimit THEN tooLarge \cup {r}
                                                                ELSE tooLarge
                     /\ Throws /\ UNCHANGED crashed
                  \/ /\ cost[r] <= SizeLimit
                     /\ sigs' = [sigs EXCEPT ![r] =
                           [@ EXCEPT !.phase = "made", !.params = <<>>, !.ranges = <<>>,
                                     !.made = {Prepared(s).params}]]
                     /\ Advance(r) /\ UNCHANGED <<crashed, failed, tooLarge>>
    /\ UNCHANGED <<layouts, states, gen, workers, log, cost, bare, overlap, lost,
                   compiles, swaps>>

\* The states are submitted before the signatures are there (a mutant).
StatesTurnEarly == call = "sigs"

StatesTurn == call = "sigs" /\ todo = {}

CompileStates ==
    /\ StatesTurn
    /\ call' = "states" /\ todo' = {p \in States : states[p].phase # "absent"}
    /\ UNCHANGED <<maps, gen, workers, crashed, history, compiles, swaps>>

SigOf(p) == (CHOOSE d \in states[p].desc : TRUE).rootSignature

\* Submitted for the next frame (a mutant).
NextFrame == 1

CompileSlot == 0

SubmitState(p) ==
    /\ call = "states" /\ p \in todo
    /\ gen' = [gen EXCEPT ![CompileSlot] = Append(@, p)]
    /\ Advance(p)
    /\ overlap' = (overlap \/ p \in UnderWay)
    /\ bare' = IF ParamCalls(log[SigOf(p)]) = {} THEN bare \cup {p} ELSE bare
    /\ UNCHANGED <<maps, workers, crashed, log, cost, failed, tooLarge, lost,
                   compiles, swaps>>

CompileDone ==
    /\ call = "states" /\ todo = {}
    /\ call' = "none"
    /\ UNCHANGED <<maps, todo, gen, workers, crashed, history, compiles, swaps>>

\* present() rotates the slots and setWindowSize() empties them, while no
\* worker holds a task (module ThreadPool).
Swap ==
    /\ call = "none" /\ swaps < MaxSwaps /\ swaps' = swaps + 1
    /\ \A w \in Workers : at[w] = "idle"
    /\ gen' \in {Rotated(gen), [s \in Slots |-> <<>>]}
    /\ lost' = (lost \/ gen[0] # <<>>)
    /\ UNCHANGED <<maps, call, todo, workers, crashed, log, cost, failed, tooLarge, bare,
                   overlap, compiles>>

-----------------------------------------------------------------------------
(***************************************************************************)
(* compileMain and DX12PipelineState::create, on a worker.                 *)
(***************************************************************************)
Works == UNCHANGED <<sigs, layouts, call, todo, history, compiles, swaps>>

Go(w, step) == at' = [at EXCEPT ![w] = step]

Finish(w) == /\ Go(w, "idle")
             /\ task' = [task EXCEPT ![w] = NoState]
             /\ desc' = [desc EXCEPT ![w] = NoDesc]

Crash(cause) == crashed' = cause /\ UNCHANGED <<workers, states>>

TakeTask(w) ==
    /\ Works /\ at[w] = "idle" /\ gen[0] # <<>>
    /\ gen' = [gen EXCEPT ![0] = Tail(@)]
    /\ task' = [task EXCEPT ![w] = Head(gen[0])]
    /\ Go(w, "enter")
    /\ UNCHANGED <<states, desc, crashed>>

\* if (intermediate_) is not asked (a mutant).
ToCreateAlways(p) == TRUE

ToCreate(p) == states[p].phase = "open"

Enter(w) ==
    /\ Works /\ at[w] = "enter"
    /\ IF ToCreate(task[w])
       THEN Go(w, "sig") /\ UNCHANGED <<task, desc>>
       ELSE Finish(w)
    /\ UNCHANGED <<states, gen, crashed>>

\* Every use of intermediate_ after the test finds it, or crashes.
Uses(w, step) == Works /\ at[w] = step /\ UNCHANGED gen

FoundSignature(r) == sigs[r].phase # "absent"
FoundLayout(l) == layouts[l].there

Described(w) == states[task[w]].phase = "open"
DescOf(w) == CHOOSE d \in states[task[w]].desc : TRUE

GetRootSignature(w) ==
    /\ Uses(w, "sig")
    /\ IF ~Described(w) THEN Crash("reset")
       ELSE LET r == DescOf(w).rootSignature IN
            IF ~FoundSignature(r) THEN Crash("missing")
            ELSE /\ desc' = [desc EXCEPT ![w].sig = sigs[r].made]
                 /\ Go(w, "layout") /\ UNCHANGED <<task, states, crashed>>

\* The pointer to the inputs is kept after the lock is released.  An empty
\* layout has no first input.
GetInputLayout(w) ==
    /\ Uses(w, "layout")
    /\ IF ~Described(w) THEN Crash("reset")
       ELSE LET l == DescOf(w).inputLayout IN
            IF ~FoundLayout(l) THEN Crash("missing")
            ELSE \/ layouts[l].inputs = 0 /\ Crash("layout")
                 \/ /\ desc' = [desc EXCEPT ![w].inputs = layouts[l].inputs]
                    /\ Go(w, "create") /\ UNCHANGED <<task, states, crashed>>

\* The description passed to Direct3D.
Converted(d) ==
    [BlendState |-> BlendDescToDX(d.blendState),
     DepthStencilState |-> DepthStencilDescToDX(d.depthStencilState),
     RasterizerState |-> RasterizerDescToDX(d.rasterizerState),
     SampleMask |-> d.sampleMask,
     PrimitiveTopologyType |-> TopologyTypeToDX(d.topology),
     NumRenderTargets |-> d.numRenderTargets,
     SampleDesc |-> MultiSampleDescToDX(d.multiSampleState),
     RTVFormats |-> [i \in Targets |-> FormatToDX(d.formatRenderTarget[i])],
     Shaders |-> [t \in {"DOMAIN", "GEOMETRY", "HULL", "PIXEL", "VERTEX"} |->
                     IF t \in DOMAIN d.shaders THEN d.shaders[t] ELSE "none"]]

\* The inputs or the names that the description points to have moved since.
Stale(w) == LET l == layouts[DescOf(w).inputLayout] IN
            l.inputs # desc[w].inputs \/ l.moved > 0

CreateState(w) ==
    /\ Uses(w, "create")
    /\ IF ~Described(w) THEN Crash("reset")
       ELSE \/ Stale(w) /\ Crash("layout")
            \/ Crash("device")   \* CreateGraphicsPipelineState fails
            \/ /\ states' = [states EXCEPT
                     ![task[w]].object = @ + 1,
                     ![task[w]].dx = {[sig |-> desc[w].sig, dx |-> Converted(DescOf(w))]}]
               /\ Go(w, "reset") /\ UNCHANGED <<task, desc, crashed>>

\* The description is kept (a mutant).
PhaseKept == "open"

PhaseAfter == "made"

Reset(w) ==
    /\ Uses(w, "reset")
    /\ states' = [states EXCEPT ![task[w]].phase = PhaseAfter]
    /\ Finish(w) /\ UNCHANGED crashed

-----------------------------------------------------------------------------
Application ==
    \/ \E r \in Sigs :
          \/ CreateRootSignature(r)
          \/ \E n \in Values : AddConstant(r, n)
          \/ \E v \in Views : AddDescriptor(r, v)
          \/ AddDescriptorTable(r)
          \/ \E i \in 0..Len(sigs[r].ranges) - 1, t \in RangeTypes :
                AddDescriptorRange(r, i, t)
          \/ CompileSignature(r)
    \/ \E l \in Layouts : CreateInputLayout(l) \/ AddInput(l)
    \/ \E p \in States : SubmitState(p) \/ \E d \in Descs : CreatePipelineState(p, d)
    \/ Compile \/ CompileStates \/ CompileDone \/ Swap

Work(w) == \/ TakeTask(w) \/ Enter(w) \/ GetRootSignature(w)
           \/ GetInputLayout(w) \/ CreateState(w) \/ Reset(w)

Next == crashed = "none" /\ (Application \/ \E w \in Workers : Work(w))

Spec == Init /\ [][Next]_vars

\* Workers go on; so does a call of the application once it was made.
Loops == (\E r \in Sigs : CompileSignature(r)) \/ CompileStates
         \/ (\E p \in States : SubmitState(p)) \/ CompileDone
FairSpec == /\ Spec
            /\ \A w \in Workers : WF_vars(crashed = "none" /\ Work(w))
            /\ WF_vars(crashed = "none" /\ Loops)

-----------------------------------------------------------------------------
(***************************************************************************)
(* What should hold.                                                       *)
(***************************************************************************)
ParamType == [type : {"CONSTANT", "TABLE"} \cup Views, value : Nat,
              ranges : Seq({"CBV", "UAV", "SAMPLER", "SRV"})]

\* The variables have their types; at most one description and one object per
\* name; a created signature or state has given up what it was made from.
TypeOK ==
    /\ \A r \in Sigs : LET s == sigs[r] IN
          /\ s.phase \in Phases /\ s.params \in Seq(ParamType)
          /\ s.ranges \in Seq(Seq({"CBV", "UAV", "SAMPLER", "SRV"}))
          /\ s.size \in Nat
          /\ s.made \in SUBSET Seq(ParamType)
          /\ s.made # {} <=> s.phase = "made"
    /\ layouts \in [Layouts -> [there : BOOLEAN, inputs : Nat, capacity : Nat, moved : Nat]]
    /\ \A p \in States : LET q == states[p] IN
          /\ q.phase \in Phases /\ q.object \in Nat /\ q.desc \subseteq Descs
          /\ q.phase = "made" => q.object > 0
          /\ q.phase = "absent" <=> q.desc = {}
    /\ call \in {"none", "sigs", "states"} /\ todo \subseteq Sigs \cup States
    /\ gen \in [Slots -> Seq(States)]
    /\ at \in [Workers -> Steps] /\ task \in [Workers -> States]
    /\ \A w \in Workers : /\ at[w] = "idle" => task[w] = NoState /\ desc[w] = NoDesc
                          /\ at[w] # "idle" => states[task[w]].phase # "absent"
    /\ failed \subseteq Sigs /\ tooLarge \subseteq failed /\ bare \subseteq States

-----------------------------------------------------------------------------
\* A sequence has the values of a function on numbers, in the order of the numbers.
Rank(S, i) == Cardinality({j \in S : j <= i})
InOrder(seq, f) == /\ DOMAIN seq = 1..Cardinality(DOMAIN f)
                   /\ \A i \in DOMAIN f : seq[Rank(DOMAIN f, i)] = f[i]

\* Parameters are those that the calls asked for: a table has the ranges added to it.
RangeType(api) == CASE api = "CONSTANT_BUFFER" -> "CBV" [] api = "SAMPLER" -> "SAMPLER"
                    [] api = "SHADER_RESOURCE" -> "SRV" [] api = "UNORDERED_ACCESS" -> "UAV"
AskedRanges(calls, index) == [i \in RangeCalls(calls, index) |-> RangeType(calls[i].type)]
AskedFor(param, calls, i) ==
    /\ param.type = calls[i].op
    /\ IF calls[i].op = "TABLE"
       THEN /\ param.value = Len(param.ranges)
            /\ InOrder(param.ranges, AskedRanges(calls, calls[i].value))
       ELSE param.value = calls[i].value /\ param.ranges = <<>>
AsCalled(params, calls) ==
    /\ DOMAIN params = 1..Cardinality(ParamCalls(calls))
    /\ \A i \in ParamCalls(calls) : AskedFor(params[Rank(ParamCalls(calls), i)], calls, i)

\* A created root signature has the parameters the application asked for, in
\* their order, and each table the ranges added to it: the index hidden in the
\* parameter always leads back to them.  Only a serialization that failed
\* before has overwritten the indices.
TablesKeepRanges ==
    \A r \in Sigs \ failed : \A m \in sigs[r].made :
        AsCalled(m, log[r])

\* The count kept while a signature is filled rejects it before Direct3D does,
\* unless it holds root constants of several values, which count as one.
LimitCaughtFirst ==
    \A r \in tooLarge : \E i \in DOMAIN log[r] :
        log[r][i].op = "CONSTANT" /\ log[r][i].value > 1

\* The addresses of the semantic names stay valid as long as a layout has no
\* more inputs than MAX_INPUT_SEMANTICS.
NamesStay == \A l \in Layouts : layouts[l].inputs <= MaxSemantics => layouts[l].moved = 0

-----------------------------------------------------------------------------
\* What Direct3D's field should hold: the value of the API's field of that name.
Same(dx, api, fields) == /\ DOMAIN dx = DOMAIN fields
                         /\ \A f \in DOMAIN fields : dx[f] = api[fields[f]]

StencilFields == [StencilDepthFailOp |-> "depthFail", StencilFailOp |-> "fail",
                  StencilPassOp |-> "pass", StencilFunc |-> "func"]
TargetFields == [BlendEnable |-> "blendEnable", LogicOpEnable |-> "logicOpEnable",
                 SrcBlend |-> "srcBlend", SrcBlendAlpha |-> "srcBlendAlpha",
                 DestBlend |-> "destBlend", DestBlendAlpha |-> "destBlendAlpha",
                 BlendOp |-> "blendOp", BlendOpAlpha |-> "blendOpAlpha",
                 LogicOp |-> "logicOp",
                 RenderTargetWriteMask |-> "renderTargetWriteMask"]
PlainRaster == [AntialiasedLineEnable |-> "antialiasedLineEnable", CullMode |-> "cullMode",
                FillMode |-> "fillMode", DepthBias |-> "depthBias",
                DepthBiasClamp |-> "depthBiasClamp",
                SlopeScaledDepthBias |-> "slopeScaledDepthBias",
                DepthClipEnable |-> "depthClipEnable",
                ForcedSampleCount |-> "forcedSampleCount",
                FrontCounterClockwise |-> "frontCCW", MultisampleEnable |-> "multisampleEnable"]
PlainDepth == [DepthEnable |-> "depthEnable", DepthFunc |-> "depthFunc",
               StencilEnable |-> "stencilEnable", StencilReadMask |-> "stencilReadMask",
               StencilWriteMask |-> "stencilWriteMask"]
Without(f, keys) == [k \in DOMAIN f \ keys |-> f[k]]

\* A compute shader is left out: a graphics state has no stage for it.
AsAsked(dx, d) ==
    /\ \A i \in Targets :
          /\ Same(dx.BlendState.RenderTarget[i], d.blendState.renderTarget[i], TargetFields)
          /\ dx.RTVFormats[i] = d.formatRenderTarget[i]
    /\ Same(dx.DepthStencilState.FrontFace, d.depthStencilState.frontFace, StencilFields)
    /\ Same(dx.DepthStencilState.BackFace, d.depthStencilState.backFace, StencilFields)
    /\ Same(Without(dx.DepthStencilState, {"FrontFace", "BackFace", "DepthWriteMask"}),
            d.depthStencilState, PlainDepth)
    /\ dx.DepthStencilState.DepthWriteMask = "ALL" <=> d.depthStencilState.depthMaskEnable
    /\ Same(Without(dx.RasterizerState, {"ConservativeRaster"}), d.rasterizerState, PlainRaster)
    /\ dx.RasterizerState.ConservativeRaster = "ON" <=> d.rasterizerState.useConservativeRaster
    /\ Same(Without(dx.BlendState, {"RenderTarget"}), d.blendState,
            [AlphaToCoverageEnable |-> "alphaToCoverageEnable",
             IndependentBlendEnable |-> "independentBlendEnable"])
    /\ Same(dx.SampleDesc, d.multiSampleState, [Count |-> "count", Quality |-> "quality"])
    /\ <<dx.PrimitiveTopologyType, dx.SampleMask, dx.NumRenderTargets>>
         = <<d.topology, d.sampleMask, d.numRenderTargets>>
    /\ \A t \in DOMAIN d.shaders \ {"COMPUTE"} : dx.Shaders[t] = d.shaders[t]

\* A created pipeline state is what its description asked for: every value of
\* every enumeration keeps its meaning and no two fields are exchanged, and its
\* signature is the one it names.
\* (SamplesAgree speaks of constants, so it is enough to look at it once.)
SamplesAgree ==
    /\ \A d \in Samples : AsAsked(Converted(d), d)
    /\ \A t \in DOMAIN EDescriptorType :
          DescriptorTypeToDX(EDescriptorType[t]) = RangeType(EDescriptorType[t])
CompiledAsAsked ==
    /\ Init => SamplesAgree
    /\ \A p \in States : \A q \in states[p].dx : \A d \in states[p].desc :
          AsAsked(q.dx, d) /\ q.sig \subseteq sigs[d.rootSignature].made

\* The signatures are created before the states are submitted: a state is
\* created without one only when nothing had been added to it by then.
SignatureFirst == \A p \in States \ bare : \A q \in states[p].dx : q.sig # {}

\* A worker's description does not vanish under it unless the application asked
\* for the compilation of a state while that of an earlier call was under way:
\* the lock that create() relies on, of the device, is not held by workers.
NoUseAfterReset == crashed = "reset" => overlap

\* A created signature keeps its parameters, and a created state its object,
\* which command lists are recorded with and which nothing else keeps alive:
\* later compilations skip both, unless one overlapped with an earlier one.
CreatedStays ==
    [][/\ \A r \in Sigs : sigs[r].made # {} => sigs'[r].made = sigs[r].made
       /\ \A p \in States :
             states[p].object > 0 /\ ~overlap' => states'[p].object = states[p].object]_vars

\* A state that was submitted is created in the end, unless the program ended
\* or a swap of the queues dropped tasks or left them behind.
Compiled(p) == states[p].object > 0
SubmittedIsCompiled ==
    \A p \in States : Waits(p) ~> (Compiled(p) \/ crashed # "none" \/ lost)
=============================================================================
