---------------------------- MODULE Conversions -----------------------------
(***************************************************************************)
(* The enumerations and descriptions of the API (public/definitions.h) and *)
(* their conversion to Direct3D 12 (dx12/DXUtility.cpp).                   *)
(*                                                                         *)
(* A value of an enumeration is its name, on either side; Switch is a      *)
(* switch with the cases the code has and the value it returns after them. *)
(* Numbers that are passed on (masks, biases, counts) are not interpreted. *)
(***************************************************************************)
EXTENDS Integers, Sequences

CONSTANT NumTargets  \* elements of renderTarget and formatRenderTarget (8)

ASSUME TargetsAssumption == NumTargets \in Nat \ {0}

Targets == 1..NumTargets

\* The enumerators in the order of their declaration.
EBlend == <<"ZERO", "ONE", "SRC_COLOR", "INV_SRC_COLOR", "SRC_ALPHA",
            "INV_SRC_ALPHA", "DEST_ALPHA", "INV_DEST_ALPHA", "DEST_COLOR",
            "INV_DEST_COLOR">>
EBlendOp == <<"ADD", "SUBTRACT", "REV_SUBTRACT", "MIN", "MAX">>
ECompFunc == <<"NEVER", "LESS", "EQUAL", "LESS_EQUAL", "GREATER", "NOT_EQUAL",
               "GREATER_EQUAL", "ALWAYS">>
ECullMode == <<"BACK", "FRONT", "NONE">>
EDescriptorType == <<"CONSTANT_BUFFER", "SAMPLER", "SHADER_RESOURCE",
                     "UNORDERED_ACCESS">>
EFillMode == <<"SOLID", "WIREFRAME">>
EFormat == <<"UNKNOWN", "B8G8R8A8_UNORM", "R16_UINT", "R32G32B32_FLOAT">>
ELogicOp == <<"CLEAR", "SET", "COPY", "COPY_INVERTED", "NOOP", "INVERT", "AND",
              "NAND", "OR", "NOR", "XOR", "EQUIV", "AND_REVERSE",
              "AND_INVERTED", "OR_REVERSE", "OR_INVERTED">>
EShaderType == <<"COMPUTE", "DOMAIN", "GEOMETRY", "HULL", "PIXEL", "VERTEX">>
EStencilOp == <<"KEEP", "ZERO", "REPLACE", "INCR_SAT", "DECR_SAT", "INVERT",
                "INCR", "DECR">>
ETopologyType == <<"POINT", "LINE", "TRIANGLE", "PATCH">>

-----------------------------------------------------------------------------
(***************************************************************************)
(* The descriptions an application can give.  A mask is a number.          *)
(***************************************************************************)
OneOf(enum) == {enum[i] : i \in DOMAIN enum}

RenderTargetBlendDesc ==
    [blendEnable : BOOLEAN, logicOpEnable : BOOLEAN, srcBlend : OneOf(EBlend),
     destBlend : OneOf(EBlend), blendOp : OneOf(EBlendOp),
     srcBlendAlpha : OneOf(EBlend), destBlendAlpha : OneOf(EBlend),
     blendOpAlpha : OneOf(EBlendOp), logicOp : OneOf(ELogicOp),
     renderTargetWriteMask : Nat]

BlendDesc == [alphaToCoverageEnable : BOOLEAN, independentBlendEnable : BOOLEAN,
              renderTarget : [Targets -> RenderTargetBlendDesc]]

StencilOpDesc == [fail : OneOf(EStencilOp), depthFail : OneOf(EStencilOp),
                  pass : OneOf(EStencilOp), func : OneOf(ECompFunc)]

DepthStencilDesc ==
    [depthEnable : BOOLEAN, depthMaskEnable : BOOLEAN, depthFunc : OneOf(ECompFunc),
     stencilEnable : BOOLEAN, stencilReadMask : 0..255, stencilWriteMask : 0..255,
     frontFace : StencilOpDesc, backFace : StencilOpDesc]

RasterizerDesc ==
    [fillMode : OneOf(EFillMode), cullMode : OneOf(ECullMode), frontCCW : BOOLEAN,
     depthBias : Int, depthBiasClamp : Int, slopeScaledDepthBias : Int,
     depthClipEnable : BOOLEAN, multisampleEnable : BOOLEAN,
     antialiasedLineEnable : BOOLEAN, forcedSampleCount : Nat,
     useConservativeRaster : BOOLEAN]

MultiSampleDesc == [count : Nat, quality : Nat]

Shaders == OneOf(EShaderType)

-----------------------------------------------------------------------------
Switch(value, cases, otherwise) == IF value \in cases THEN value ELSE otherwise

BlendToDX(blend) ==
    Switch(blend, {"ZERO", "SRC_COLOR", "INV_SRC_COLOR", "SRC_ALPHA",
                   "INV_SRC_ALPHA", "DEST_ALPHA", "INV_DEST_ALPHA",
                   "DEST_COLOR", "INV_DEST_COLOR"}, "ONE")
BlendOpToDX(op) == Switch(op, {"SUBTRACT", "REV_SUBTRACT", "MIN", "MAX"}, "ADD")
CompFuncToDX(func) ==
    Switch(func, {"NEVER", "LESS", "EQUAL", "LESS_EQUAL", "GREATER",
                  "NOT_EQUAL", "GREATER_EQUAL"}, "ALWAYS")
CullModeToDX(mode) == Switch(mode, {"BACK", "FRONT"}, "NONE")
DescriptorTypeToDX(type) ==
    CASE type = "CONSTANT_BUFFER"  -> "CBV"
      [] type = "UNORDERED_ACCESS" -> "UAV"
      [] type = "SAMPLER"          -> "SAMPLER"
      [] OTHER                     -> "SRV"
FillModeToDX(mode) == Switch(mode, {"SOLID"}, "WIREFRAME")
FormatToDX(format) ==
    Switch(format, {"B8G8R8A8_UNORM", "R16_UINT", "R32G32B32_FLOAT"}, "UNKNOWN")
LogicOpToDX(op) ==
    Switch(op, {"SET", "COPY", "COPY_INVERTED", "NOOP", "INVERT", "AND", "NAND",
                "OR", "NOR", "XOR", "EQUIV", "AND_REVERSE", "AND_INVERTED",
                "OR_REVERSE", "OR_INVERTED"}, "CLEAR")
StencilOpToDX(op) ==
    Switch(op, {"DECR", "DECR_SAT", "INCR", "INCR_SAT", "INVERT", "REPLACE",
                "ZERO"}, "KEEP")
TopologyTypeToDX(value) ==
    Switch(value, {"LINE", "PATCH", "POINT", "TRIANGLE"}, "UNDEFINED")

-----------------------------------------------------------------------------
BlendDescToDX(desc) ==
    [AlphaToCoverageEnable  |-> desc.alphaToCoverageEnable,
     IndependentBlendEnable |-> desc.independentBlendEnable,
     RenderTarget |-> [i \in Targets |-> LET rt == desc.renderTarget[i] IN
        [BlendEnable   |-> rt.blendEnable,
         LogicOpEnable |-> rt.logicOpEnable,
         SrcBlend  |-> BlendToDX(rt.srcBlend), SrcBlendAlpha  |-> BlendToDX(rt.srcBlendAlpha),
         DestBlend |-> BlendToDX(rt.destBlend), DestBlendAlpha |-> BlendToDX(rt.destBlendAlpha),
         BlendOp   |-> BlendOpToDX(rt.blendOp), BlendOpAlpha   |-> BlendOpToDX(rt.blendOpAlpha),
         LogicOp   |-> LogicOpToDX(rt.logicOp),
         RenderTargetWriteMask |-> rt.renderTargetWriteMask]]]

\* Failed and depth-failed exchanged (a mutant).
StencilOpDescSwapped(desc) ==
    [StencilDepthFailOp |-> StencilOpToDX(desc.fail),
     StencilFailOp      |-> StencilOpToDX(desc.depthFail),
     StencilPassOp      |-> StencilOpToDX(desc.pass),
     StencilFunc        |-> CompFuncToDX(desc.func)]

StencilOpDescToDX(desc) ==
    [StencilDepthFailOp |-> StencilOpToDX(desc.depthFail),
     StencilFailOp      |-> StencilOpToDX(desc.fail),
     StencilPassOp      |-> StencilOpToDX(desc.pass),
     StencilFunc        |-> CompFuncToDX(desc.func)]

\* The write mask is the Boolean cast to an enumeration of ZERO and ALL; the
\* depth format and backFunc of the API are not looked at.
DepthStencilDescToDX(desc) ==
    [DepthEnable    |-> desc.depthEnable,
     DepthWriteMask |-> IF desc.depthMaskEnable THEN "ALL" ELSE "ZERO",
     DepthFunc      |-> CompFuncToDX(desc.depthFunc),
     StencilEnable  |-> desc.stencilEnable,
     StencilReadMask |-> desc.stencilReadMask, StencilWriteMask |-> desc.stencilWriteMask,
     FrontFace |-> StencilOpDescToDX(desc.frontFace),
     BackFace  |-> StencilOpDescToDX(desc.backFace)]

MultiSampleDescToDX(desc) == [Count |-> desc.count, Quality |-> desc.quality]

RasterizerDescToDX(desc) ==
    [AntialiasedLineEnable |-> desc.antialiasedLineEnable,
     ConservativeRaster |-> IF desc.useConservativeRaster THEN "ON" ELSE "OFF",
     CullMode |-> CullModeToDX(desc.cullMode), FillMode |-> FillModeToDX(desc.fillMode),
     DepthBias |-> desc.depthBias, DepthBiasClamp |-> desc.depthBiasClamp,
     SlopeScaledDepthBias |-> desc.slopeScaledDepthBias,
     DepthClipEnable |-> desc.depthClipEnable,
     ForcedSampleCount |-> desc.forcedSampleCount,
     FrontCounterClockwise |-> desc.frontCCW,
     MultisampleEnable |-> desc.multisampleEnable]

-----------------------------------------------------------------------------
\* The defaults the constructors of the API's descriptions give (public/
\* definition.cpp).  They leave uninitialised: antialiasedLineEnable, backFunc,
\* the formats, numRenderTargets, topology.
DefaultTarget ==
    [blendEnable |-> FALSE, logicOpEnable |-> FALSE, srcBlend |-> "ONE",
     destBlend |-> "ZERO", blendOp |-> "ADD", srcBlendAlpha |-> "ONE",
     destBlendAlpha |-> "ZERO", blendOpAlpha |-> "ADD", logicOp |-> "NOOP",
     renderTargetWriteMask |-> 15]   \* ALL

DefaultBlend == [alphaToCoverageEnable |-> FALSE, independentBlendEnable |-> FALSE,
                 renderTarget |-> [i \in Targets |-> DefaultTarget]]

DefaultStencilOp == [fail |-> "KEEP", depthFail |-> "KEEP", pass |-> "KEEP",
                     func |-> "ALWAYS"]

DefaultDepthStencil ==
    [depthEnable |-> TRUE, depthMaskEnable |-> TRUE, depthFunc |-> "LESS",
     stencilEnable |-> FALSE, stencilReadMask |-> 255, stencilWriteMask |-> 255,
     frontFace |-> DefaultStencilOp, backFace |-> DefaultStencilOp]

DefaultRasterizer(garbage) ==
    [fillMode |-> "SOLID", cullMode |-> "BACK", frontCCW |-> FALSE,
     depthBias |-> 0, depthBiasClamp |-> 0, slopeScaledDepthBias |-> 0,
     depthClipEnable |-> TRUE, multisampleEnable |-> FALSE,
     antialiasedLineEnable |-> garbage,
     forcedSampleCount |-> 0, useConservativeRaster |-> FALSE]

DefaultMultiSample == [count |-> 1, quality |-> 0]
=============================================================================
