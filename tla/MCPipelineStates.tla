-------------------------- MODULE MCPipelineStates --------------------------
(***************************************************************************)
(* Instances of PipelineStates for TLC.  Sample(k) gives every field a     *)
(* value that depends on k and on the field, so that a few samples show    *)
(* each value of each enumeration and differ in any two fields of one      *)
(* type.                                                                   *)
(***************************************************************************)
EXTENDS PipelineStates

CONSTANTS Signature, Layout

Nth(enum, k) == enum[1 + (k % Len(enum))]
Bit(k, i) == (k + i) % 2 = 0

Target(k) ==
    [blendEnable |-> Bit(k, 0), logicOpEnable |-> Bit(k, 1), srcBlend |-> Nth(EBlend, k),
     destBlend |-> Nth(EBlend, k + 1), blendOp |-> Nth(EBlendOp, k),
     srcBlendAlpha |-> Nth(EBlend, k + 2), destBlendAlpha |-> Nth(EBlend, k + 3),
     blendOpAlpha |-> Nth(EBlendOp, k + 1), logicOp |-> Nth(ELogicOp, k),
     renderTargetWriteMask |-> k]

Stencil(k) == [fail |-> Nth(EStencilOp, k), depthFail |-> Nth(EStencilOp, k + 1),
               pass |-> Nth(EStencilOp, k + 2), func |-> Nth(ECompFunc, k)]

Sample(k) ==
    [rootSignature |-> Signature, inputLayout |-> Layout,
     blendState |-> [alphaToCoverageEnable |-> Bit(k, 0), independentBlendEnable |-> Bit(k, 1),
                     renderTarget |-> [i \in Targets |-> Target(6 * k + i)]],
     depthStencilState |->
        [depthEnable |-> Bit(k, 0), depthMaskEnable |-> Bit(k, 1),
         depthFunc |-> Nth(ECompFunc, k + 4), stencilEnable |-> Bit(k, 1),
         stencilReadMask |-> 1, stencilWriteMask |-> 2,
         frontFace |-> Stencil(2 * k), backFace |-> Stencil(2 * k + 1)],
     rasterizerState |->
        [fillMode |-> Nth(EFillMode, k), cullMode |-> Nth(ECullMode, k),
         frontCCW |-> Bit(k, 0), depthBias |-> 1, depthBiasClamp |-> 2,
         slopeScaledDepthBias |-> 3, depthClipEnable |-> Bit(k, 1),
         multisampleEnable |-> Bit(k, 0), antialiasedLineEnable |-> Bit(k \div 2, 0),
         forcedSampleCount |-> 4, useConservativeRaster |-> Bit(k \div 2, 1)],
     multiSampleState |-> [count |-> 1, quality |-> 2], sampleMask |-> 3,
     numRenderTargets |-> 2, topology |-> Nth(ETopologyType, k + 3),
     formatRenderTarget |-> [i \in Targets |-> Nth(EFormat, k + i)],
     shaders |-> IF k % 2 = 0 THEN [t \in {"VERTEX", "PIXEL"} |-> t]
                              ELSE [t \in {"DOMAIN", "GEOMETRY", "HULL"} |-> t]]

\* What the sample application asks for (unittest/tests/01_simple_cube.cpp).
SimpleState ==
    [rootSignature |-> Signature, inputLayout |-> Layout,
     blendState |-> DefaultBlend,
     depthStencilState |-> [DefaultDepthStencil EXCEPT !.depthEnable = FALSE],
     rasterizerState |-> DefaultRasterizer(TRUE), multiSampleState |-> DefaultMultiSample,
     sampleMask |-> -1, numRenderTargets |-> 1, topology |-> "TRIANGLE",
     formatRenderTarget |-> [i \in Targets |-> IF i = 1 THEN "B8G8R8A8_UNORM"
                                                        ELSE "R16_UINT"],
     shaders |-> [t \in {"VERTEX", "PIXEL"} |-> t]]

MCSigs    == {Signature}
MCLayouts == {Layout}
MCDescs   == {Sample(1)}
MCSamples == {Sample(k) : k \in 0..15} \cup {SimpleState}
=============================================================================
