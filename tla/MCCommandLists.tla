--------------------------- MODULE MCCommandLists ---------------------------
(***************************************************************************)
(* An instance of CommandLists for TLC: the commands of the sample (draw   *)
(* to the default target; copy it to a texture) and some it does not use.  *)
(***************************************************************************)
EXTENDS CommandLists, TLC

CONSTANTS Texture, Buffer

Desc(target, priority, seq) == [target |-> target, priority |-> priority, calls |-> seq]
Clear == [op |-> "CLEAR_COLOR"]
Set(id) == [op |-> "SET_BUFFER", id |-> id]
SetConstant == [op |-> "SET_ROOT_SIGNATURE_CONSTANT_BUFFER"]
Copy(src, dst) == [op |-> "COPY_REGION_TEXTURE2D", src |-> src, dst |-> dst]

MCDescs == {Desc(Default, 0, <<SetConstant, Clear, Set(Buffer)>>),
            Desc(Default, 1, <<Copy(Default, Texture)>>),
            Desc(Texture, 0, <<Set(Buffer)>>)}
Symmetry == Permutations(Workers)
MCTextures == {Texture}
MCBuffers == {Buffer}
=============================================================================
