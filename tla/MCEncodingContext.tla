------------------------- MODULE MCEncodingContext -------------------------
(***************************************************************************)
(* Instances of EncodingContext for TLC: two buffers that passes share, or *)
(* a render target, a depth-stencil texture and a texture for the rest.    *)
(***************************************************************************)
EXTENDS EncodingContext

CONSTANTS x, y, rt, ds, tex

NoPlanes == [r \in Resources |-> {}]
Nothings == {{}}

TexturePlanes ==
  [r \in Resources |-> CASE r = rt -> {"rt"} [] r = ds -> {"depth", "stencil"}
                         [] r = tex -> {"tex"}]
AllPlanes == {"rt", "depth", "stencil", "tex"}
Targets == {{"rt"}, {"rt", "depth", "stencil"}}
Readonly == {{}, {"depth", "stencil"}}
Clears == {{"rt"}, {"depth"}, {"depth", "stencil"}}
ResolveTo == {<<"rt", "tex">>}
PresentFrom == {<<tex, None>>}

Symmetry == Permutations({x, y})
=============================================================================
