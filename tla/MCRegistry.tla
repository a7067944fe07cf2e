----------------------------- MODULE MCRegistry -----------------------------
(* A key a of a root, with two sub keys b and c. *)
EXTENDS RegistryIsolation

CONSTANTS r, a, b, c, i, h, w

MCSymmetry == Permutations(Procs)

R == <<r>>
A == <<r, a>>
B == <<r, a, b>>
C == <<r, a, c>>
MCKeys == {R, A, B, C}

Layer(f) == [k \in Keys |-> IF k \in DOMAIN f THEN f[k] ELSE IF k = R THEN Bare ELSE Absent]
Nothing  == Layer(<<>>)
Whole(d) == Layer((A :> d) @@ (B :> d) @@ (C :> Bare))
NoMarks  == [key |-> {}, value |-> {}]
\* An earlier run deleted a value of the root, so that the store exists.
AMark    == [key |-> {}, value |-> {R}]

Start(s, im, ho, mode, listed, mk) ==
    [state |-> s, image |-> im, host |-> ho, mode |-> mode, listed |-> listed, marks |-> mk,
     store |-> mk # NoMarks]
\* Packed or empty, over a host which holds the keys or does not.
StartsOf(modes, listed, mk) ==
    {Start(Nothing, im, ho, m, l, mk) :
        im \in {Nothing, Whole(i)}, ho \in {Nothing, Whole(h)}, m \in modes, l \in listed}
Copied == R :> "WriteCopy"
Merged == R :> "Merge"
\* Merged sub keys of a copied key, and a hidden one below a merged one.
Mixed  == {Copied @@ (B :> "Merge") @@ (C :> "Merge"), Merged @@ (B :> "Hide")}
\* A sandbox of earlier runs, whose store exists, and a fresh one.
MCStarts ==
    StartsOf({Copied, Merged} \cup Mixed, {{}}, AMark) \cup StartsOf({Merged}, {{A}}, AMark)
    \cup StartsOf({Copied, Merged}, {{}}, NoMarks)
\* A merged key beside a copied one, whose name it may get.
SplitStarts == StartsOf({(R :> "WriteCopy") @@ (B :> "Merge")}, {{}, {A}}, AMark)
\* A copied key below ones whose host is hidden.
D == <<r, a, b, c>>
DeepKeys == {R, A, B, D}
DeepStarts ==
    {Start(Nothing, Nothing, Layer([k \in DeepKeys \ {R} |-> h]),
           (R :> "Merge") @@ (A :> "Full") @@ (D :> "WriteCopy"), {}, AMark)}

Named(call, ks, ws) == [call : {call}, key : ks, write : ws]
MCRequests ==
    Named("open", {A, B}, {TRUE}) \cup Named("create", {B, C}, {TRUE})
    \cup [call : {"set"}, data : {w}] \cup [call : {"unset", "delete"}] \cup [call : {"rename"}, to : {C}]
DeepRequests == Named("open", {D}, {TRUE}) \cup Named("create", {A}, {TRUE}) \cup [call : {"delete"}]
=============================================================================
