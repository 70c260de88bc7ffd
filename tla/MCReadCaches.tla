----------------------------- MODULE MCReadCaches -----------------------------
(***************************************************************************)
(* Model-checking instance of what a process keeps of the committed graph: *)
(* the readers' caches, the vector index, or the snapshot and its cache    *)
(* file.  A behaviour uses one of the three.                               *)
(***************************************************************************)
EXTENDS ReadCaches, VectorIndex, CsrFile

\* Label calls and statements share nothing but the writer.
Apart == {{"scan", "scanBits", "label"}, {"statement", "materialize", "edge"}}

-----------------------------------------------------------------------------
(* Embeddings: three on one line, one of another dimension, one refused. *)

Disk(next, vectors, config) == [alive |-> 1 .. next - 1, next |-> next, vectors |-> vectors, config |-> config]
MCDisks == {
    Disk(3, <<>>, Unset),
    Disk(4, <<<<1>>, <<3>>, <<-1>>>>, Unset),
    Disk(4, <<<<3>>, <<1>>>>, Opts("l2", "int8")) }

Near(k, rescore) == SearchOf(<<2>>, k, FALSE, rescore)
MCMenus == {
    {UpsertOf(1, <<3>>), UpsertOf(1, <<-1>>), RemoveOf(1), Near(1, 0)},
    {UpsertOf(2, <<3, 4>>), UpsertOf(2, <<NotFinite>>), RemoveOf(1), ConfigureOf(Opts("dot", "float32")),
     SearchOf(<<4, 3>>, 1, FALSE, 0)},
    {UpsertOf(1, <<3>>), ReindexOf(Opts("l2", "float32")), ReindexOf(Opts("dot", "int8")), Near(1, 2)},
    {RemoveOf(1), Near(2, 0), SearchOf(<<2>>, 1, TRUE, 0)} }

-----------------------------------------------------------------------------
VARIABLE part

CachesInit ==
    /\ Init /\ VecInit /\ FileInit
    /\ part \in {"readers", "vectors", "file"}
    /\ part # "readers" => calls = CHOOSE w \in Workloads : TRUE
    /\ part # "vectors" => /\ disk = CHOOSE d \in Disks : TRUE
                          /\ used.menu = CHOOSE s \in Menus : TRUE

CachesNext ==
    \/ part = "readers" /\ Next /\ UNCHANGED <<vecVars, fileVars, part>>
    \/ part = "vectors" /\ VecNext /\ UNCHANGED <<vars, fileVars, part>>
    \/ part = "file" /\ FileNext /\ UNCHANGED <<vars, vecVars, part>>

CachesSpec == CachesInit /\ [][CachesNext]_<<vars, vecVars, fileVars, part>>

Symmetry == Permutations(Threads) \cup Permutations(Callers)
=============================================================================
