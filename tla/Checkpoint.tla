----------------------------- MODULE Checkpoint -----------------------------
(***************************************************************************)
(* Opening and loading a checkpoint: the shards of gb10-core's safetensors *)
(* reader, found by the index file or by listing the directory, and the    *)
(* Store of gb10-model that uploads the tensors a model is made of.        *)
(*                                                                         *)
(* A payload is identified by the file and the tensor it is the bytes of.  *)
(* The reader maps files and keeps, per name, the number of the shard and  *)
(* the header's record; it trusts neither the map nor the record's sizes   *)
(* before a tensor is read.                                                *)
(***************************************************************************)
EXTENDS Integers, SequencesExt

CONSTANTS
    Disks,      \* the checkpoints explored: [map, files, bad], see DiskAssumption
    FileOrder,  \* every file name, sorted
    NameOrder,  \* every tensor name, sorted; a name is <<module, suffix>>
    Wanted,     \* what the model loads, in order: [kind, module]
    Group,      \* elements that share an NVFP4 scale: 16
    NoIndex     \* a checkpoint without model.safetensors.index.json

Width == [U8 |-> 1, F8_E4M3 |-> 1, BF16 |-> 2, F32 |-> 4]
\* A file is its header's records by name; Shard::open turns down the bad ones.
ASSUME DiskAssumption ==
    /\ Group \in Nat \ {0}
    /\ Wanted \in Seq(Range(Wanted))
    /\ \A w \in Range(Wanted) : w.kind \in {"linear", "vector"}
    /\ \A d \in Disks :
         /\ DOMAIN d.files \subseteq Range(FileOrder) /\ d.bad \subseteq DOMAIN d.files
         /\ d.map = NoIndex \/ (DOMAIN d.map \subseteq Range(NameOrder)
                                /\ Range(d.map) \subseteq Range(FileOrder))
         /\ \A f \in DOMAIN d.files : \A t \in DOMAIN d.files[f] :
                LET info == d.files[f][t]
                IN /\ t \in Range(NameOrder) /\ info.dtype \in DOMAIN Width
                   /\ info.shape \in Seq(Nat \ {0}) /\ info.nbytes \in Nat

VARIABLES
    disk,    \* the checkpoint
    shards,  \* ShardedSafeTensors::shards: the files mapped, by number from 1
    index,   \* ShardedSafeTensors::index: name -> [shard, info]
    todo,    \* names of the map, or files, still to visit
    wanted,  \* what is still to be loaded
    model    \* module -> what was uploaded for it

checkpointVars == <<disk, shards, index, todo, wanted, model>>

OpenInit ==
    /\ disk \in Disks
    /\ shards = << >>
    /\ index = << >>
    /\ todo = IF disk.map = NoIndex THEN SelectSeq(FileOrder, LAMBDA f : f \in DOMAIN disk.files)
              ELSE SelectSeq(NameOrder, LAMBDA t : t \in DOMAIN disk.map)
    /\ wanted = Wanted
    /\ model = << >>

-----------------------------------------------------------------------------
(* ShardedSafeTensors::open                                                 *)

\* Shard::open: the file exists and its header is sound.
Opens(f) == f \in DOMAIN disk.files \ disk.bad

NumberOfNext == Len(shards) + 1

\* A build that keeps the record of the shard that had the name first.
IndexKeepsRecords(f) ==
    [t \in DOMAIN index \union DOMAIN disk.files[f] |->
        IF t \notin DOMAIN disk.files[f] THEN index[t]
        ELSE [shard |-> NumberOfNext,
              info |-> IF t \in DOMAIN index THEN index[t].info ELSE disk.files[f][t]]]

\* The index with the tensors of f, which take the place of others of their names.
IndexWith(f) ==
    [t \in DOMAIN index \union DOMAIN disk.files[f] |->
        IF t \in DOMAIN disk.files[f] THEN [shard |-> NumberOfNext, info |-> disk.files[f][t]]
        ELSE index[t]]

OpenShard(f) == Opens(f) /\ shards' = Append(shards, f) /\ index' = IndexWith(f)
Stay == UNCHANGED <<shards, index>>

\* A name of the map: its file is opened unless it was, and the name must then be
\* in the index, from whichever shard.
VisitName ==
    /\ disk.map # NoIndex
    /\ todo # << >>
    /\ LET f == disk.map[Head(todo)]
       IN IF f \in Range(shards) THEN Stay ELSE OpenShard(f)
    /\ Head(todo) \in DOMAIN index'
    /\ todo' = Tail(todo)
    /\ UNCHANGED <<disk, wanted, model>>

\* Without an index file, every shard of the directory.
VisitFile ==
    /\ disk.map = NoIndex
    /\ todo # << >>
    /\ OpenShard(Head(todo))
    /\ todo' = Tail(todo)
    /\ UNCHANGED <<disk, wanted, model>>

\* A directory without shards is refused.
Opened == todo = << >> /\ (disk.map = NoIndex => shards # << >>)

-----------------------------------------------------------------------------
(* Store                                                                    *)

Has(t) == t \in DOMAIN index
Info(t) == index[t].info
Numel(info) ==
    LET product[i \in 0 .. Len(info.shape)] ==
          IF i = 0 THEN 1 ELSE product[i - 1] * info.shape[i]
    IN product[Len(info.shape)]

\* tensor_bytes: the record's length is that of its shape.
SizeOk(t) == Numel(Info(t)) * Width[Info(t).dtype] = Info(t).nbytes

\* A build that uploads what the header says without comparing sizes.
ReadableUnsized(t) == Has(t)
Readable(t) == Has(t) /\ SizeOk(t)
Payload(t) == [file |-> shards[index[t].shard], tensor |-> t, nbytes |-> Info(t).nbytes]

ReadableAs(t, dtype) == Readable(t) /\ Info(t).dtype = dtype

Weight(m) == <<m, "weight">>
Scale(m) == <<m, "weight_scale">>
Scale2(m) == <<m, "weight_scale_2">>

\* The columns of a matrix: of a packed one, only the scales' shape tells.
Columns(m) ==
    IF Info(Weight(m)).dtype = "U8" THEN Info(Scale(m)).shape[2] * Group
    ELSE (Payload(Weight(m)).nbytes \div Width[Info(Weight(m)).dtype]) \div Info(Weight(m)).shape[1]

\* A build that does not hold the packed width against the scales.
NvFp4UncheckedOk(m) ==
    /\ Has(Scale(m)) /\ Len(Info(Scale(m)).shape) = 2
    /\ Readable(Weight(m)) /\ Readable(Scale(m)) /\ ReadableAs(Scale2(m), "F32")
\* Two values to a byte, a scale for every Group of a row.
NvFp4Ok(m) ==
    /\ Has(Scale(m)) /\ Len(Info(Scale(m)).shape) = 2
    /\ Info(Weight(m)).shape[2] = Columns(m) \div 2
    /\ Readable(Weight(m)) /\ Readable(Scale(m)) /\ ReadableAs(Scale2(m), "F32")

Fp8Ok(m) == Readable(Weight(m)) /\ ReadableAs(Scale(m), "F32")

\* Store::linear accepts the matrix.
LinearOk(m) ==
    /\ Has(Weight(m))
    /\ Len(Info(Weight(m)).shape) = 2
    /\ CASE Info(Weight(m)).dtype = "U8" -> NvFp4Ok(m)
         [] Info(Weight(m)).dtype = "F8_E4M3" -> Fp8Ok(m)
         [] Info(Weight(m)).dtype = "BF16" -> Readable(Weight(m))
         [] OTHER -> FALSE

Linear(m) ==
    [dtype |-> Info(Weight(m)).dtype, n |-> Info(Weight(m)).shape[1], k |-> Columns(m),
     w |-> Payload(Weight(m)),
     scales |-> CASE Info(Weight(m)).dtype = "U8" -> {Payload(Scale(m)), Payload(Scale2(m))}
                  [] Info(Weight(m)).dtype = "F8_E4M3" -> {Payload(Scale(m))}
                  [] OTHER -> {}]

\* bf16_f32, bf16_u16: norms, conv weights, the embedding.
VectorOk(m) == ReadableAs(Weight(m), "BF16")
Vector(m) == [dtype |-> "BF16", w |-> Payload(Weight(m)), scales |-> {}]

\* A build that goes on without a tensor the checkpoint lacks.
LoadIfThere ==
    /\ Opened
    /\ wanted # << >>
    /\ LET m == Head(wanted).module
       IN IF ~Has(Weight(m)) THEN UNCHANGED model
          ELSE /\ IF Head(wanted).kind = "linear" THEN LinearOk(m) ELSE VectorOk(m)
               /\ model' = [x \in DOMAIN model \union {m} |->
                             IF x # m THEN model[x]
                             ELSE IF Head(wanted).kind = "linear" THEN Linear(m) ELSE Vector(m)]
    /\ wanted' = Tail(wanted)
    /\ UNCHANGED <<disk, shards, index, todo>>

\* The next tensor or matrix of the model is uploaded.
Load ==
    /\ Opened
    /\ wanted # << >>
    /\ LET m == Head(wanted).module
       IN /\ IF Head(wanted).kind = "linear" THEN LinearOk(m) ELSE VectorOk(m)
          /\ model' = [x \in DOMAIN model \union {m} |->
                        IF x # m THEN model[x]
                        ELSE IF Head(wanted).kind = "linear" THEN Linear(m) ELSE Vector(m)]
    /\ wanted' = Tail(wanted)
    /\ UNCHANGED <<disk, shards, index, todo>>

Loaded == Opened /\ wanted = << >>

-----------------------------------------------------------------------------
Uploads(m) == {model[m].w} \union model[m].scales

\* What is uploaded for a tensor is that tensor of a shard that stores it, all of it:
\* the numbers of the shards and the records of the index never part, whichever
\* shards were opened, in whatever order and with whatever names in common.
OwnPayload ==
    \A m \in DOMAIN model : \A u \in Uploads(m) :
        /\ Opens(u.file) /\ u.tensor \in DOMAIN disk.files[u.file]
        /\ u.nbytes = disk.files[u.file][u.tensor].nbytes
        /\ u.nbytes = Numel(disk.files[u.file][u.tensor]) * Width[disk.files[u.file][u.tensor].dtype]

\* The kernels read n rows of k elements from a matrix's weights: the k recovered
\* from the file makes them exactly the bytes uploaded, for each of the three formats.
OperandsCover ==
    \A m \in DOMAIN model : "k" \in DOMAIN model[m] =>
        LET l == model[m]
        IN l.w.nbytes = IF l.dtype = "U8" THEN l.n * (l.k \div 2) ELSE l.n * l.k * Width[l.dtype]
=============================================================================
