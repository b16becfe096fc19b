--------------------------- MODULE Startup_proofs ---------------------------
(***************************************************************************)
(* Theorems about Admission, for every budget, window and cap, and about   *)
(* Startup, for every set of checkpoints a server may find.                *)
(***************************************************************************)
EXTENDS Startup, TLAPS

\* The products that resolve_concurrency computes do not wrap.
NoWrap == MaxPositions * MaxRequested < Word

SizeInv ==
    /\ TypeOK
    /\ requested \in 0 .. MaxRequested \union {None}
    /\ phase = "parsed" => requested # 0
    /\ FitsBudget

LEMMA SmallProduct ==
    ASSUME NEW p \in Nat, NEW q \in Nat, NEW x \in 0 .. p, NEW y \in 0 .. q
    PROVE  x * y \in Nat /\ x * y <= p * q
<1>1. x * y <= p * y
  BY SMT
<1>2. p * y <= p * q
  BY SMT
<1>3. x * y \in Nat /\ p * y \in Nat /\ p * q \in Nat
  BY SMT
<1> QED BY <1>1, <1>2, <1>3

LEMMA AutoFits ==
    ASSUME ctx \in 2 .. MaxPositions
    PROVE  /\ AutoSlots \in 1 .. MaxConcurrent
           /\ ctx * AutoSlots <= BudgetRows
           /\ AutoSlots < MaxConcurrent => ctx * (AutoSlots + 1) > BudgetRows
<1> DEFINE fit == BudgetRows \div ctx
<1>1. fit \in Int /\ ctx * fit <= BudgetRows /\ BudgetRows < ctx * (fit + 1)
  BY AdmissionAssumption, SMT
<1>2. fit >= 1
  BY AdmissionAssumption, <1>1, SMT
<1>3. CASE fit > MaxConcurrent
  <2>1. AutoSlots = MaxConcurrent
    BY <1>3 DEF AutoSlots
  <2>2. ctx * MaxConcurrent <= ctx * fit
    BY <1>1, <1>3, AdmissionAssumption, SMT
  <2> QED BY <1>1, <2>1, <2>2, AdmissionAssumption
<1>4. CASE ~(fit > MaxConcurrent)
  <2>1. AutoSlots = fit
    BY <1>1, <1>2, <1>4, AdmissionAssumption DEF AutoSlots
  <2> QED BY <1>1, <1>2, <1>4, <2>1, AdmissionAssumption
<1> QED BY <1>3, <1>4

LEMMA SizeStep ==
    ASSUME NoWrap, SizeInv, [Next]_vars
    PROVE  SizeInv'
<1>1. CASE Parse
  <2>1. /\ phase' \in {"parsed", "refused"} /\ ctx \in Nat
        /\ UNCHANGED <<ctx, requested, nSeq>>
        /\ phase' = "parsed" => ctx >= 2 /\ ctx <= MaxPositions /\ requested # 0
    BY <1>1, AdmissionAssumption DEF SizeInv, TypeOK, Parse
  <2>2. phase' = "parsed" => ctx \in 2 .. MaxPositions
    BY <2>1, AdmissionAssumption
  <2> QED BY <2>1, <2>2 DEF SizeInv, TypeOK, Phases, FitsBudget
<1>2. CASE resolve_concurrency
  <2>1. ctx \in 2 .. MaxPositions
    BY <1>2 DEF SizeInv, TypeOK, resolve_concurrency
  <2>2. CASE requested = None
    <3>1. AutoSlots \in 1 .. MaxConcurrent /\ ctx * AutoSlots <= BudgetRows
          /\ (AutoSlots < MaxConcurrent => ctx * (AutoSlots + 1) > BudgetRows)
      BY <2>1, AutoFits
    <3>2. nSeq' = AutoSlots /\ phase' = "serving" /\ ctx' = ctx /\ requested' = requested
      BY <1>2, <2>2 DEF resolve_concurrency
    <3> QED BY <2>1, <2>2, <3>1, <3>2, AdmissionAssumption DEF SizeInv, TypeOK, Phases, FitsBudget
  <2>3. CASE requested # None
    <3>1. requested \in 0 .. MaxRequested
      BY <2>3 DEF SizeInv
    <3>2. ctx * requested \in Nat /\ ctx * requested < Word
      <4>1. ctx * requested \in Nat /\ ctx * requested <= MaxPositions * MaxRequested
        BY <2>1, <3>1, SmallProduct, AdmissionAssumption
      <4>2. MaxPositions * MaxRequested \in Int
        BY AdmissionAssumption
      <4> QED BY <4>1, <4>2, AdmissionAssumption DEF NoWrap
    <3>3. Bytes(requested) = ctx * requested
      BY <3>2, AdmissionAssumption DEF Bytes
    <3>4. /\ phase' \in {"serving", "refused"} /\ UNCHANGED <<ctx, requested>>
          /\ phase' = "serving" => nSeq' = requested /\ ctx * requested <= BudgetRows
          /\ nSeq' \in Nat
      BY <1>2, <2>3, <3>1, <3>3 DEF SizeInv, TypeOK, resolve_concurrency
    <3>5. requested # 0
      BY <1>2 DEF SizeInv, TypeOK, resolve_concurrency
    <3> QED BY <2>1, <2>3, <3>1, <3>4, <3>5 DEF SizeInv, TypeOK, Phases, FitsBudget
  <2> QED BY <2>2, <2>3
<1>3. CASE UNCHANGED vars
  BY <1>3 DEF SizeInv, TypeOK, FitsBudget, vars
<1> QED BY <1>1, <1>2, <1>3 DEF Next

\* A server that starts has its cache within the budget, for every window, cap
\* and budget, as long as the requested product does not overflow.
THEOREM StartsWithinBudget ==
    ASSUME NoWrap
    PROVE  Spec => []FitsBudget
<1>1. Init => SizeInv
  BY AdmissionAssumption DEF Init, SizeInv, TypeOK, Phases, FitsBudget
<1>2. SizeInv /\ [Next]_vars => SizeInv'
  BY SizeStep
<1>3. SizeInv => FitsBudget
  BY DEF SizeInv
<1> QED BY <1>1, <1>2, <1>3, PTL DEF Spec

-----------------------------------------------------------------------------
(* The checkpoint                                                           *)

\* Bytes that are a stored tensor, whole: what OwnPayload says of each upload.
Stored(u) ==
    /\ Opens(u.file) /\ u.tensor \in DOMAIN disk.files[u.file]
    /\ u.nbytes = disk.files[u.file][u.tensor].nbytes
    /\ u.nbytes = Numel(disk.files[u.file][u.tensor]) * Width[disk.files[u.file][u.tensor].dtype]

Covers(l) ==
    "k" \in DOMAIN l =>
        l.w.nbytes = IF l.dtype = "U8" THEN l.n * (l.k \div 2) ELSE l.n * l.k * Width[l.dtype]

\* A shard number and the record it is read with come from one and the same file,
\* a name in the index is one that file has, and of the model exactly the first
\* entries of Wanted are there, each sound by itself.
ReaderInv ==
    /\ disk \in Disks
    /\ shards \in Seq(DOMAIN disk.files \ disk.bad)
    /\ \A t \in DOMAIN index :
         /\ index[t].shard \in 1 .. Len(shards)
         /\ t \in DOMAIN disk.files[shards[index[t].shard]]
         /\ index[t].info = disk.files[shards[index[t].shard]][t]

LoadedSoFar ==
    \E k \in 0 .. Len(Wanted) :
        /\ wanted = SubSeq(Wanted, k + 1, Len(Wanted))
        /\ DOMAIN model = {Wanted[i].module : i \in 1 .. k}

UploadsInv == \A m \in DOMAIN model : (\A u \in Uploads(m) : Stored(u)) /\ Covers(model[m])

CheckpointInv == ReaderInv /\ LoadedSoFar /\ UploadsInv

LEMMA NumelOfTwo ==
    ASSUME NEW info, info.shape \in Seq(Nat \ {0}), Len(info.shape) = 2
    PROVE  Numel(info) = info.shape[1] * info.shape[2]
<1> DEFINE s == info.shape
           Eqn(p) == p = [i \in 0 .. Len(s) |-> IF i = 0 THEN 1 ELSE p[i - 1] * s[i]]
           g == [i \in 0 .. 2 |-> IF i = 0 THEN 1 ELSE IF i = 1 THEN 1 * s[1] ELSE (1 * s[1]) * s[2]]
           f == CHOOSE p : Eqn(p)
<1>1. Eqn(g)
  <2>1. \A i \in 0 .. 2 : g[i] = IF i = 0 THEN 1 ELSE g[i - 1] * s[i]
    OBVIOUS
  <2> QED BY <2>1
<1>2. Eqn(f)
  BY <1>1
<1>3. f[0] = 1 /\ f[1] = f[0] * s[1] /\ f[2] = f[1] * s[2]
  BY <1>2
<1>4. s[1] \in Nat /\ s[2] \in Nat
  OBVIOUS
<1>5. Numel(info) = f[2]
  BY DEF Numel
<1> QED BY <1>3, <1>4, <1>5
LEMMA RecordOf ==
    ASSUME ReaderInv, NEW t \in DOMAIN index
    PROVE  LET f == shards[index[t].shard]
           IN /\ Opens(f) /\ t \in DOMAIN disk.files[f]
              /\ Info(t) = disk.files[f][t]
              /\ Info(t).dtype \in DOMAIN Width
              /\ Info(t).shape \in Seq(Nat \ {0})
              /\ Info(t).nbytes \in Nat
<1> DEFINE f == shards[index[t].shard]
<1>1. index[t].shard \in 1 .. Len(shards) /\ f \in DOMAIN disk.files \ disk.bad
  BY DEF ReaderInv
<1>2. t \in DOMAIN disk.files[f] /\ Info(t) = disk.files[f][t] /\ disk \in Disks
  BY DEF ReaderInv, Info
<1>3. Opens(f)
  BY <1>1 DEF Opens
<1>4. /\ disk.files[f][t].dtype \in DOMAIN Width
      /\ disk.files[f][t].shape \in Seq(Nat \ {0}) /\ disk.files[f][t].nbytes \in Nat
  BY <1>1, <1>2, DiskAssumption
<1> QED BY <1>2, <1>3, <1>4

\* What is read of a tensor in the index is a stored tensor.
LEMMA PayloadStored ==
    ASSUME ReaderInv, NEW t, Readable(t)
    PROVE  Stored(Payload(t))
<1> DEFINE f == shards[index[t].shard]
<1>1. t \in DOMAIN index
  BY DEF Readable, Has
<1>2. Opens(f) /\ t \in DOMAIN disk.files[f] /\ Info(t) = disk.files[f][t]
  BY <1>1, RecordOf
<1>3. /\ Payload(t).file = f /\ Payload(t).tensor = t /\ Payload(t).nbytes = Info(t).nbytes
  BY DEF Payload
<1>4. Info(t).nbytes = Numel(Info(t)) * Width[Info(t).dtype]
  BY DEF Readable, SizeOk
<1> HIDE DEF f
<1> QED BY <1>2, <1>3, <1>4 DEF Stored

\* Every part that linear and the readers of vectors return was readable.
LEMMA LinearStored ==
    ASSUME ReaderInv, NEW m, LinearOk(m)
    PROVE  Stored(Linear(m).w) /\ \A u \in Linear(m).scales : Stored(u)
<1>1. Readable(Weight(m))
  BY DEF LinearOk, NvFp4Ok, Fp8Ok
<1>2. Info(Weight(m)).dtype = "U8" => Readable(Scale(m)) /\ Readable(Scale2(m))
  BY DEF LinearOk, NvFp4Ok, ReadableAs
<1>3. Info(Weight(m)).dtype = "F8_E4M3" => Readable(Scale(m))
  BY DEF LinearOk, Fp8Ok, ReadableAs
<1>4. Linear(m).w = Payload(Weight(m))
  BY DEF Linear
<1>5. \A u \in Linear(m).scales :
        \/ Info(Weight(m)).dtype = "U8" /\ u \in {Payload(Scale(m)), Payload(Scale2(m))}
        \/ Info(Weight(m)).dtype = "F8_E4M3" /\ u = Payload(Scale(m))
  BY DEF Linear
<1> QED BY <1>1, <1>2, <1>3, <1>4, <1>5, PayloadStored

LEMMA DivideBack ==
    ASSUME NEW x \in Nat \ {0}, NEW y \in Nat \ {0}
    PROVE  (x * y) \div x = y
OBVIOUS

\* The width recovered from the file is that of the rows it stores.
LEMMA LinearCovers ==
    ASSUME ReaderInv, NEW m, LinearOk(m)
    PROVE  Covers(Linear(m))
<1> DEFINE i == Info(Weight(m))
           n == i.shape[1]
           c == i.shape[2]
<1>1. Weight(m) \in DOMAIN index /\ Len(i.shape) = 2
  BY DEF LinearOk, Has
<1>2. /\ i.dtype \in DOMAIN Width /\ i.shape \in Seq(Nat \ {0})
  BY <1>1, RecordOf
<1>3. n \in Nat \ {0} /\ c \in Nat \ {0} /\ Numel(i) = n * c
  BY <1>1, <1>2, NumelOfTwo
<1>4. Readable(Weight(m))
  BY DEF LinearOk, NvFp4Ok, Fp8Ok
<1>5. i.nbytes = (n * c) * Width[i.dtype]
  BY <1>3, <1>4 DEF Readable, SizeOk
<1>6. /\ Linear(m).w.nbytes = i.nbytes /\ Linear(m).dtype = i.dtype
      /\ Linear(m).n = n /\ Linear(m).k = Columns(m)
  BY DEF Linear, Payload
<1>7. CASE i.dtype = "U8"
  <2>1. c = Columns(m) \div 2
    BY <1>7 DEF LinearOk, NvFp4Ok
  <2>2. Width[i.dtype] = 1
    BY <1>7 DEF Width
  <2>3. i.nbytes = n * c
    BY <1>3, <1>5, <2>2
  <2> HIDE DEF i, n, c
  <2> QED BY <1>6, <1>7, <2>1, <2>3 DEF Covers
<1>8. CASE i.dtype # "U8"
  <2>1. i.dtype \in {"F8_E4M3", "BF16"}
    BY <1>8 DEF LinearOk
  <2>2. Width[i.dtype] \in {1, 2}
    BY <2>1 DEF Width
  <2>3. n * c \in Nat \ {0} /\ (n * c) \div n = c
    BY <1>3, DivideBack
  <2>4. ((n * c) * Width[i.dtype]) \div Width[i.dtype] = n * c
    BY <2>2, <2>3
  <2>5. Columns(m) = c
    BY <1>5, <1>8, <2>3, <2>4 DEF Columns, Payload
  <2> HIDE DEF i, n, c
  <2> QED BY <1>5, <1>6, <1>8, <2>5 DEF Covers
<1> QED BY <1>7, <1>8

LEMMA VectorSound ==
    ASSUME ReaderInv, NEW m, VectorOk(m)
    PROVE  Stored(Vector(m).w) /\ Vector(m).scales = {} /\ Covers(Vector(m))
<1>1. Readable(Weight(m))
  BY DEF VectorOk, ReadableAs
<1>2. Stored(Payload(Weight(m)))
  BY <1>1, PayloadStored
<1>3. Vector(m).w = Payload(Weight(m)) /\ Vector(m).scales = {} /\ "k" \notin DOMAIN Vector(m)
  BY DEF Vector
<1> QED BY <1>2, <1>3 DEF Covers

\* A shard more: the index still tells of every name the file it was taken from.
LEMMA OpenShardKeeps ==
    ASSUME ReaderInv, NEW f, OpenShard(f), UNCHANGED disk
    PROVE  ReaderInv'
<1> DEFINE D == DOMAIN disk.files \ disk.bad
<1>1. f \in D /\ shards' = Append(shards, f) /\ index' = IndexWith(f) /\ disk' = disk
  BY DEF OpenShard, Opens
<1>2. /\ shards \in Seq(D) /\ Len(shards) \in Nat /\ disk \in Disks
  BY DEF ReaderInv
<1>3. /\ shards' \in Seq(D) /\ Len(shards') = Len(shards) + 1
      /\ shards'[Len(shards) + 1] = f
      /\ \A i \in 1 .. Len(shards) : shards'[i] = shards[i]
  <2> HIDE DEF D
  <2> QED BY <1>1, <1>2
<1>4. ASSUME NEW t \in DOMAIN index'
      PROVE  /\ index'[t].shard \in 1 .. Len(shards')
             /\ t \in DOMAIN disk.files[shards'[index'[t].shard]]
             /\ index'[t].info = disk.files[shards'[index'[t].shard]][t]
  <2>1. CASE t \in DOMAIN disk.files[f]
    <3>1. index'[t] = [shard |-> Len(shards) + 1, info |-> disk.files[f][t]]
      BY <1>1, <2>1 DEF IndexWith, NumberOfNext
    <3> QED BY <1>2, <1>3, <2>1, <3>1
  <2>2. CASE t \notin DOMAIN disk.files[f]
    <3>1. t \in DOMAIN index /\ index'[t] = index[t]
      BY <1>1, <2>2 DEF IndexWith
    <3>2. /\ index[t].shard \in 1 .. Len(shards)
          /\ t \in DOMAIN disk.files[shards[index[t].shard]]
          /\ index[t].info = disk.files[shards[index[t].shard]][t]
      BY <3>1 DEF ReaderInv
    <3>3. shards'[index[t].shard] = shards[index[t].shard]
      BY <1>3, <3>2
    <3> QED BY <1>2, <1>3, <3>1, <3>2, <3>3
  <2> QED BY <2>1, <2>2
<1> QED BY <1>1, <1>2, <1>3, <1>4 DEF ReaderInv

LEMMA StoredStays ==
    ASSUME UNCHANGED disk, NEW u, Stored(u)
    PROVE  Stored(u)'
BY DEF Stored, Opens
LEMMA ReaderStep ==
    ASSUME ReaderInv, VisitName \/ VisitFile
    PROVE  ReaderInv'
<1>1. UNCHANGED disk
  BY DEF VisitName, VisitFile
<1>2. CASE UNCHANGED <<shards, index>>
  BY <1>1, <1>2 DEF ReaderInv
<1>3. ASSUME NEW f, OpenShard(f)
      PROVE  ReaderInv'
  BY <1>1, <1>3, OpenShardKeeps
<1>4. UNCHANGED <<shards, index>> \/ \E f : OpenShard(f)
  BY DEF VisitName, VisitFile, Stay
<1> QED BY <1>2, <1>3, <1>4

\* Nothing is uploaded while shards are opened.
LEMMA VisitKeepsModel ==
    ASSUME CheckpointInv, VisitName \/ VisitFile
    PROVE  CheckpointInv'
<1>1. ReaderInv'
  BY ReaderStep DEF CheckpointInv
<1>2. UNCHANGED <<disk, wanted, model>>
  BY DEF VisitName, VisitFile
<1>3. LoadedSoFar'
  BY <1>2 DEF CheckpointInv, LoadedSoFar
<1>4. ASSUME NEW m \in DOMAIN model'
      PROVE  (\A u \in Uploads(m)' : Stored(u)') /\ Covers(model[m])'
  <2>1. m \in DOMAIN model /\ Uploads(m)' = Uploads(m) /\ model'[m] = model[m]
    BY <1>2, <1>4 DEF Uploads
  <2>2. \A u \in Uploads(m) : Stored(u)'
    BY <1>2, <2>1, StoredStays DEF CheckpointInv, UploadsInv
  <2>3. Covers(model[m])'
    BY <1>2, <2>1 DEF CheckpointInv, UploadsInv, Covers
  <2> QED BY <2>1, <2>2, <2>3
<1> QED BY <1>1, <1>3, <1>4 DEF CheckpointInv, UploadsInv

LEMMA CheckpointStays ==
    ASSUME CheckpointInv, UNCHANGED checkpointVars
    PROVE  CheckpointInv'
<1>1. UNCHANGED <<disk, shards, index, wanted, model>>
  BY DEF checkpointVars
<1>2. ReaderInv' /\ LoadedSoFar'
  BY <1>1 DEF CheckpointInv, ReaderInv, LoadedSoFar
<1>3. ASSUME NEW m \in DOMAIN model'
      PROVE  (\A u \in Uploads(m)' : Stored(u)') /\ Covers(model[m])'
  <2>1. \A u \in Uploads(m)' : Stored(u)
    BY <1>1 DEF Uploads, CheckpointInv, UploadsInv
  <2>2. Covers(model[m])'
    BY <1>1 DEF Covers, CheckpointInv, UploadsInv
  <2> QED BY <1>1, <2>1, <2>2, StoredStays
<1> QED BY <1>2, <1>3 DEF CheckpointInv, UploadsInv

LEMMA LoadKeeps ==
    ASSUME CheckpointInv, Load
    PROVE  CheckpointInv'
<1> DEFINE w == Head(wanted)
           x == IF w.kind = "linear" THEN Linear(w.module) ELSE Vector(w.module)
<1>1. /\ UNCHANGED <<disk, shards, index>>
      /\ wanted # << >> /\ wanted' = Tail(wanted)
      /\ IF w.kind = "linear" THEN LinearOk(w.module) ELSE VectorOk(w.module)
      /\ model' = [m \in DOMAIN model \union {w.module} |-> IF m # w.module THEN model[m] ELSE x]
  BY DEF Load
<1>2. ReaderInv'
  BY <1>1 DEF CheckpointInv, ReaderInv
<1>3. (\A u \in {x.w} \union x.scales : Stored(u)) /\ Covers(x)
  BY <1>1, LinearStored, LinearCovers, VectorSound DEF CheckpointInv
<1>4. UploadsInv'
  <2>1. ASSUME NEW m \in DOMAIN model'
        PROVE  (\A u \in Uploads(m)' : Stored(u)') /\ Covers(model[m])'
    <3>1. CASE m = w.module
      <4>1. model'[m] = x
        BY <1>1, <3>1
      <4>2. \A u \in Uploads(m)' : Stored(u)
        BY <1>3, <4>1 DEF Uploads
      <4>3. Covers(model[m])'
        BY <1>3, <4>1 DEF Covers
      <4> QED BY <1>1, <4>2, <4>3, StoredStays
    <3>2. CASE m # w.module
      <4>1. m \in DOMAIN model /\ model'[m] = model[m]
        BY <1>1, <2>1, <3>2
      <4>2. \A u \in Uploads(m)' : Stored(u)
        BY <4>1 DEF Uploads, CheckpointInv, UploadsInv
      <4>3. Covers(model[m])'
        BY <4>1 DEF Covers, CheckpointInv, UploadsInv
      <4> QED BY <1>1, <4>2, <4>3, StoredStays
    <3> QED BY <3>1, <3>2
  <2> QED BY <2>1 DEF UploadsInv
<1>5. LoadedSoFar'
  <2>1. PICK k \in 0 .. Len(Wanted) :
          /\ wanted = SubSeq(Wanted, k + 1, Len(Wanted))
          /\ DOMAIN model = {Wanted[i].module : i \in 1 .. k}
    BY DEF CheckpointInv, LoadedSoFar
  <2>2. Len(Wanted) \in Nat /\ Wanted \in Seq(Range(Wanted))
    BY DiskAssumption
  <2>3. k < Len(Wanted)
    BY <1>1, <2>1, <2>2
  <2>4. w = Wanted[k + 1] /\ wanted' = SubSeq(Wanted, k + 2, Len(Wanted))
    BY <1>1, <2>1, <2>2, <2>3
  <2>5. DOMAIN model' = {Wanted[i].module : i \in 1 .. k + 1}
    <3>1. 1 .. k + 1 = (1 .. k) \union {k + 1}
      BY <2>1
    <3>2. DOMAIN model' = DOMAIN model \union {w.module}
      BY <1>1
    <3> HIDE DEF w
    <3> QED BY <2>1, <2>4, <3>1, <3>2
  <2> HIDE DEF w, x
  <2>6. k + 1 \in 0 .. Len(Wanted) /\ k + 2 = (k + 1) + 1
    BY <2>2, <2>3
  <2> QED BY <2>4, <2>5, <2>6 DEF LoadedSoFar
<1> QED BY <1>2, <1>4, <1>5 DEF CheckpointInv

-----------------------------------------------------------------------------
(* The start                                                                *)

\* Slots are resolved, and connections accepted, only behind the whole load.
WholeBefore == (phase = "serving" \/ listening) => wanted = << >>

LoadInv == CheckpointInv /\ WholeBefore

LEMMA LoadFirst ==
    ASSUME StartInit
    PROVE  LoadInv
<1>1. ReaderInv
  <2>1. shards = << >> /\ index = << >> /\ disk \in Disks
    BY DEF StartInit, OpenInit
  <2> QED BY <2>1 DEF ReaderInv
<1>2. LoadedSoFar /\ UploadsInv
  <2>1. wanted = Wanted /\ model = << >>
    BY DEF StartInit, OpenInit
  <2>2. Wanted = SubSeq(Wanted, 0 + 1, Len(Wanted)) /\ Len(Wanted) \in Nat
    BY DiskAssumption
  <2>3. DOMAIN model = {Wanted[i].module : i \in 1 .. 0}
    BY <2>1
  <2> QED BY <2>1, <2>2, <2>3 DEF LoadedSoFar, UploadsInv
<1> QED BY <1>1, <1>2 DEF LoadInv, CheckpointInv, WholeBefore, StartInit, Init

LEMMA LoadInvStep ==
    ASSUME LoadInv, [StartNext]_startVars
    PROVE  LoadInv'
<1> USE DEF LoadInv
<1>1. CASE ParseArgs
  <2>1. UNCHANGED <<checkpointVars, listening>> /\ phase = "args" /\ phase' # "serving"
    BY <1>1 DEF ParseArgs, Parse
  <2>2. CheckpointInv'
    BY <2>1, CheckpointStays
  <2> QED BY <2>1, <2>2 DEF WholeBefore, checkpointVars
<1>2. CASE LoadStep
  <2>1. CheckpointInv'
    BY <1>2, VisitKeepsModel, LoadKeeps DEF LoadStep
  <2>2. phase' = "parsed" /\ listening' = listening
    BY <1>2 DEF LoadStep, vars
  <2>3. wanted = << >> => ~listening' \/ wanted' = << >>
    <3>1. wanted = << >> => wanted' = wanted
      BY <1>2 DEF LoadStep, VisitName, VisitFile, Load
    <3> QED BY <3>1
  <2> QED BY <2>1, <2>2, <2>3 DEF WholeBefore
<1>3. CASE Resolve
  <2>1. UNCHANGED <<checkpointVars, listening>> /\ wanted = << >>
    BY <1>3 DEF Resolve, Loaded
  <2>2. CheckpointInv'
    BY <2>1, CheckpointStays
  <2> QED BY <2>1, <2>2 DEF WholeBefore, checkpointVars
<1>4. CASE Listen
  <2>1. UNCHANGED checkpointVars /\ phase = "serving"
    BY <1>4 DEF Listen
  <2>2. CheckpointInv' /\ wanted' = wanted
    BY <2>1, CheckpointStays DEF checkpointVars
  <2> QED BY <2>1, <2>2 DEF WholeBefore
<1>5. CASE Exit
  <2>1. /\ phase' = "refused" /\ UNCHANGED checkpointVars
        /\ listening' = listening
    BY <1>5 DEF Exit
  <2>2. CheckpointInv' /\ wanted' = wanted
    BY <2>1, CheckpointStays DEF checkpointVars
  <2> QED BY <2>1, <2>2 DEF WholeBefore
<1>6. CASE UNCHANGED startVars
  <2>1. UNCHANGED <<checkpointVars, phase, listening>>
    BY <1>6 DEF startVars, vars
  <2>2. CheckpointInv' /\ wanted' = wanted
    BY <2>1, CheckpointStays DEF checkpointVars
  <2> QED BY <2>1, <2>2 DEF WholeBefore
<1> QED BY <1>1, <1>2, <1>3, <1>4, <1>5, <1>6 DEF StartNext

\* The invariant of the load, for every checkpoint, window, cap and budget.
LEMMA LoadInvariant == StartSpec => []LoadInv
<1>1. StartInit => LoadInv
  BY LoadFirst
<1>2. LoadInv /\ [StartNext]_startVars => LoadInv'
  BY LoadInvStep
<1> QED BY <1>1, <1>2, PTL DEF StartSpec

\* A server that starts from a checkpoint keeps its cache within the budget: the
\* order of the start and its failures do not reach the sizes.
THEOREM StartFitsBudget ==
    ASSUME NoWrap
    PROVE  StartSpec => [](TypeOK /\ FitsBudget)
<1>1. StartInit => SizeInv
  BY AdmissionAssumption DEF StartInit, Init, SizeInv, TypeOK, Phases, FitsBudget
<1>2. ASSUME SizeInv, [StartNext]_startVars
      PROVE  SizeInv'
  <2>1. [Next]_vars \/ Exit
    BY <1>2 DEF StartNext, ParseArgs, LoadStep, Resolve, Listen, startVars, Next
  <2>2. CASE Exit
    <3>1. phase' = "refused" /\ UNCHANGED <<ctx, requested, nSeq>>
      BY <2>2 DEF Exit
    <3> QED BY <1>2, <3>1 DEF SizeInv, TypeOK, Phases, FitsBudget
  <2> QED BY <1>2, <2>1, <2>2, SizeStep
<1>3. SizeInv => TypeOK /\ FitsBudget
  BY DEF SizeInv
<1> QED BY <1>1, <1>2, <1>3, PTL DEF StartSpec

\* What is uploaded for a tensor is that tensor of a shard that stores it, whole,
\* for every directory of shards, index file and order of names.
THEOREM UploadsOwnPayload == StartSpec => []OwnPayload
<1>1. LoadInv => OwnPayload
  BY DEF LoadInv, CheckpointInv, UploadsInv, OwnPayload, Stored
<1> QED BY <1>1, LoadInvariant, PTL

\* The columns recovered for a matrix make the kernels read exactly the bytes that
\* were uploaded, for each stored format and for every shape.
THEOREM UploadsCover == StartSpec => []OperandsCover
<1>1. LoadInv => OperandsCover
  BY DEF LoadInv, CheckpointInv, UploadsInv, OperandsCover, Covers
<1> QED BY <1>1, LoadInvariant, PTL

\* No server listens with a part of its model missing.
THEOREM ListensWhole == StartSpec => []StartsWhole
<1>1. ASSUME LoadInv
      PROVE  StartsWhole
  <2>1. SUFFICES ASSUME listening
                 PROVE  {Wanted[i].module : i \in DOMAIN Wanted} = DOMAIN model
    BY DEF StartsWhole
  <2>2. wanted = << >>
    BY <1>1, <2>1 DEF LoadInv, WholeBefore
  <2>3. Len(Wanted) \in Nat /\ DOMAIN Wanted = 1 .. Len(Wanted) /\ Wanted \in Seq(Range(Wanted))
    BY DiskAssumption
  <2>4. PICK k \in 0 .. Len(Wanted) :
          /\ wanted = SubSeq(Wanted, k + 1, Len(Wanted))
          /\ DOMAIN model = {Wanted[i].module : i \in 1 .. k}
    BY <1>1 DEF LoadInv, CheckpointInv, LoadedSoFar
  <2>5. k = Len(Wanted)
    BY <2>2, <2>3, <2>4
  <2> QED BY <2>3, <2>4, <2>5
<1> QED BY <1>1, LoadInvariant, PTL
=============================================================================
