----------------------------- MODULE Admission -----------------------------
(***************************************************************************)
(* How gb10-server sizes itself at start-up: Args::parse checks the window *)
(* and the requested concurrency, resolve_concurrency turns them into a    *)
(* number of slots, and ModelState::new allocates the KV cache.            *)
(*                                                                         *)
(* Memory is counted in rows, KV_BYTES_PER_TOKEN_SEQ bytes each, by which  *)
(* both the budget and every cache are divisible: 40 GiB is 327680 rows,   *)
(* 2^64 bytes are 2^47.  The release build wraps a product that overflows. *)
(***************************************************************************)
EXTENDS Integers

CONSTANTS
    MaxPositions,   \* NATIVE_MAX_POSITIONS: 262144
    MaxConcurrent,  \* MAX_CONCURRENT: 16
    BudgetRows,     \* KV_BUDGET_BYTES / KV_BYTES_PER_TOKEN_SEQ: 327680
    Word,           \* rows in 2^64 bytes
    MaxRequested,   \* the largest --concurrency given: a bound of the model
    None            \* no --concurrency

ASSUME AdmissionAssumption ==
    /\ MaxPositions \in Nat /\ MaxPositions >= 2
    /\ MaxConcurrent \in Nat \ {0}
    /\ BudgetRows \in Nat /\ BudgetRows >= MaxPositions
    /\ Word \in Nat /\ Word > BudgetRows
    /\ MaxRequested \in Nat
    /\ None \notin Nat

VARIABLES
    ctx,        \* --ctx
    requested,  \* --concurrency
    nSeq,       \* slots
    phase

vars == <<ctx, requested, nSeq, phase>>

Phases == {"args", "parsed", "serving", "refused"}

TypeOK ==
    /\ ctx \in Nat
    /\ requested \in Nat \union {None}
    /\ nSeq \in Nat
    /\ phase \in Phases
    /\ phase \in {"parsed", "serving"} => ctx \in 2 .. MaxPositions
    /\ phase = "serving" => nSeq >= 1

Init ==
    /\ ctx \in 0 .. MaxPositions + 1
    /\ requested \in 0 .. MaxRequested \union {None}
    /\ nSeq = 0
    /\ phase = "args"

\* A build that lets a request for no slot pass.
ParseAnyConcurrency ==
    /\ phase = "args"
    /\ phase' = IF ctx < 2 \/ ctx > MaxPositions THEN "refused" ELSE "parsed"
    /\ UNCHANGED <<ctx, requested, nSeq>>

Parse ==
    /\ phase = "args"
    /\ phase' = IF ctx < 2 \/ ctx > MaxPositions \/ requested = 0
                THEN "refused" ELSE "parsed"
    /\ UNCHANGED <<ctx, requested, nSeq>>

\* A build that rounds the number of slots up.
AutoRoundedUp ==
    LET fit == (BudgetRows + ctx - 1) \div ctx
    IN IF fit > MaxConcurrent THEN MaxConcurrent ELSE IF fit < 1 THEN 1 ELSE fit

\* As many slots as the budget covers, clamp(1, MAX_CONCURRENT).
AutoSlots ==
    LET fit == BudgetRows \div ctx
    IN IF fit > MaxConcurrent THEN MaxConcurrent ELSE IF fit < 1 THEN 1 ELSE fit

\* per_seq * n, as a u64.
Bytes(n) == (ctx * n) % Word

resolve_concurrency ==
    /\ phase = "parsed"
    /\ IF requested = None
       THEN nSeq' = AutoSlots /\ phase' = "serving"
       ELSE IF Bytes(requested) <= BudgetRows
            THEN nSeq' = requested /\ phase' = "serving"
            ELSE nSeq' = nSeq /\ phase' = "refused"
    /\ UNCHANGED <<ctx, requested>>

Next == Parse \/ resolve_concurrency

Spec == Init /\ [][Next]_vars

-----------------------------------------------------------------------------
\* The slots a server starts with have their rows within the budget; with no
\* --concurrency no further slot would, unless the cap is reached.
FitsBudget ==
    phase = "serving" =>
        /\ ctx * nSeq <= BudgetRows
        /\ requested = None /\ nSeq < MaxConcurrent => ctx * (nSeq + 1) > BudgetRows
=============================================================================
