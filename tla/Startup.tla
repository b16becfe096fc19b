------------------------------ MODULE Startup ------------------------------
(***************************************************************************)
(* gb10-server's start: main parses the arguments, Engine::new loads the   *)
(* checkpoint, resolves the number of slots and allocates the state, and   *)
(* only then does main start the scheduler and listen.  Any call on the    *)
(* way may fail, and the process then exits.                               *)
(***************************************************************************)
EXTENDS Admission, Checkpoint

VARIABLE listening   \* main accepts connections

startVars == <<vars, checkpointVars, listening>>

StartInit == Init /\ OpenInit /\ listening = FALSE

ParseArgs == Parse /\ UNCHANGED <<checkpointVars, listening>>

\* Engine::new, Model::load_from: a step of the load.
LoadStep ==
    /\ phase = "parsed"
    /\ VisitName \/ VisitFile \/ Load
    /\ UNCHANGED <<vars, listening>>

\* A build that sizes the state before the model is in memory.
ResolveAnyTime == resolve_concurrency /\ UNCHANGED <<checkpointVars, listening>>
\* The slots are resolved once the model is in memory.
Resolve == Loaded /\ resolve_concurrency /\ UNCHANGED <<checkpointVars, listening>>

\* ModelState::new, Scratch::new, the scheduler's thread, then bind.
Listen ==
    /\ phase = "serving"
    /\ ~listening
    /\ listening' = TRUE
    /\ UNCHANGED <<vars, checkpointVars>>

\* An error on the way: a file, the device, the tokenizer, the template, an
\* allocation, the address.
Exit ==
    /\ phase \in {"parsed", "serving"}
    /\ ~listening
    /\ phase' = "refused"
    /\ UNCHANGED <<ctx, requested, nSeq, checkpointVars, listening>>

StartNext == ParseArgs \/ LoadStep \/ Resolve \/ Listen \/ Exit
StartSpec == StartInit /\ [][StartNext]_startVars

-----------------------------------------------------------------------------
\* A server that accepts connections has the whole model: everything its layers
\* name was found and uploaded.  It never serves with a tensor left out.
StartsWhole ==
    listening => {Wanted[i].module : i \in DOMAIN Wanted} = DOMAIN model
=============================================================================
