----------------------------- MODULE Procedures -----------------------------
(***************************************************************************)
(* Five components that are checked for safety only: the titulation        *)
(* processes, the two systems of holds of AgendaTec, the catalogues of the *)
(* tickets and the loop of the warehouse.  They share nothing, so that an  *)
(* execution runs one of them while the others stay in an initial state.   *)
(***************************************************************************)
EXTENDS TitulationProcess, SlotHolds, SocketHolds, Catalogues, FifoLoop

VARIABLE procedure   \* the one that runs

allvars == <<procedure, pvars, hvars, kvars, cvars, loopvars>>

Runs(what) == procedure = what

\* of the initial states of a component that does not run one is enough
Still ==
    /\ ~Runs("titulation") => pageRegime = "stale" /\ skips = CHOOSE s \in Modalities : TRUE
    /\ ~Runs("holds") => holdRegime = "overlap"
    /\ ~Runs("catalogues") =>
          kind = "hd area" /\ catalogueRegime = CHOOSE r \in CatalogueRegimes : TRUE
    /\ ~Runs("loop") => lots = <<>> /\ quantity = 1

ProceduresInit ==
    /\ procedure \in {"titulation", "holds", "sockets", "catalogues", "loop"}
    /\ TitulationInit /\ HoldInit /\ SocketInit /\ CatalogueInit /\ LoopInit
    /\ Still

ProceduresNext ==
    \/ Runs("titulation") /\ TitulationNext /\ UNCHANGED <<procedure, hvars, kvars, cvars, loopvars>>
    \/ Runs("holds") /\ HoldNext /\ UNCHANGED <<procedure, pvars, kvars, cvars, loopvars>>
    \/ Runs("sockets") /\ SocketNext /\ UNCHANGED <<procedure, pvars, hvars, cvars, loopvars>>
    \/ Runs("catalogues") /\ CatalogueNext /\ UNCHANGED <<procedure, pvars, hvars, kvars, loopvars>>
    \/ Runs("loop") /\ LoopNext /\ UNCHANGED <<procedure, pvars, hvars, kvars, cvars>>

ProceduresSpec == ProceduresInit /\ [][ProceduresNext]_allvars
=============================================================================
