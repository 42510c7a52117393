---------------------------- MODULE MCComponents ----------------------------
(***************************************************************************)
(* Small instances of components that share no state, side by side: child  *)
(* ids, generated ids, the merge slot, hooks, the schema migrations, and   *)
(* branches and commits.                                                   *)
(* Each behaviour is one of a single component: the first state says       *)
(* which, the others rest.                                                 *)
(*                                                                         *)
(* Three main migrations, the second shipped with the re-key; two          *)
(* clone-local ones, the first of which is the marker.                     *)
(***************************************************************************)
EXTENDS ChildIds, IdGeneration, MergeSlot, HookFiring, SchemaMigrations, History, TLC

VARIABLE part

componentVars == <<childVars, idVars, slotVars, hookVars, migrationVars, historyVars, part>>

ComponentsInit ==
    /\ part \in {"children", "ids", "slot", "hooks", "migrations", "history"}
    /\ ChildInit /\ IdInit /\ SlotInit /\ HookInit /\ MigrationInit /\ HistoryInit
    /\ part # "ids" => ~counting
    /\ part # "migrations" => Version = 0

ComponentsNext ==
    /\ UNCHANGED part
    /\ IF part = "children" THEN ChildNext ELSE UNCHANGED childVars
    /\ IF part = "ids" THEN IdNext ELSE UNCHANGED idVars
    /\ IF part = "slot" THEN SlotNext ELSE UNCHANGED slotVars
    /\ IF part = "hooks" THEN HookNext ELSE UNCHANGED hookVars
    /\ IF part = "migrations" THEN MigrationNext ELSE UNCHANGED migrationVars
    /\ IF part = "history" THEN HistoryNext ELSE UNCHANGED historyVars

ComponentsSpec == ComponentsInit /\ [][ComponentsNext]_componentVars

Symmetry == Permutations(Stores)

Altered == <<{"issues", "dependencies"}, {"events"}, {"issues"}>>
=============================================================================
