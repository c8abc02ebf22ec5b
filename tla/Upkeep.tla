------------------------------- MODULE Upkeep -------------------------------
(***************************************************************************)
(* The maintenance tickets and the inventory campaigns.  They share no row *)
(* (a maintenance ticket names no equipment of the inventory), so that an  *)
(* execution runs one of the two while the other stays in an initial state *)
(***************************************************************************)
EXTENDS MaintTickets, InventoryCampaigns

VARIABLE running   \* the one that runs

upkeepvars == <<running, mvars, cvars>>

UpkeepInit ==
    /\ running \in {"maint", "campaigns"}
    /\ MaintInit /\ CampaignInit
    /\ running # "maint" => regime = "turns"
    /\ running # "campaigns" => \A eq \in Items : item[eq] = NoItem

UpkeepNext ==
    \/ running = "maint" /\ MaintNext /\ UNCHANGED <<running, cvars>>
    \/ running = "campaigns" /\ CampaignNext /\ UNCHANGED <<running, mvars>>

UpkeepSpec == UpkeepInit /\ [][UpkeepNext]_upkeepvars
=============================================================================
