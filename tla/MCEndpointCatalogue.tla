------------------------ MODULE MCEndpointCatalogue ------------------------
(***************************************************************************)
(* Instances of the catalogue and of the directory of HubEndpoints for     *)
(* TLC: a behaviour is one of the first or, with the variables of the      *)
(* other at rest, one of the second; the collectives are at rest in both.  *)
(***************************************************************************)
EXTENDS HubEndpoints, TLC

CONSTANTS t1, t2, a, b, c, d

VARIABLE part

MCTypeOf == c :> "model" @@ d :> "model_data_source"
MCPolicyLists == {<<>>, <<{"*"}>>}

MCInit ==
    /\ Init /\ ~autoApprove /\ Catalogue!Init
    /\ \/ part = "catalogue" /\ Directory!Still /\ entry = [e \in Directory!EntryId |-> Directory!NoEntry]
       \/ part = "directory" /\ Directory!DirInit
          /\ entry[1].slug # entry[2].slug

MCNext ==
    /\ \/ part = "catalogue" /\ Catalogue!Next /\ UNCHANGED dirVars
       \/ part = "directory" /\ Directory!DirNext /\ UNCHANGED catVars
    /\ UNCHANGED <<part, vars>>

MCSpec == MCInit /\ [][MCNext]_<<part, vars, catVars, dirVars>>

Symmetry == {f @@ g : f \in Permutations({t1, t2}), g \in Permutations({a, b})}
=============================================================================
