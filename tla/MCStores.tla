------------------------------- MODULE MCStores -------------------------------
(* Instances of the components that keep files, and of the ledger of memory.     *)
(* They share no state here, so one run checks their sum: the initial state      *)
(* chooses which of them the behaviour is of.  Each has variables of its own,    *)
(* which stay as they are in the behaviours of the others.                       *)
EXTENDS MCResourceLedger, Stores

\* A model that may be told not to think, whose digest is that of its file, and one that
\* thinks in any case, whose digest is configured.
MCConfigs == {[thinking |-> "switchable", default |-> TRUE, pin |-> 0],
              [thinking |-> "always", default |-> TRUE, pin |-> 1]}

\* A registry entry of every kind of backend, and its usual sources.
ModelEntry(kind, multimodal, bits, sources, mmproj) ==
    [kind |-> kind, multimodal |-> multimodal, bits |-> bits, sources |-> sources,
     mmproj |-> mmproj]

MCEntries ==
    {ModelEntry("llama_server", TRUE, 0, {"lmstudio", "filename"}, TRUE),
     ModelEntry("llama_cpp", FALSE, 0, {"path"}, FALSE),
     ModelEntry("mlx", FALSE, 0, {"lmstudio", "model_id"}, FALSE),
     ModelEntry("mlx_vlm_server", TRUE, 0, {"model_id"}, FALSE),
     ModelEntry("diffusers_image", FALSE, 0, {"model_id"}, FALSE),
     ModelEntry("mflux_image", FALSE, 4, {"model_id"}, FALSE),
     ModelEntry("stable_diffusion_cpp_image", FALSE, 0, {"model_id"}, FALSE)}

StoresInit ==
    /\ component \in {"download", "backup", "evaluations", "sources", "campaign", "multimodel",
                      "ledger"}
    /\ KeptInit /\ Init

StoresNext ==
    \/ component = "ledger" /\ Next /\ UNCHANGED storesVars
    \/ KeptNext /\ UNCHANGED vars

StoresSpec == StoresInit /\ [][StoresNext]_<<storesVars, vars>>

=============================================================================
