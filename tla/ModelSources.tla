---------------------------- MODULE ModelSources ----------------------------
(***************************************************************************)
(* model_sources.py: where the files of a registered model are, as the      *)
(* configuration resolves it (resolve_registry_model, called by             *)
(* config.build_config) and as the engine does when it starts               *)
(* (resolve_*_runtime_path, ensure_model).  Between the two, files come and *)
(* go.  A file is <<name, quantization level>>; names that a checker treats *)
(* alike are one name.                                                      *)
(***************************************************************************)
EXTENDS Integers, FiniteSets

CONSTANTS
    Entries,    \* registry entries [kind, multimodal, bits, sources, mmproj]
    Explicit,   \* forms of --model-path: "none", "local", "hub"
    MaxChanges  \* bound: files that come or go

VARIABLES
    entry, explicit, \* the model that is served, and how it was asked for
    offered,   \* files the Hub, or the urls of the registry, hold
    disk,      \* disk[p]: files of the model in place p
    cfg,       \* what build_config resolved, or Unresolved
    kept,      \* no file has gone since
    engine,    \* [state, place, files, network]
    changes

vars == <<entry, explicit, offered, disk, cfg, kept, engine, changes>>

Places == {"path", "lmstudio", "managed", "hub"}
Unresolved == [place |-> "none", local |-> FALSE, source |-> "none",
               downloaded |-> FALSE, mmproj |-> "none"]
NoEngine == [state |-> "none", place |-> "none", files |-> {}, network |-> FALSE]

MLX == {"mlx", "mlx_vlm_server"}
HubKinds == MLX \cup {"diffusers_image", "mflux_image"}
Weights == {"transformer", "text_encoder", "vae"}
Plain(names) == {<<n, 0>> : n \in names}

\* The files of a kind that may be in a place.
FilesOf(kind) ==
    CASE kind \in MLX -> Plain({"config", "tokenizer", "processor", "whole", "index", "shard"})
      [] kind = "diffusers_image" -> Plain({"index", "component", "weights"})
      [] kind = "mflux_image" -> Weights \X {4, 8} \cup Plain({"processor"})
      [] kind = "stable_diffusion_cpp_image" -> Plain(Weights)
      [] OTHER -> Plain({"model", "mmproj"})

Has(fs, names) == Plain(names) \subseteq fs

CompleteMLX(fs, multimodal) ==
    /\ Has(fs, {"config", "tokenizer"})
    /\ multimodal => Has(fs, {"processor"})
    /\ Has(fs, {"whole"}) \/ Has(fs, {"index", "shard"})

Levels(fs) == {b \in {4, 8} : \E w \in Weights : <<w, b>> \in fs}

\* is_complete_mflux_image_model: one level for the three components, the one asked
\* for if any (0: any), and a processor.
CompleteMFlux(fs, bits) ==
    /\ \A w \in Weights : \E b \in {4, 8} : <<w, b>> \in fs
    /\ Cardinality(Levels(fs)) = 1
    /\ bits # 0 => Levels(fs) = {bits}
    /\ Has(fs, {"processor"})

\* _is_complete_local
CompleteLocal(kind, fs, multimodal, bits) ==
    CASE kind \in MLX -> CompleteMLX(fs, multimodal)
      [] kind = "diffusers_image" -> Has(fs, {"index", "component", "weights"})
      [] kind = "mflux_image" -> CompleteMFlux(fs, bits)
      [] OTHER -> Has(fs, {"model"})

-----------------------------------------------------------------------------
(* Resolution without network: resolve_registry_model. *)

\* Mutant: the completeness that is shown does not ask for the processor.
ShownBare(p) == CompleteLocal(entry.kind, disk[p], FALSE, entry.bits)

Shown(p) == CompleteLocal(entry.kind, disk[p], entry.multimodal, entry.bits)

\* A language model without its projector is not ready.
Projected(p) == entry.mmproj => Has(disk[p], {"mmproj"})

In(p, source, downloaded) ==
    [place |-> p, local |-> TRUE, source |-> source, downloaded |-> downloaded,
     mmproj |-> IF source \in {"lmstudio", "managed"} THEN p ELSE "managed"]

\* A snapshot of the Hub cache that is complete is used by its path, one that is not
\* by the name of its repository.
FromHub(source) ==
    IF Shown("hub")
    THEN [In("hub", source, TRUE) EXCEPT !.mmproj = "managed"]
    ELSE [place |-> "hub", local |-> FALSE, source |-> source, downloaded |-> FALSE,
          mmproj |-> "managed"]

\* resolve_registry_model: explicit path, configured path, LM Studio, managed file, Hub.
Resolution ==
    LET studio == "lmstudio" \in entry.sources /\ Shown("lmstudio") /\ Projected("lmstudio")
        bundle == entry.kind = "stable_diffusion_cpp_image"
        given == explicit = "local"
    IN CASE bundle -> In(IF given THEN "path" ELSE "managed",
                         IF given THEN "explicit" ELSE "managed",
                         Has(disk[IF given THEN "path" ELSE "managed"], Weights))
         [] ~bundle /\ given -> In("path", "explicit", Shown("path"))
         [] ~bundle /\ explicit = "hub" -> FromHub("huggingface")
         [] ~bundle /\ explicit = "none" /\ "path" \in entry.sources ->
                In("path", "explicit", Shown("path"))
         [] ~bundle /\ explicit = "none" /\ "path" \notin entry.sources /\ studio ->
                In("lmstudio", "lmstudio", TRUE)
         [] ~bundle /\ explicit = "none" /\ "path" \notin entry.sources /\ ~studio
                /\ "filename" \in entry.sources ->
                In("managed", "managed", Shown("managed") /\ Projected("managed"))
         [] OTHER -> FromHub(IF "model_id" \in entry.sources THEN "huggingface" ELSE "unresolved")

\* build_config keeps what was found until the next load or reload.
Configure ==
    /\ engine.state # "started"
    /\ cfg' = Resolution /\ kept' = TRUE /\ engine' = NoEngine
    /\ UNCHANGED <<entry, explicit, offered, disk, changes>>

-----------------------------------------------------------------------------
(* The start of an engine. *)

\* What the engine asks of a snapshot: a language model server always its processor, the
\* in-process engine never.
Usable(fs) == CompleteLocal(entry.kind, fs, entry.kind = "mlx_vlm_server", entry.bits)

Started(p, fs, network) ==
    engine' = [state |-> "started", place |-> p, files |-> fs, network |-> network]
Refused(network) == engine' = [NoEngine EXCEPT !.state = "refused", !.network = network]

\* resolve_mlx_runtime_path and its two siblings.
StartFromPath ==
    /\ cfg.local
    /\ IF Usable(disk[cfg.place]) THEN Started(cfg.place, disk[cfg.place], FALSE) ELSE Refused(FALSE)
    /\ UNCHANGED disk

StartFromCache ==
    /\ ~cfg.local /\ Usable(disk["hub"])
    /\ Started("hub", disk["hub"], FALSE)
    /\ UNCHANGED disk

StartWithout(no_download) ==
    /\ ~cfg.local /\ ~Usable(disk["hub"]) /\ no_download
    /\ Refused(FALSE)
    /\ UNCHANGED disk

StartDownloading(no_download) ==
    /\ ~cfg.local /\ ~Usable(disk["hub"]) /\ ~no_download
    /\ disk' = [disk EXCEPT !["hub"] = offered]
    /\ IF Usable(offered) THEN Started("hub", offered, TRUE) ELSE Refused(TRUE)

\* The files an engine of single files asks of ensure_model, in their order.
Wanted ==
    IF entry.kind = "stable_diffusion_cpp_image" THEN {<<cfg.place, <<w, 0>>>> : w \in Weights}
    ELSE {<<cfg.place, <<"model", 0>>>>} \cup
         (IF entry.mmproj THEN {<<cfg.mmproj, <<"mmproj", 0>>>>} ELSE {})

\* ensure_model for each: what is there is taken, what is not is downloaded.
StartFiles(no_download) ==
    LET missing == {w \in Wanted : w[2] \notin disk[w[1]]}
        network == missing # {} /\ ~no_download
        got == IF network THEN {w \in missing : w[2] \in offered} ELSE {}
    IN /\ disk' = [p \in Places |-> disk[p] \cup {w[2] : w \in {v \in got : v[1] = p}}]
       /\ IF got = missing THEN Started(cfg.place, {w[2] : w \in Wanted}, network)
          ELSE Refused(network)

Start(no_download) ==
    /\ cfg # Unresolved /\ engine.state = "none"
    /\ IF entry.kind \in HubKinds
       THEN \/ StartFromPath
            \/ StartFromCache
            \/ StartWithout(no_download)
            \/ StartDownloading(no_download)
       ELSE StartFiles(no_download)
    /\ UNCHANGED <<entry, explicit, offered, cfg, kept, changes>>

Stop ==
    /\ engine.state # "none" /\ engine' = NoEngine
    /\ UNCHANGED <<entry, explicit, offered, disk, cfg, kept, changes>>

-----------------------------------------------------------------------------
(* LM Studio, downloads of the command line and the user change the files. *)

Comes(p, f) ==
    /\ changes < MaxChanges /\ f \in FilesOf(entry.kind) \ disk[p]
    /\ disk' = [disk EXCEPT ![p] = {g \in @ : g[1] # f[1]} \cup {f}]
    /\ kept' = (kept /\ \A g \in disk[p] : g[1] # f[1])
    /\ changes' = changes + 1
    /\ UNCHANGED <<entry, explicit, offered, cfg, engine>>

Goes(p, f) ==
    /\ changes < MaxChanges /\ f \in disk[p]
    /\ disk' = [disk EXCEPT ![p] = @ \ {f}]
    /\ kept' = FALSE /\ changes' = changes + 1
    /\ UNCHANGED <<entry, explicit, offered, cfg, engine>>

Next ==
    \/ Configure
    \/ \E n \in BOOLEAN : Start(n)
    \/ Stop
    \/ \E p \in Places, n \in {f[1] : f \in FilesOf(entry.kind)}, b \in {0, 4, 8} :
          Comes(p, <<n, b>>) \/ Goes(p, <<n, b>>)

\* A model of one level has every component of a quantized one.
Level(kind, bits) ==
    {f \in FilesOf(kind) : f[2] \in {0, IF bits = 0 THEN 4 ELSE bits}}

AllBut(fs) == {fs} \cup {fs \ {f} : f \in fs}

Init ==
    /\ entry \in Entries /\ explicit \in Explicit
    /\ explicit = "hub" => entry.kind \in HubKinds  \* to the others it is the name of a file
    /\ offered \in AllBut(Level(entry.kind, entry.bits))
    /\ \E there \in SUBSET Places, fs \in AllBut(Level(entry.kind, entry.bits)) :
          disk = [p \in Places |-> IF p \in there THEN fs ELSE {}]
    /\ cfg = Unresolved /\ kept = TRUE /\ engine = NoEngine /\ changes = 0

Spec == Init /\ [][Next]_vars

-----------------------------------------------------------------------------
(* Properties *)

\* What each backend's loader reads: alternatives, each a set of files.
Layouts ==
    LET tokens == {"config", "tokenizer"}
        eyes == IF entry.kind = "mlx_vlm_server" THEN {"processor"} ELSE {}
    IN CASE entry.kind \in MLX ->
                {Plain(tokens \cup eyes \cup {"whole"}), Plain(tokens \cup eyes \cup {"index", "shard"})}
         [] entry.kind = "mflux_image" ->
                {Weights \X {b} \cup Plain({"processor"}) :
                    b \in IF entry.bits = 0 THEN {4, 8} ELSE {entry.bits}}
         [] entry.kind = "diffusers_image" -> {FilesOf(entry.kind)}
         [] entry.kind = "stable_diffusion_cpp_image" -> {Plain(Weights)}
         [] OTHER -> {Plain({"model"} \cup IF entry.mmproj THEN {"mmproj"} ELSE {})}

\* The projector of a model given by its path is neither looked for nor shown.
ProjectorUnseen == entry.mmproj /\ cfg.source \notin {"lmstudio", "managed"}

\* An engine starts on a whole model.  One that the configuration shows as downloaded
\* starts on just those files and without network, as long as none of them has gone: the
\* resolution of the configuration and that of the engine agree, for every backend and
\* source (model_sources.py:1, "consistently across config, CLI, downloads, and engines").
SourcesAgree ==
    /\ engine.state = "started" => \E l \in Layouts : l \subseteq engine.files
    /\ cfg.downloaded /\ kept /\ ~ProjectorUnseen =>
          /\ engine.state # "refused" /\ ~engine.network
          /\ engine.state = "started" => engine.place = cfg.place

=============================================================================
