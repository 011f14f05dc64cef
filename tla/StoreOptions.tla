---------------------------- MODULE StoreOptions ----------------------------
(***************************************************************************)
(* What the arguments of LodeDB(...) resolve to (local/db.py, __init__ and  *)
(* the option helpers; local/presets.py): the route identity a store is     *)
(* created with and every reopen must match, and the ANN and rescore        *)
(* options, where the persisted choice wins except for two query-time       *)
(* overrides of the session.  Unset is an argument that was not passed.      *)
(***************************************************************************)
EXTENDS Naturals, FiniteSets

CONSTANT Unset

Or(v, default) == IF v = Unset THEN default ELSE v
Positive(v) == v = Unset \/ v >= 1

-----------------------------------------------------------------------------
(* Routes: [model, vector_dim, embedder, bit_width].                        *)

\* Dimensions of two of the presets, and of the embedders callers bring.
PresetDim == [minilm |-> 384, bge |-> 768]
EmbedderDim == 384

vector_only_route_policy(dim, bit_width) ==
  [model |-> "external", provider |-> "external", task |-> "vector-only", dim |-> dim,
   bit_width |-> bit_width]

custom_embedder_route_policy(name, bit_width) ==
  [model |-> name, provider |-> "external", task |-> "custom-embedder", dim |-> EmbedderDim,
   bit_width |-> bit_width]

preset_route_policy(model) ==
  [model |-> model, provider |-> "local_open", task |-> "direct-turbovec", dim |-> PresetDim[model],
   bit_width |-> 4]

\* The arguments __init__ accepts.
route_accepted(a) ==
  /\ a.embedder = Unset \/ a.vector_dim = Unset
  /\ a.vector_dim # Unset => a.vector_dim \in 1 .. 65536
  /\ a.embedder = Unset /\ a.vector_dim = Unset => Or(a.bit_width, 4) = 4

route(a) ==
  IF a.vector_dim # Unset THEN vector_only_route_policy(a.vector_dim, Or(a.bit_width, 4))
  ELSE IF a.embedder # Unset THEN custom_embedder_route_policy(a.embedder, Or(a.bit_width, 4))
  ELSE preset_route_policy(Or(a.model, "minilm"))

-----------------------------------------------------------------------------
(* ANN: ann is a form with, in an AnnOptions, its own settings; clusters     *)
(* and nprobe are the loose settings.  NoAnn is an exact scan.              *)

NoAnn == [on |-> FALSE, clusters |-> Unset, nprobe |-> Unset]

resolve_ann_accepted(a) ==
  CASE a.ann = "none" -> a.clusters = Unset /\ Positive(a.nprobe)
    [] a.ann = "options" -> a.clusters = Unset /\ a.nprobe = Unset
    [] a.ann = "cluster" -> Positive(a.clusters) /\ Positive(a.nprobe)

resolve_ann_options(a) ==
  CASE a.ann = "none" -> NoAnn
    [] a.ann = "options" -> [on |-> TRUE, clusters |-> a.own_clusters, nprobe |-> a.own_nprobe]
    [] a.ann = "cluster" -> [on |-> TRUE, clusters |-> a.clusters, nprobe |-> a.nprobe]

requested_ann_nprobe(a) ==
  IF a.nprobe # Unset THEN a.nprobe ELSE IF a.ann = "options" THEN a.own_nprobe ELSE Unset

\* A fresh store takes the options, which the core validates; nprobe alone is
\* refused.
creates_ann(a) ==
  /\ resolve_ann_accepted(a) /\ (a.ann = "none" => a.nprobe = Unset)
  /\ Positive(resolve_ann_options(a).clusters) /\ Positive(resolve_ann_options(a).nprobe)

\* An existing store keeps its own, and the override must be valid.
reopens_ann(a) == resolve_ann_accepted(a) /\ Positive(requested_ann_nprobe(a))

\* A session whose options are those of the call.
session_ann_of_call(persisted, a) == resolve_ann_options(a)

session_ann(persisted, a) == [persisted EXCEPT !.nprobe = Or(requested_ann_nprobe(a), @)]

-----------------------------------------------------------------------------
(* Rescore: the same, with a dtype that must match and an oversample that    *)
(* is the session's.                                                       *)

NoRescore == [on |-> FALSE, dtype |-> Unset, oversample |-> Unset]

resolve_rescore_accepted(a) ==
  CASE a.rescore = "none" -> Positive(a.oversample)
    [] a.rescore = "options" -> a.dtype = Unset /\ a.oversample = Unset
    [] a.rescore = "original" -> Positive(a.oversample)

resolve_rescore_options(a) ==
  CASE a.rescore = "none" -> NoRescore
    [] a.rescore = "options" -> [on |-> TRUE, dtype |-> a.own_dtype, oversample |-> a.own_oversample]
    [] a.rescore = "original" -> [on |-> TRUE, dtype |-> a.dtype, oversample |-> a.oversample]

requested_rescore_oversample(a) ==
  IF a.oversample # Unset THEN a.oversample
  ELSE IF a.rescore = "options" THEN a.own_oversample ELSE Unset

creates_rescore(a) ==
  /\ resolve_rescore_accepted(a)
  /\ a.rescore = "none" => a.dtype = Unset /\ a.oversample = Unset
  /\ Positive(resolve_rescore_options(a).oversample)

validate_reopen_rescore_options(persisted, a) ==
  LET dtype == IF a.rescore = "options" THEN a.own_dtype ELSE a.dtype
      supplied == a.rescore # "none" \/ a.dtype # Unset \/ requested_rescore_oversample(a) # Unset
  IN IF persisted.on THEN dtype \in {Unset, Or(persisted.dtype, "float16")} ELSE ~supplied

reopens_rescore(persisted, a) ==
  /\ resolve_rescore_accepted(a) /\ validate_reopen_rescore_options(persisted, a)
  /\ Positive(requested_rescore_oversample(a))

session_rescore(persisted, a) ==
  [persisted EXCEPT !.oversample = Or(requested_rescore_oversample(a), @)]

-----------------------------------------------------------------------------
(* Arguments                                                               *)

Counts == {Unset, 0, 1, 2}
Dtypes == {Unset, "float16", "int8"}

RouteArgs == [model : {Unset, "minilm", "bge"}, vector_dim : {Unset, 384, 768},
              embedder : {Unset, "external", "minilm"}, bit_width : {Unset, 2, 4}]
AnnArgs == [ann : {"none", "cluster", "options"}, clusters : Counts, nprobe : Counts,
            own_clusters : Counts, own_nprobe : Counts]
RescoreArgs == [rescore : {"none", "original", "options"}, dtype : Dtypes, oversample : Counts,
                own_dtype : Dtypes, own_oversample : Counts]

-----------------------------------------------------------------------------
(* Properties                                                              *)

\* Two openings that are told apart by kind, model, dimension or width never
\* share an identity: an embedder may be named like a preset, or "external", and
\* a store is still not reopened as another kind of index.
Distinct ==
  \A a, b \in {x \in RouteArgs : route_accepted(x)} :
    LET Kind(x) == IF x.vector_dim # Unset THEN "vector"
                   ELSE IF x.embedder # Unset THEN "custom" ELSE "preset"
        Model(x) == CASE Kind(x) = "preset" -> Or(x.model, "minilm")
                      [] Kind(x) = "custom" -> x.embedder
                      [] Kind(x) = "vector" -> "none"
    IN route(a) = route(b) =>
         /\ Kind(a) = Kind(b) /\ Model(a) = Model(b) /\ a.vector_dim = b.vector_dim
         /\ Or(a.bit_width, 4) = Or(b.bit_width, 4)

\* A store created with some ANN options reopens with the same arguments, or with
\* none, and serves the same; whatever a reopen passes, the store stays exact or
\* clustered as created, and only nprobe follows the call.
AnnKept ==
  \A a \in {x \in AnnArgs : creates_ann(x)} :
    LET persisted == resolve_ann_options(a)
    IN /\ reopens_ann(a) /\ session_ann(persisted, a) = persisted
       /\ \A b \in {x \in AnnArgs : reopens_ann(x)} :
            LET s == session_ann(persisted, b)
            IN /\ s.on = persisted.on /\ s.clusters = persisted.clusters
               /\ s.nprobe \in {persisted.nprobe, requested_ann_nprobe(b)}

\* A store created with some rescore options reopens with the same arguments,
\* with none, or with its defaults spelled out, and keeps its dtype; a store
\* created without never gets a rescoring session.
RescoreKept ==
  \A a \in {x \in RescoreArgs : creates_rescore(x)} :
    LET persisted == resolve_rescore_options(a)
        spelled == [a EXCEPT !.own_dtype = Or(@, "float16"),
                             !.dtype = IF a.rescore = "original" THEN Or(@, "float16") ELSE @]
    IN /\ \A b \in {a, spelled} : reopens_rescore(persisted, b)
       /\ session_rescore(persisted, a) = persisted
       /\ \A b \in {x \in RescoreArgs : reopens_rescore(persisted, x)} :
            LET s == session_rescore(persisted, b)
            IN s.on = persisted.on /\ s.dtype = persisted.dtype /\ (~s.on => s = NoRescore)

=============================================================================
