------------------------------ MODULE FluxObject ------------------------------
(***************************************************************************)
(* utils.GetFluxObject (internal/utils/utils.go): the Flux object that     *)
(* owns an entity, from its labels <<controller, "name">> and              *)
(* <<controller, "namespace">>.  The code ranges over a Go map, so for an  *)
(* entity with the labels of both controllers it may return either.        *)
(***************************************************************************)

fluxControllerKindMap == [helm |-> "HelmRelease", kustomize |-> "Kustomization"]

\* What GetFluxObject may return; it returns nil if this is empty.
FluxObjects(labels) ==
    {[kind |-> fluxControllerKindMap[v], name |-> labels[<<v, "name">>],
      namespace |-> labels[<<v, "namespace">>]] :
        v \in {v \in DOMAIN fluxControllerKindMap :
                  {<<v, "name">>, <<v, "namespace">>} \subseteq DOMAIN labels}}
=============================================================================
