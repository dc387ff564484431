----------------------------- MODULE Scheduling -----------------------------
(***************************************************************************)
(* Worker eligibility, written twice in the program: as the pure matcher   *)
(* (scheduling.py) and as the WHERE clause of the PostgreSQL claim query   *)
(* (control/postgres.py).  Both are operators over the records of          *)
(* contracts.py:                                                           *)
(*                                                                         *)
(*   WorkerSpec       worker_class, capabilities, labels, gpu_uuids,       *)
(*                    gpu_count, total_vram_mb, max_single_gpu_vram_mb     *)
(*   JobRequirements  worker_class, required_capabilities, required_labels,*)
(*                    required_gpu_uuids, min_gpu_count,                   *)
(*                    min_total_vram_mb, min_single_gpu_vram_mb            *)
(*                                                                         *)
(* Labels are sets of <<key, value>> pairs with one value per key.  Names  *)
(* are compared and never taken apart, so any values serve as names.       *)
(***************************************************************************)
EXTENDS Integers, FiniteSets

\* JobRequirements.worker_class = None: any class will do.
AnyClass == "any-class"

\* ResourceShape.__post_init__: the shapes a worker can declare.
ResourceShapeValid(s) ==
    /\ s.gpu_count >= 0 /\ s.total_vram_mb >= 0 /\ s.max_single_gpu_vram_mb >= 0
    /\ IF s.gpu_count = 0
       THEN s.total_vram_mb = 0 /\ s.max_single_gpu_vram_mb = 0
       ELSE /\ s.total_vram_mb > 0 /\ s.max_single_gpu_vram_mb > 0
            /\ s.max_single_gpu_vram_mb <= s.total_vram_mb

\* One value per key: labels come from a mapping.
LabelsValid(labels) ==
    \A p, q \in labels : p[1] = q[1] => p = q

\* WorkerSpec.__post_init__: the GPU identities are counted by the shape.
WorkerSpecValid(s) ==
    /\ ResourceShapeValid(s)
    /\ LabelsValid(s.labels)
    /\ Cardinality(s.gpu_uuids) = s.gpu_count

\* JobRequirements.__post_init__: there is a lower bound only.
RequirementsValid(r) ==
    /\ LabelsValid(r.required_labels)
    /\ r.min_gpu_count >= 0
    /\ r.min_total_vram_mb >= 0
    /\ r.min_single_gpu_vram_mb >= 0

-----------------------------------------------------------------------------
\* match_worker: the reasons for which the worker does not fit.
MatchReasons(w, r) ==
       {x \in {<<"worker_class">>} :
            r.worker_class # AnyClass /\ w.worker_class # r.worker_class}
  \cup {x \in {<<"capabilities">>} : ~(r.required_capabilities \subseteq w.capabilities)}
  \cup {<<"label", p[1]>> : p \in {q \in r.required_labels : q \notin w.labels}}
  \cup {x \in {<<"gpu_uuids">>} : ~(r.required_gpu_uuids \subseteq w.gpu_uuids)}
  \cup {x \in {<<"gpu_count">>} : w.gpu_count < r.min_gpu_count}
  \cup {x \in {<<"total_vram_mb">>} : w.total_vram_mb < r.min_total_vram_mb}
  \cup {x \in {<<"max_single_gpu_vram_mb">>} :
            w.max_single_gpu_vram_mb < r.min_single_gpu_vram_mb}

worker_matches(w, r) == MatchReasons(w, r) = {}

-----------------------------------------------------------------------------
(***************************************************************************)
(* The claim query.  Each minimum is read back from a JSON document and    *)
(* cast to a PostgreSQL integer, an operation that is partial: a value     *)
(* above IntMax makes the whole statement fail, whichever row it is in.    *)
(***************************************************************************)

\* Whether a ::integer cast of the requirement's minima raises.
CastOverflows(r, intMax) ==
    \/ r.min_gpu_count > intMax
    \/ r.min_total_vram_mb > intMax
    \/ r.min_single_gpu_vram_mb > intMax

\* Mutant: off by one at the number of GPUs.
Mut_QueryPredicate(w, r) ==
    /\ r.worker_class = AnyClass \/ r.worker_class = w.worker_class
    /\ ~ \E c \in r.required_capabilities : c \notin w.capabilities
    /\ r.required_labels \subseteq w.labels
    /\ ~ \E g \in r.required_gpu_uuids : g \notin w.gpu_uuids
    /\ w.gpu_count > r.min_gpu_count \/ r.min_gpu_count = 0
    /\ w.total_vram_mb >= r.min_total_vram_mb
    /\ w.max_single_gpu_vram_mb >= r.min_single_gpu_vram_mb

\* The WHERE clause without its casts: set containment where the matcher
\* iterates, jsonb containment (<@) where the matcher looks a label up.
QueryPredicate(w, r) ==
    /\ r.worker_class = AnyClass \/ r.worker_class = w.worker_class
    /\ ~ \E c \in r.required_capabilities : c \notin w.capabilities
    /\ r.required_labels \subseteq w.labels
    /\ ~ \E g \in r.required_gpu_uuids : g \notin w.gpu_uuids
    /\ w.gpu_count >= r.min_gpu_count
    /\ w.total_vram_mb >= r.min_total_vram_mb
    /\ w.max_single_gpu_vram_mb >= r.min_single_gpu_vram_mb

\* What evaluating the WHERE clause on one row does.
ClaimQuery(w, r, intMax) ==
    IF CastOverflows(r, intMax) THEN "error"
    ELSE IF QueryPredicate(w, r) THEN "match" ELSE "no_match"
=============================================================================
