------------------------------- MODULE GoMap -------------------------------
(***************************************************************************)
(* A Go map is a function whose domain is the set of keys it holds.  The   *)
(* registries of the orchestrator are such maps, each guarded by one       *)
(* RWMutex, so one critical section is one Put or one Delete.              *)
(***************************************************************************)

EmptyMap == [k \in {} |-> {}]

\* m[k] = v
Put(m, k, v) == [x \in DOMAIN m \cup {k} |-> IF x = k THEN v ELSE m[x]]

\* delete(m, k)
Delete(m, k) == [x \in DOMAIN m \ {k} |-> m[x]]

=============================================================================
