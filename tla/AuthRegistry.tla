---------------------------- MODULE AuthRegistry ----------------------------
(***************************************************************************)
(* The trust registry of package nodeauth: for every MAC that ever asked   *)
(* to join, the public key it asked with and what was decided about it.    *)
(* Each operator is the effect of one method, which runs from end to end   *)
(* under the registry's lock.  Receipt and approval times decide nothing   *)
(* and are left out; entries are never removed.                            *)
(***************************************************************************)
EXTENDS GoMap

CONSTANTS
  Mac,  \* the devices' hardware addresses, in the registry's canonical form
  Key   \* the public keys the devices present

TrustStatus == {"pending", "approved", "rejected"}

NodeAuth == [publicKey : Key, status : TrustStatus]

IsAuthRegistry(auth) ==
  /\ DOMAIN auth \subseteq Mac
  /\ auth \in [DOMAIN auth -> NodeAuth]

IsApproved(auth, m) == m \in DOMAIN auth /\ auth[m].status = "approved"

\* AddPending answers ErrAlreadyApprovedSameKey and changes nothing of interest.
ApprovedSameKey(auth, m, k) == IsApproved(auth, m) /\ auth[m].publicKey = k

\* Mutant: a new key does not reset the decision made about the old one.
AddPendingKeepsStatus(auth, m, k) ==
  Put(auth, m, [publicKey |-> k,
                status |-> IF m \in DOMAIN auth THEN auth[m].status ELSE "pending"])

\* Every other AddPending leaves the MAC pending with the key it presented ...
AddPending(auth, m, k) == Put(auth, m, [publicKey |-> k, status |-> "pending"])

\* ... but an approved entry is rewritten in place, so that whoever holds a
\* pointer to it sees the new key, while any other is replaced by a new object.
KeepsObject(auth, m) == IsApproved(auth, m)

\* Approve and Reject look only at whether the MAC is known.
Approve(auth, m) == [auth EXCEPT ![m].status = "approved"]

Reject(auth, m) == [auth EXCEPT ![m].status = "rejected"]

=============================================================================
