--------------------------- MODULE SyncScopeLease ---------------------------
(***************************************************************************)
(* What the catalogue promises about synchronization runs, with no rows,   *)
(* heartbeats or processes: execution runs are leases on a scope (one      *)
(* source, or every source), two live leases never overlap, and only a     *)
(* live lease writes to the sources of its scope.  CatalogSyncRuns         *)
(* implements this specification.                                          *)
(***************************************************************************)
EXTENDS Integers, FiniteSets

CONSTANTS Source,  \* catalogue sources
          Global   \* the scope of a run over every source (source_id NULL)

VARIABLES active,     \* leases in force: records [token, scope]
          issued,     \* the number of tokens minted so far
          lastWriter  \* for each source, the token that last wrote to it

leaseVars == <<active, issued, lastWriter>>

Scope == Source \cup {Global}

Lease == [token : Nat, scope : Scope]

Overlap(a, b) == a = Global \/ b = Global \/ a = b

Covers(scope, s) == scope \in {Global, s}

LeaseInit ==
  /\ issued = 0
  /\ lastWriter = [s \in Source |-> 0]
  /\ \/ active = {}
     \/ \E scope \in Scope : active = {[token |-> 0, scope |-> scope]}

(* A fresh token is granted a scope that no lease in force overlaps.       *)
Acquire(scope) ==
  /\ \A l \in active : ~Overlap(l.scope, scope)
  /\ issued' = issued + 1
  /\ active' = active \cup {[token |-> issued + 1, scope |-> scope]}
  /\ UNCHANGED lastWriter

(* A token may be minted for a run that is refused or that holds no scope. *)
Burn ==
  /\ issued' = issued + 1
  /\ UNCHANGED <<active, lastWriter>>

(* Leases end when their run completes or is recovered.                    *)
Release ==
  \E gone \in SUBSET active :
    /\ gone # {}
    /\ active' = active \ gone
    /\ UNCHANGED <<issued, lastWriter>>

Write(l, s) ==
  /\ l \in active
  /\ Covers(l.scope, s)
  /\ lastWriter' = [lastWriter EXCEPT ![s] = l.token]
  /\ UNCHANGED <<active, issued>>

LeaseNext ==
  \/ \E scope \in Scope : Acquire(scope)
  \/ Burn
  \/ Release
  \/ \E l \in active, s \in Source : Write(l, s)

LeaseSpec == LeaseInit /\ [][LeaseNext]_leaseVars

-----------------------------------------------------------------------------
LeaseTypeOK ==
  /\ active \subseteq Lease
  /\ issued \in Nat
  /\ lastWriter \in [Source -> Nat]

(* Two leases in force never cover a common source.                        *)
LeaseExclusion ==
  \A a, b \in active : a # b => ~Overlap(a.scope, b.scope)

(* The writers of a source appear in the order their tokens were minted:   *)
(* once a later run has written, an earlier one never writes again.        *)
WritersInTokenOrder ==
  [][\A s \in Source : lastWriter'[s] >= lastWriter[s]]_leaseVars
=============================================================================
