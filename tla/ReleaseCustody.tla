--------------------------- MODULE ReleaseCustody ---------------------------
(***************************************************************************)
(* What the AC-002 release chain promises about custody of a change,       *)
(* without its files, rows, leases or handlers: nothing is released that   *)
(* was not verified, nothing merged that was not released, no deployment   *)
(* authorized of a commit that was not merged, and nothing deployed to an  *)
(* environment the owner never authorized.                                 *)
(***************************************************************************)
CONSTANTS Jobs, Heads, Shas, Envs

VARIABLES
    verified,  \* <<job, head>>: a retest found head a VERIFIED_IMPROVEMENT
    released,  \* <<job, head>>: the owner authorized merging head
    merged,    \* <<job, head, sha>>: head was merged as commit sha
    approved,  \* <<job, env, sha>>: the owner authorized sha for env
    deployed   \* <<job, env, sha>>: sha was reported running in env

custody == <<verified, released, merged, approved, deployed>>

Init ==
    /\ verified = {}
    /\ released = {}
    /\ merged = {}
    /\ approved = {}
    /\ deployed = {}

Verify(j, head) ==
    /\ verified' = verified \cup {<<j, head>>}
    /\ UNCHANGED <<released, merged, approved, deployed>>

Release(j, head) ==
    /\ <<j, head>> \in verified
    /\ released' = released \cup {<<j, head>>}
    /\ UNCHANGED <<verified, merged, approved, deployed>>

Merge(j, head, sha) ==
    /\ <<j, head>> \in released
    /\ merged' = merged \cup {<<j, head, sha>>}
    /\ UNCHANGED <<verified, released, approved, deployed>>

Approve(j, env, sha) ==
    /\ \E head \in Heads : <<j, head, sha>> \in merged
    /\ approved' = approved \cup {<<j, env, sha>>}
    /\ UNCHANGED <<verified, released, merged, deployed>>

Deploy(j, env, sha) ==
    /\ \E head \in Heads : <<j, head, sha>> \in merged
    /\ \E old \in Shas : <<j, env, old>> \in approved
    /\ deployed' = deployed \cup {<<j, env, sha>>}
    /\ UNCHANGED <<verified, released, merged, approved>>

Next ==
    \E j \in Jobs :
        \/ \E head \in Heads :
             \/ Verify(j, head)
             \/ Release(j, head)
             \/ \E sha \in Shas : Merge(j, head, sha)
        \/ \E env \in Envs, sha \in Shas :
             \/ Approve(j, env, sha)
             \/ Deploy(j, env, sha)

Spec == Init /\ [][Next]_custody
=============================================================================
