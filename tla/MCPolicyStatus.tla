--------------------------- MODULE MCPolicyStatus ---------------------------
(* Two resources of different types.  The versions differ in every field   *)
(* that updateComplianceStatus compares: all types, one type and both, two *)
(* bodies, a suppression, and a disabled policy.  The first resource has a *)
(* slash in its ID, which a wildcard crosses for the analyzers only.       *)
EXTENDS PolicyStatus

MCTypeOf == "r1" :> "t1" @@ "r2" :> "t2"
Version(on, body, types, ss) ==
    [enabled |-> on, body |-> body, types |-> types, suppressions |-> ss]
MCPatterns == {"exact", "glob"}
MCPathMatches == {<<"exact", "r1">>, <<"glob", "r2">>}
MCMatches == MCPathMatches \cup {<<"glob", "r1">>}
MCVersions == {
    Version(TRUE, 1, {}, {}),
    Version(TRUE, 2, {"t1", "t2"}, {}),
    Version(TRUE, 2, {"t1"}, {"exact"}),
    Version(FALSE, 2, {"t1"}, {"exact"})}
=============================================================================
