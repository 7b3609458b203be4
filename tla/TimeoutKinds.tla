---------------------------- MODULE TimeoutKinds ----------------------------
(***************************************************************************)
(* What the primitives know of the timeout of a call.                      *)
(***************************************************************************)

(***************************************************************************)
(* li.QuadPart of a timeout: "zero" is 0, "rel" negative, "abs" positive   *)
(* and "inf" INT64_MAX.                                                    *)
(***************************************************************************)
TimeoutKind == {"zero", "rel", "abs", "inf"}

\* Fault: every timeout saturates, an infinite one too.
SaturatedAll(k) == {k, "zero"}

(***************************************************************************)
(* A relative timeout loses the time that has passed and saturates at      *)
(* zero; the others are left alone.                                        *)
(***************************************************************************)
Adjusted(k) == IF k = "rel" THEN {"rel", "zero"} ELSE {k}
=============================================================================
