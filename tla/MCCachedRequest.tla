---------------------------- MODULE MCCachedRequest ----------------------------
(* Two requests on two routers, two workers and two keys.  The asks are those  *)
(* that differ in what happens to them: every mode, a key that is not that of  *)
(* the prefix, and every way to generate and to check.                         *)
EXTENDS CachedRequest, TLC

CONSTANTS r1, r2, k1, k2, q1, q2

Plain == [router |-> r1, chat |-> FALSE, mode |-> "use", prefix |-> k1, key |-> k1, given |-> FALSE,
          fallback |-> TRUE, suffixOnly |-> TRUE, validate |-> FALSE, recompute |-> FALSE]

MCAsks ==
  q1 :> { Plain,
          [Plain EXCEPT !.validate = TRUE, !.chat = TRUE],
          [Plain EXCEPT !.suffixOnly = FALSE, !.fallback = FALSE],
          [Plain EXCEPT !.given = TRUE, !.key = k2],
          [Plain EXCEPT !.mode = "auto", !.prefix = k2, !.key = k2] } @@
  q2 :> { [Plain EXCEPT !.router = r2, !.validate = TRUE, !.recompute = TRUE],
          [Plain EXCEPT !.mode = "build", !.router = r2, !.prefix = k2, !.key = k2],
          [Plain EXCEPT !.mode = "refresh", !.prefix = k2, !.given = TRUE],
          [Plain EXCEPT !.mode = "auto", !.router = r2, !.prefix = k2, !.key = k2],
          [Plain EXCEPT !.mode = "bypass"] }
=============================================================================
