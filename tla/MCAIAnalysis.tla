----------------------------- MODULE MCAIAnalysis -----------------------------
(***************************************************************************)
(* Instances of AIAnalysis for TLC: chains of no, one and two providers,   *)
(* and a configuration that Validate refuses.                              *)
(***************************************************************************)
EXTENDS AIAnalysis, TLC

CONSTANT t1

OneHook == t1 :> 1

With(enabled, given, strategy) ==
  [n9e |-> TRUE, enabled |-> enabled, url |-> Providers, token |-> given, strategy |-> strategy,
   store |-> "file", addr |-> FALSE, mode |-> "standalone", master |-> FALSE]

Environments ==
  {With({"iflyelf"}, Providers, "openclaw_only"), With({"iflyelf"}, Providers, "openclaw_first"),
   With(Providers, Providers, "iflyelf_first"), With(Providers, {"iflyelf"}, "unknown")}
===============================================================================
