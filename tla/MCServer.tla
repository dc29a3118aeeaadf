------------------------------ MODULE MCServer ------------------------------
(* Small instances of Server for TLC. *)
EXTENDS Server, TLC

CONSTANTS page, other, write

(* Two pages, to join one build, and a write.  A page of a warm cache asks  *)
(* no more of the server than a probe.                                      *)
Wanted == (page :> "page") @@ (other :> "page") @@ (write :> "write")

(* One or no defect beside every way to layer paths, roots and addresses. *)
Starts ==
  {s \in SetupSpace :
     /\ s.absent \subseteq s.given
     /\ Cardinality({d \in {"args", "number", "glob", "port"} :
          \/ d = "args" /\ ~s.argsParse
          \/ d = "number" /\ ~s.envNumbersParse
          \/ d = "glob" /\ ~s.globsCompile
          \/ d = "port" /\ ~s.portFree}) <= 1}
=============================================================================
