------------------------------- MODULE Rollout -------------------------------
(***************************************************************************)
(* What the migrations promise a deployment, with no run, lock, session or *)
(* failure in sight.                                                       *)
(*                                                                         *)
(* The schema goes forward one file at a time, each file once, in the      *)
(* order of the names and together with its line in schema_migrations;     *)
(* nothing takes a file back.  A pod comes to serve when the schema has    *)
(* every file of its image and its environment is complete, and it may     *)
(* stop at any time.                                                       *)
(***************************************************************************)
EXTENDS Naturals, Sequences

CONSTANTS
    Pods,
    Image,          \* how many files the image of a pod holds
    Complete        \* the pods whose environment has what they need

VARIABLES
    executed,       \* the files whose effects are in the schema, in order
    applied,        \* the ones it says it has
    serving         \* the pods that answer requests

vars == <<executed, applied, serving>>

Init ==
    /\ executed = <<>>
    /\ applied = {}
    /\ serving = {}

\* The next file, of an image that somebody has.
Apply ==
    LET f == Len(executed) + 1 IN
    /\ \E p \in Pods : f <= Image[p]
    /\ executed' = Append(executed, f)
    /\ applied' = applied \cup {f}
    /\ UNCHANGED serving

Serve(p) ==
    /\ p \in Complete \ serving
    /\ 1 .. Image[p] \subseteq applied
    /\ serving' = serving \cup {p}
    /\ UNCHANGED <<executed, applied>>

Stop(p) ==
    /\ p \in serving
    /\ serving' = serving \ {p}
    /\ UNCHANGED <<executed, applied>>

Next ==
    \/ Apply
    \/ \E p \in Pods : Serve(p) \/ Stop(p)

Spec == Init /\ [][Next]_vars
=============================================================================
