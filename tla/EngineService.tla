--------------------------- MODULE EngineService ---------------------------
(***************************************************************************)
(* What the desktop shells of one data directory rely on: at most one engine *)
(* process uses the data, a shell that is counted keeps it serving, and an    *)
(* engine that goes tells its shells before it gives the data away.  Nothing  *)
(* here knows of locks, records, probes, builds, launches or signals.         *)
(***************************************************************************)
CONSTANTS Shells, Engines, Nil

VARIABLES
    using,   \* engines that have the data of the directory open
    serving, \* those that answer shells
    leaving, \* those that have decided to go because nobody needs them
    held     \* the engine that counts each shell, or Nil

vars == <<using, serving, leaving, held>>

Init == /\ using = {} /\ serving = {} /\ leaving = {}
        /\ held = [s \in Shells |-> Nil]

Take(p) == /\ using = {}
           /\ using' = {p}
           /\ UNCHANGED <<serving, leaving, held>>

Serve(p) == /\ using = {p} /\ serving = {}
            /\ serving' = {p}
            /\ UNCHANGED <<using, leaving, held>>

Hold(s, p) == /\ p \in serving \ leaving
              /\ held' = [held EXCEPT ![s] = p]
              /\ UNCHANGED <<using, serving, leaving>>

LetGo(s) == /\ held' = [held EXCEPT ![s] = Nil]
            /\ UNCHANGED <<using, serving, leaving>>

\* The decision to leave and a hold exclude each other, in either order.
Resign(p) == /\ p \in serving /\ \A s \in Shells : held[s] # p
             /\ leaving' = leaving \cup {p}
             /\ UNCHANGED <<using, serving, held>>

Dismissed(p) == [s \in Shells |-> IF held[s] = p THEN Nil ELSE held[s]]

\* Serving stops, and the shells know, while the data is still this engine's.
Withdraw(p) == /\ p \in serving
               /\ serving' = serving \ {p}
               /\ held' = Dismissed(p)
               /\ UNCHANGED <<using, leaving>>

GiveBack(p) == /\ p \in using \ serving
               /\ using' = using \ {p}
               /\ UNCHANGED <<serving, leaving, held>>

\* A process ends, wherever it is.
End(p) == /\ using' = using \ {p}
          /\ serving' = serving \ {p}
          /\ leaving' = leaving \ {p}
          /\ held' = Dismissed(p)

Next == \/ \E p \in Engines : \/ Take(p) \/ Serve(p) \/ Resign(p)
                              \/ Withdraw(p) \/ GiveBack(p) \/ End(p)
        \/ \E s \in Shells : LetGo(s) \/ \E p \in Engines : Hold(s, p)

Spec == Init /\ [][Next]_vars
=============================================================================
