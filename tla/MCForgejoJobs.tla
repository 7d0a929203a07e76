--------------------------- MODULE MCForgejoJobs ---------------------------
EXTENDS ForgejoJobs, TLC

CONSTANTS p1, p2, c1, c2

\* Request ci is served by process pi.
RequestOfEach == [c \in Requests |-> IF c = c1 THEN p1 ELSE p2]

\* Processes may be exchanged together with their requests.
Swap == (p1 :> p2) @@ (p2 :> p1) @@ (c1 :> c2) @@ (c2 :> c1)
Symmetry == {Swap, [x \in {p1, p2, c1, c2} |-> x]}

\* The runs tell states apart by what can still make a difference.  What a runner
\* has read of a pull request that is closed, has moved on or is in a later
\* generation will fail every comparison.  A runner that has lost its claim only
\* fails, unless its fact still lets it confirm a reopen.  And the intent counts
\* only while the pull request is open.
Outdated(r) == ~pr.open \/ r.fact.gen # pr.gen \/ r.fact.head < pr.head
Essence(r) ==
  CASE ~r.valid /\ r.pc \in Working /\ (r.pc # "reopen" \/ ~r.fact.pending \/ Outdated(r)) ->
         [r EXCEPT !.pc = "start", !.fact = NoFact]
    [] r.valid /\ Outdated(r) ->
         [r EXCEPT !.pc = IF @ \in {"reopen", "push"} THEN "commit" ELSE @, !.fact = NoFact]
    [] r.valid /\ ~Outdated(r) /\ r.pc \in {"push", "record", "commit"} ->
         [r EXCEPT !.fact.pending = FALSE]
    [] OTHER -> r
View == <<[pr EXCEPT !.pending = @ /\ pr.open], row, req, recorded, [p \in Processes |-> Essence(runner[p])]>>
===========================================================================
