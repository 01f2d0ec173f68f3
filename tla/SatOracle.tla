----------------------------- MODULE SatOracle -----------------------------
(***************************************************************************)
(* What SatSolver.h promises its client, without an engine: clauses        *)
(* accumulate; a query under assumptions is answered True only if there is *)
(* an assignment for the clauses and the assumptions, False only if there  *)
(* is none, and X at will; the conflict literals it leaves behind form a   *)
(* clause that follows from the clauses alone.                             *)
(***************************************************************************)
EXTENDS SatLits

VARIABLES
  cnf,        (* the clauses added so far                                 *)
  query,      (* the literals assumed by the current or last query        *)
  busy,       (* a query is being answered                                *)
  answer,     (* the answer just returned, "none" otherwise               *)
  conflicts   (* conflict_literals()                                      *)

oracleVars == <<cnf, query, busy, answer, conflicts>>

OracleInit ==
  /\ cnf = {} /\ query = {} /\ busy = FALSE
  /\ answer = "none" /\ conflicts = {}

Add(C) ==
  /\ ~busy
  /\ cnf' = cnf \cup {C}
  /\ answer' = "none"
  /\ UNCHANGED <<query, busy, conflicts>>

(* A new variable, or anything else that is not a query.                   *)
Forget ==
  /\ ~busy
  /\ answer' = "none"
  /\ UNCHANGED <<cnf, query, busy, conflicts>>

Ask(A) ==
  /\ ~busy
  /\ busy' = TRUE
  /\ query' = A
  /\ answer' = "none"
  /\ UNCHANGED <<cnf, conflicts>>

Reply(r) ==
  /\ busy
  /\ busy' = FALSE
  /\ r = "sat" => Models(cnf \cup Units(query)) # {}
  /\ r = "unsat" => Models(cnf \cup Units(query)) = {}
  /\ r # "unsat" => conflicts' = conflicts
  /\ conflicts' # conflicts => Entails(cnf, conflicts')
  /\ answer' = r
  /\ UNCHANGED <<cnf, query>>

OracleNext ==
  \/ \E C \in SUBSET Lit : Add(C) \/ Ask(C)
  \/ Forget
  \/ \E r \in {"sat", "unsat", "unknown"} :
       Reply(r) /\ conflicts' \in SUBSET Lit

OracleSpec == OracleInit /\ [][OracleNext]_oracleVars
=============================================================================
