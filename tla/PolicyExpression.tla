-------------------------- MODULE PolicyExpression --------------------------
(***************************************************************************)
(* The expression of a row policy, as BuildPolicySQL puts its text         *)
(* together clause by clause, and what PostgreSQL makes of that text.      *)
(*                                                                         *)
(* A text is a sequence of operands and operators; an operand is the truth *)
(* value of a clause for some row, or what a text in parentheses is worth. *)
(* A clause about NULL is neither true nor false.                          *)
(***************************************************************************)
EXTENDS Integers, Sequences, FiniteSetsExt

CONSTANT MaxClauses \* bound: clauses of a policy

ASSUME ClauseBounds == MaxClauses \in Nat \ {0}

VARIABLE build \* one call of buildPolicySQL

-----------------------------------------------------------------------------
\* AND is the least and OR the greatest of two truth values.
False == 0
Unknown == 1
True == 2
Truth == {False, Unknown, True}

Logic == {"", "AND", "OR"}
Clause == [logic : Logic, value : Truth]
Operand(v) == [kind |-> "value", value |-> v]
Operator(name) == [kind |-> name]

\* Clauses of a call, and whether the caller has one of the roles.
ExprInit ==
    build \in [pc : {"fold"}, clauses : UNION {[1 .. n -> Clause] : n \in 0 .. MaxClauses},
               role : {False, True}, text : {<<>>}, done : {0}]

\* AND binds stronger than OR: the text is a disjunction of conjunctions, one for each
\* operand and the operands that no OR parts from it.
Meaning(text) ==
    LET operands == {i \in DOMAIN text : text[i].kind = "value"}
        ors == {i \in DOMAIN text : text[i].kind = "OR"}
        joined(i) == {j \in operands : \A o \in ors : o < i <=> o < j}
    IN Max({Min({text[j].value : j \in joined(i)}) : i \in operands})

\* What is in parentheses is one operand of what is around them.
Paren(text) == Operand(Meaning(text))

-----------------------------------------------------------------------------
\* Mutant: the text so far is not put in parentheses.
JoinFlat(text, logic, value) == text \o <<Operator(logic), Operand(value)>>

Join(text, logic, value) == <<Paren(text \o <<Operator(logic), Operand(value)>>)>>

\* The first clause has no operator, every other one has.
ValidLogic(i) == (build.clauses[i].logic = "") <=> (i = 1)

FoldClauses ==
    LET i == build.done + 1
        clause == build.clauses[i] IN
    /\ build.pc = "fold" /\ i <= Len(build.clauses)
    /\ build' = IF ~ValidLogic(i) THEN [build EXCEPT !.pc = "refused"]
                ELSE [build EXCEPT !.done = i,
                          !.text = IF i = 1 THEN <<Operand(clause.value)>>
                                   ELSE Join(@, clause.logic, clause.value)]

\* The role is asked for first, whatever the clauses say.
BuildPolicySQL ==
    /\ build.pc = "fold" /\ build.done = Len(build.clauses)
    /\ build' = IF build.clauses = <<>> THEN [build EXCEPT !.pc = "refused"]
                ELSE [build EXCEPT !.pc = "built",
                          !.text = <<Paren(<<Operand(build.role)>>), Operator("AND"), Paren(@)>>]

ExprNext == FoldClauses \/ BuildPolicySQL
ExprSpec == ExprInit /\ [][ExprNext]_build

-----------------------------------------------------------------------------
\* What the author of the clauses up to each of them reads: it joins all that is before it.
Reading(clauses) ==
    LET read[i \in DOMAIN clauses] ==
          LET clause == clauses[i] IN
          IF i = 1 THEN clause.value
          ELSE IF clause.logic = "AND" THEN Min({read[i - 1], clause.value})
          ELSE Max({read[i - 1], clause.value})
    IN read

\* PostgreSQL, with its precedence and its NULLs, decides as the clauses read from left to
\* right, for callers that have a role of the policy and for nobody else (foldClauses).
PolicyMeansItsClauses ==
    /\ build.pc = "fold" /\ build.done > 0 => Meaning(build.text) = Reading(build.clauses)[build.done]
    /\ build.pc = "built" =>
          (Meaning(build.text) = True <=> build.role = True /\ Reading(build.clauses)[Len(build.clauses)] = True)
=============================================================================
