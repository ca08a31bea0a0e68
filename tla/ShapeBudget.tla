----------------------------- MODULE ShapeBudget ----------------------------
(***************************************************************************)
(* The loop of shape_for_budget (src/src/shaping.rs): presets from least   *)
(* to most aggressive are tried on the whole value until the text of what  *)
(* comes out is short enough.                                              *)
(*                                                                         *)
(* Nothing here depends on what a value is or how it is shaped: Shaping    *)
(* gives both for JSON.                                                    *)
(***************************************************************************)
EXTENDS Integers, Sequences

CONSTANTS
    Values,             \* the values to shape
    Budgets,            \* the token budgets
    Shape(_, _, _),     \* a value cut to so many items and characters
    TextBytes(_),       \* the length of a value's text
    NoValue             \* no result yet

VARIABLES value, budget_tokens, level, most_aggressive, result

fitVars == <<value, budget_tokens, level, most_aggressive, result>>

AggressivenessLevels == << <<20, 500>>, <<10, 200>>, <<5, 80>>, <<3, 40>>, <<1, 20>> >>

ShapedAt(v, l) == Shape(v, AggressivenessLevels[l][1], AggressivenessLevels[l][2])

(* estimate_tokens: div_ceil(4).max(1).                                    *)
EstimateTokens(bytes) == IF bytes = 0 THEN 1 ELSE (bytes + 3) \div 4

Fits(v, budget) == EstimateTokens(TextBytes(v)) <= budget

-----------------------------------------------------------------------------

FitInit ==
    /\ value \in Values /\ budget_tokens \in Budgets
    /\ level = 1
    /\ most_aggressive = value
    /\ result = NoValue

(* Mutant of TryLevel: a shape that does not fit is forgotten.             *)
TryLevelForgetting ==
    /\ result = NoValue /\ level <= Len(AggressivenessLevels)
    /\ LET shaped == ShapedAt(value, level)
       IN  IF Fits(shaped, budget_tokens)
           THEN result' = shaped /\ UNCHANGED level
           ELSE level' = level + 1 /\ UNCHANGED result
    /\ UNCHANGED <<value, budget_tokens, most_aggressive>>

(* One turn of the loop.                                                   *)
TryLevel ==
    /\ result = NoValue /\ level <= Len(AggressivenessLevels)
    /\ LET shaped == ShapedAt(value, level)
       IN  IF Fits(shaped, budget_tokens)
           THEN result' = shaped /\ UNCHANGED <<level, most_aggressive>>
           ELSE most_aggressive' = shaped /\ level' = level + 1 /\ UNCHANGED result
    /\ UNCHANGED <<value, budget_tokens>>

FallBack ==
    /\ result = NoValue /\ level > Len(AggressivenessLevels)
    /\ result' = most_aggressive
    /\ UNCHANGED <<value, budget_tokens, level, most_aggressive>>

FitNext == TryLevel \/ FallBack

FitSpec == FitInit /\ [][FitNext]_fitVars

-----------------------------------------------------------------------------

(* "trying presets until one fits. Falls back to the most aggressive       *)
(* preset if none do" (shaping.rs:17-18): no gentler preset would have kept*)
(* the budget, and what exceeds it is cut as hard as the presets allow.    *)
GentlestThatFits ==
    result # NoValue =>
        \E l \in 1 .. Len(AggressivenessLevels) :
            /\ result = ShapedAt(value, l)
            /\ \A k \in 1 .. l - 1 : ~Fits(ShapedAt(value, k), budget_tokens)
            /\ l = Len(AggressivenessLevels) \/ Fits(result, budget_tokens)

=============================================================================
