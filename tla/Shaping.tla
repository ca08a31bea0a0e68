------------------------------- MODULE Shaping ------------------------------
(***************************************************************************)
(* shape_json (src/src/shaping.rs) on whole JSON trees, for the loop in    *)
(* ShapeBudget: the recursions over ShapeLevel, and the length of a tree's *)
(* text.                                                                   *)
(***************************************************************************)
EXTENDS ShapeLevel, SequencesExt

Total(texts) == FoldLeft(LAMBDA sum, bytes : sum + bytes, 0, texts)

Commas(seq) == IF seq = <<>> THEN 0 ELSE Len(seq) - 1

(* The bytes of Value::to_string: quotes, brackets, colons and commas.     *)
RECURSIVE TextLen(_)
TextLen(v) ==
    CASE v.kind = "other"  -> v.bytes
      [] v.kind = "string" -> v.bytes + 2
      [] v.kind = "array"  ->
            2 + Total([i \in 1 .. Len(v.items) |-> TextLen(v.items[i])]) + Commas(v.items)
      [] v.kind = "object" ->
            2 + Total([i \in 1 .. Len(v.map) |-> v.map[i].key + 3 + TextLen(v.map[i].value)])
              + Commas(v.map)

RECURSIVE ShapeJson(_, _, _)
ShapeJson(v, maxItems, maxChars) ==
    ShapeOnce(LAMBDA part : ShapeJson(part, maxItems, maxChars), v, maxItems, maxChars)

RECURSIVE Abridges(_, _)
Abridges(shaped, v) == StandsOnce(Abridges, shaped, v)

=============================================================================
