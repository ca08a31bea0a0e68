----------------------------- MODULE ShapeLevel -----------------------------
(***************************************************************************)
(* JSON values, and one level of shape_json (src/src/shaping.rs): what it  *)
(* makes of a value when Sub is what it makes of that value's parts.       *)
(* Shaping closes the recursions.                                          *)
(*                                                                         *)
(* A JSON value keeps its structure and, of every leaf, only its lengths:  *)
(* a string has `chars` characters in `bytes` bytes, any other leaf its    *)
(* text's bytes, an object a sequence of [key |-> bytes, value |-> ...].   *)
(***************************************************************************)
EXTENDS ShapeBudget

CONSTANT StandsFor(_, _)        \* the recursion over StandsOnce

String(c, b) == [kind |-> "string", chars |-> c, bytes |-> b]
Other(b)     == [kind |-> "other", bytes |-> b]
Array(items) == [kind |-> "array", items |-> items]
Object(map)  == [kind |-> "object", map |-> map]

Digits(n) == IF n < 10 THEN 1 ELSE IF n < 100 THEN 2 ELSE IF n < 1000 THEN 3 ELSE 4

-----------------------------------------------------------------------------

(* An ellipsis of three bytes and "(N chars total)" follow the first max   *)
(* characters.  Leaves here have one byte a character.                     *)
TruncateString(v, max) ==
    IF v.chars <= max THEN v
    ELSE LET chars == max + 15 + Digits(v.chars) IN String(chars, chars + 2)

(* {"_truncated": true, "omitted_items": n}                                *)
Marker(n) ==
    Object(<< [key |-> 10, value |-> Other(4)],
              [key |-> 13, value |-> [kind |-> "other", bytes |-> Digits(n), omitted |-> n]] >>)

(* Mutant of Kept: the marker takes the place of an item.                  *)
KeptWithin(items, max) ==
    IF Len(items) > max THEN SubSeq(items, 1, max - 1) ELSE items

Kept(items, max) == IF Len(items) > max THEN SubSeq(items, 1, max) ELSE items

MarkerFor(items, max) ==
    IF Len(items) > max THEN <<Marker(Len(items) - max)>> ELSE <<>>

ShapeOnce(Sub(_), v, maxItems, maxChars) ==
    CASE v.kind = "other"  -> v
      [] v.kind = "string" -> TruncateString(v, maxChars)
      [] v.kind = "array"  ->
            LET kept == Kept(v.items, maxItems)
            IN  Array([i \in 1 .. Len(kept) |-> Sub(kept[i])] \o MarkerFor(v.items, maxItems))
      [] v.kind = "object" ->
            Object([i \in 1 .. Len(v.map) |-> [v.map[i] EXCEPT !.value = Sub(@)]])

-----------------------------------------------------------------------------

(* One level of what an abridgement is: nothing but the tail of an array   *)
(* or of a string is missing, and a cut array says how many items are.     *)
StandsOnce(Stands(_, _), shaped, v) ==
    CASE v.kind = "other"  -> shaped = v
      [] v.kind = "string" -> \E l \in 1 .. Len(AggressivenessLevels) :
                                  shaped = TruncateString(v, AggressivenessLevels[l][2])
      [] v.kind = "object" ->
            /\ shaped.kind = "object" /\ Len(shaped.map) = Len(v.map)
            /\ \A i \in 1 .. Len(v.map) :
                   /\ shaped.map[i].key = v.map[i].key
                   /\ Stands(shaped.map[i].value, v.map[i].value)
      [] v.kind = "array"  ->
            /\ shaped.kind = "array"
            /\ \E kept \in 0 .. Len(v.items) :
                   /\ IF kept = Len(v.items) THEN Len(shaped.items) = kept
                      ELSE /\ Len(shaped.items) = kept + 1
                           /\ shaped.items[kept + 1] = Marker(Len(v.items) - kept)
                   /\ \A i \in 1 .. kept : Stands(shaped.items[i], v.items[i])

(* What the model reads is an honest abridgement, at every depth: every    *)
(* array in it lists its first items and, in the marker, exactly how many  *)
(* were left out (shape_json, whatever preset shape_for_budget ends with). *)
Abridged == result # NoValue => StandsFor(result, value)

=============================================================================
